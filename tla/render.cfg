\* Three starts of two selections, and a user who interferes twice.
SPECIFICATION RenderSpec
CONSTANTS
    None = None
    Starts = {s1, s2, s3}
    Tags = {t1, t2}
    Others = {"AGENTS.md", "checks"}
    Theirs = {"notes"}
    MaxTouches = 2
SYMMETRY StartTagSymmetry
INVARIANTS RefusesOnlyTheTouched
PROPERTIES RendersAtomically
