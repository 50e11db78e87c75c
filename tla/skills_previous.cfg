\* One fetch that is stopped between the two renames and repeated.
SPECIFICATION Spec
CONSTANTS
    Fetches = {f1}
    Manifest <- OneSkill
    Undeclared = {}
    MaxFaults = 1
    MaxEdits = 0
INVARIANTS CopySurvives
