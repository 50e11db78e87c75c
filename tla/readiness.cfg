\* The wait of an up, or a smoke run, with two presets for one slot.
SPECIFICATION LiveSpec
CONSTANTS
    Presets = {p1, p2}
    NoPreset = NoPreset
    NoCompletion = NoCompletion
    GracePolls = 3
    Timeout = 5
    MaxExits = 1
INVARIANTS VerdictIsRight
PROPERTIES FailsForAReason BothEnd
CHECK_DEADLOCK FALSE
