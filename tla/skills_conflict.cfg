\* One fetch, and a user who puts a link or a file of his own in the way.
SPECIFICATION Spec
CONSTANTS
    Fetches = {f1}
    Manifest <- OneSkill
    Undeclared = {}
    MaxFaults = 0
    MaxEdits = 1
PROPERTIES ConflictStays
