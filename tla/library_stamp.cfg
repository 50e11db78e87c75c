\* A status that has hashed a file, and a user who replaces the file then.
SPECIFICATION Spec
CONSTANTS
    None = None
    Fetches = {f1}
    Statuses = {s1}
    Size = 2
    MaxEdits = 2
    MaxFaults = 0
INVARIANTS StampTellsTruth
