\* A fetch that found nothing, and a user who puts a file there then.
SPECIFICATION Spec
CONSTANTS
    None = None
    Fetches = {f1}
    Statuses = {s1}
    Size = 2
    MaxEdits = 2
    MaxFaults = 0
PROPERTIES NeverOverwrites
