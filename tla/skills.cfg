\* Two overlapping fetches of a set, bad checkouts, crashes, and a user.
SPECIFICATION LiveSpec
CONSTANTS
    Fetches = {f1, f2}
    Manifest <- TwoSkills
    Undeclared = {"retired"}
    MaxFaults = 2
    MaxEdits = 1
PROPERTIES SwapsAtomically FetchArrives
