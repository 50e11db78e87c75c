\* Two fetches, a status and a user who moves files at any moment.
SPECIFICATION LiveSpec
CONSTANTS
    None = None
    Fetches = {f1, f2}
    Statuses = {s1}
    Size = 3
    MaxEdits = 3
    MaxFaults = 3
PROPERTIES StampsGoStaleByEditOnly PublishesPinnedOnly KeepsPinnedBytes FetchArrives
