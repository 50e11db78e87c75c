\* Ups and a fetch, one of them interrupted, and a file taken away; no edits.
SPECIFICATION Spec
CONSTANTS
    Hub <- OneHub
    HubPin <- OnePin
    HubBase <- OneBase
    Names = {"p1", "p2"}
    Sets = {"large", "little"}
    Manifest0 <- TwoSets
    Documents0 <- TwoDocs
    ManifestFiles <- SomeManifests
    Documents <- SomeDocuments
    Builds = {1, 2}
    NoDefault = "none"
    MaxEdits = 0
    MaxCommands = 4
    MaxFaults = 2
INVARIANT AcceptedIsKnown
CHECK_DEADLOCK FALSE
