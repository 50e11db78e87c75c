\* A maintainer's edits, a fetch and an `up`, one of them interrupted.
SPECIFICATION Spec
CONSTANTS
    Hub <- OneHub
    HubPin <- OnePin
    HubBase <- OneBase
    Names = {"p1", "p2"}
    Sets = {"large", "little"}
    Manifest0 <- TwoSets
    Documents0 <- TwoDocs
    ManifestFiles <- SomeManifests
    Documents <- SomeDocuments
    Builds = {1, 2}
    NoDefault = "none"
    MaxEdits = 1
    MaxCommands = 2
    MaxFaults = 1
INVARIANTS AcceptedIsServed EffortsAreDeclared CheckedIsRendered DraftIsRead
PROPERTIES OfferedIsWhole PlacesWhatIsPinned
CHECK_DEADLOCK FALSE
