CONSTANTS
    Words <- MCWords
    Example <- MCExample
    Commented <- MCCommented
    PinFile <- MCPinFile
    Root <- MCRoot
    LinkAt <- MCLinkAt
    NoLink <- MCNoLink
    Caller <- MCCaller
    UnsafeNames <- MCUnsafeNames
    Lines <- MCLines
    Shell0 <- MCShell0
    ShellKeys <- MCShellKeys
    LinkTargets <- MCLinkTargets
    GitFacts <- MCGitFacts
    Requests <- MCRequests
    CompleteSets <- MCCompleteSets
    MaxOdd = 2
    MaxMoves = 1
SPECIFICATION Spec
CHECK_DEADLOCK FALSE
INVARIANTS
    TypeOK
    ComposeIsGivenTheSettings
    RunsWhatWasChecked
    MountsAreApart
    GitStaysInside
