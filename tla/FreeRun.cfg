SPECIFICATION Spec
CONSTANTS
    RTUCMD_SIZE = 2
    SNMP_SIZE = 1
    Tries = 2
    UintMax = 1
    Values = {0, 1}
    Ports = {com1}
    NoPort = NoPort
    Cmd <- MCCmd
    Frames <- MCFrames
    NoFrame <- MCNoFrame
    Pattern <- MCPattern
    Answers <- MCAnswers
    Leftovers = {"negative"}
    Outlets <- MCOutlets
    Timely = FALSE
    UserOps = {"start", "over", "open", "close", "loop"}
    UiContents <- MCUiMixed
    SavedItems <- MixedItems
    LineOk = FALSE
INVARIANTS TypeOK RunFlagInLoop CountersConsistent AtMostOneLateOpen NoOpenPendingAtRest
