SPECIFICATION FairSpec
CONSTANTS
    RTUCMD_SIZE = 2
    SNMP_SIZE = 1
    Tries = 2
    UintMax = 1
    Values = {0, 1}
    Ports = {com1}
    NoPort = NoPort
    Cmd <- MCCmd
    Frames <- MCFrames
    NoFrame <- MCNoFrame
    Pattern <- MCPattern
    Answers = {}
    Leftovers = {"negative"}
    Outlets <- MCOutlets
    Timely = TRUE
    UserOps = {"start", "over"}
    UiContents <- MCUiFull
    SavedItems <- FullItems
    LineOk = TRUE
PROPERTIES OverEndsTest
