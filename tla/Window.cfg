SPECIFICATION WindowSpec
CONSTANTS
    RTUCMD_SIZE = 1
    SNMP_SIZE = 1
    Tries = 1
    UintMax = 3
    Values = {0}
    Ports = {com1}
    NoPort = NoPort
    Cmd <- MCCmd
    Frames <- MCFrames
    NoFrame <- MCNoFrame
    Pattern <- MCPattern
    Answers = {}
    Leftovers = {"zero"}
    Outlets <- MCOutlets
    Timely = TRUE
    UserOps = {"start", "over", "close"}
    UiContents <- MCUi
    SavedItems <- MCItems
    LineOk = TRUE
PROPERTIES RowTallies FinalCountsShown CloseEnds WindowIsTest
CHECK_DEADLOCK FALSE
