SPECIFICATION WidSpec
CONSTANTS
    Ports = {p1, p2}
    NoPort = NoPort
    Frames = {f1, f2, pat}
    NoFrame = NoFrame
    Pattern = pat
    Answers = {f1, pat}
INVARIANTS PortTypeOK PendingUnsent DialogShowsPort
PROPERTIES SlotSpecHolds PendingLeaves
