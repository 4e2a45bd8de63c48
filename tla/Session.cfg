SPECIFICATION FairSessionSpec
CONSTANTS
    QueueLimit = 2
    MaxWorkId = 4
    ReqIds = {r1, r2}
    NoId = NoId
    NoJob = NoJob
    MaxRows = 1
    AgentAnswers = {"value", "error", "odd"}
INVARIANTS SessionTypeOK WaitsForCurrent NoWorkWaits
PROPERTIES LedgerHolds EveryRequestReported
