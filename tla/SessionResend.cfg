SPECIFICATION SessionSpec
CONSTANTS
    QueueLimit = 2
    MaxWorkId = 4
    ReqIds = {r1, r2}
    NoId = NoId
    NoJob = NoJob
    MaxRows = 1
    AgentAnswers = {"value", "error"}
PROPERTIES ResentWithNewId
