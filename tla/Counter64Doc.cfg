SPECIFICATION ValuesSpec
CONSTANTS
    Radix = 2
    SubIds = {0, 1}
    MaxOid = 2
    ADDRBUF = 1
INVARIANTS AssignedHighIsCleared
