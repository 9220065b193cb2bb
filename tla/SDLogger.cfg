SPECIFICATION Spec
CONSTANTS
    Dir = {d1, d2}
    MaxFiles = 3
    Chunks = 2
    MAX_STACK_SIZE = 2
    FileWriteModes <- BothModes
    None = None
    MaxBoots = 3
    MaxRecords = 2
INVARIANTS TypeOK RestIsClean EarlierLogsKept MiscountCostsOneLog AppendKeepsSession LatestRecordIsLast LogInOrder
PROPERTIES FailedLoggerIsSilent
CHECK_DEADLOCK FALSE
