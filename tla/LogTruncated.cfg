SPECIFICATION Spec
CONSTANTS
    Dir = {d1, d2}
    MaxFiles = 3
    Chunks = 2
    MAX_STACK_SIZE = 2
    FileWriteModes = {"truncate"}
    None = None
    MaxBoots = 3
    MaxRecords = 2
INVARIANT LogKeepsSession
CHECK_DEADLOCK FALSE
