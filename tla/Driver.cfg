SPECIFICATION FairSpec
CONSTANTS
    Frame = {f1, f2}
    NoFrame = NoFrame
    Residue = {r1}
    RX_BUFFER_SIZE = 3
    TX_QUEUE_LEN = 1
    InstallMayFail = TRUE
    ApiCalls <- MCAllCalls
INVARIANTS TypeOK RingOK FaultSnapshotIsCurrent StallOnlyAfterRestart
PROPERTIES ImplementsFifo BusComesBack FrameIsRead
CHECK_DEADLOCK FALSE
