SPECIFICATION FairSpec
CONSTANTS
    m1 = m1
    m2 = m2
    ID <- MCID
    OtherID = other
    Zero = Zero
    Junk = Junk
    None = None
    SLOT_BYTES = 2
    Hack = 1
    Val = {v1, v2}
    DLC = {1, 2}
    Lengths = {1}
    CallbackID = {}
    MaxAdds = 2
    Senders = FALSE
    HeapReuse = FALSE
    Configuration <- MCConfiguration
    Task = {"LOG", "READ_CAN", "WIRELESS"}
    FailingTask = {}
    CreateMayFail = TRUE
INVARIANTS LogTypeOK RecordTornOnlyByItsOwnFrame TasksFindBusReady TaskPointersValid
PROPERTIES EveryTaskIsCreated LogCompletes
