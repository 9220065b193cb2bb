----------------------------- MODULE Telemetry -----------------------------
(***************************************************************************)
(* The firmware around the bus: setup() on core 1, which fills and         *)
(* initializes the bus and starts the tasks, then READ_CAN on core 1,      *)
(* which runs CANBus::update every 5 ms, and LOG on core 0, which runs     *)
(* SDLogger::log every logPeriodMs.  Of log() only what it does to the bus *)
(* is here (sd_logger.hpp:109-116); the card is in SDLogger.tla.           *)
(*                                                                         *)
(* Line 110 makes a lock_guard without a name: it waits for the mutex,     *)
(* takes it and gives it back at the end of that line.  The block after it *)
(* is copied to the card without the mutex, byte by byte.                  *)
(***************************************************************************)
EXTENDS CANBus, TaskScheduler

CONSTANT Configuration     \* ids of the messages of /config.telem, in its order

ASSUME TelemetryAssumption ==
    /\ {"LOG", "READ_CAN", "WIRELESS"} \subseteq Task
    /\ Configuration \in Seq(ID) /\ Len(Configuration) <= MaxAdds

VARIABLES
    spc,       \* where setup() is
    lpc,       \* where log() is
    record,    \* bytes of the buffer written to the record so far
    lsize,     \* size returned by dataBuffer
    before     \* history: the frames stored when log() began, of the messages
               \* for which no frame has been stored since

logVars == <<lpc, record, lsize, before>>
vars    == <<busVars, schedVars, spc, logVars>>

LogTypeOK ==
    /\ SchedTypeOK
    /\ spc \in {"config", "tasks", "start", "loop", "halt"}
    /\ lpc \in {"idle", "lock", "size", "write", "done"}
    /\ lsize \in 0..ByteSize(bitSize)
    /\ Len(record) <= lsize /\ \A k \in 1..Len(record) : record[k] \in Byte
    /\ DOMAIN before \subseteq ID
    /\ \A id \in DOMAIN before : before[id] \in Frame \cup {None}

Init ==
    /\ BusInit /\ SchedInit
    /\ spc = "config"
    /\ lpc = "idle" /\ record = <<>> /\ lsize = 0
    /\ before = [id \in {} |-> None]

-----------------------------------------------------------------------------
(* setup(), remote_main.hpp:27-43.  Its task has the lowest priority: it    *)
(* runs only while READ_CAN, the other task of core 1, is not there or      *)
(* sleeps.                                                                  *)
Core1Free == upc = "idle" /\ life["READ_CAN"] # "new"

(* build() adds the messages one by one *)
Added == nextBitOffset \div SlotBits

SetupAdd ==
    /\ spc = "config" /\ Added < Len(Configuration)
    /\ \E length \in Lengths : AddMessage(Configuration[Added + 1], length)
    /\ UNCHANGED <<schedVars, spc, logVars>>

(* an error comes at any message (lines 34-38), and then setup() stops      *)
AfterBuild == IF Added = Len(Configuration) THEN {"tasks", "halt"} ELSE {"halt"}

(* mutant: nobody initializes the bus *)
SetupNoInitialize ==
    /\ spc = "config" /\ spc' \in AfterBuild
    /\ UNCHANGED <<busVars, schedVars, logVars>>

(* line 97: with whatever was added, before the result is looked at *)
SetupInitialize ==
    /\ spc = "config" /\ spc' \in AfterBuild
    /\ Initialize
    /\ UNCHANGED <<schedVars, logVars>>

(* mutant: READ_CAN is the first task created *)
READ_CANFirst == <<"READ_CAN", "LOG">>

(* lines 49-71 *)
SetupTasks == <<"LOG", "READ_CAN">>

SetupAddTask ==
    /\ spc = "tasks" /\ Len(tasks) < Len(SetupTasks)
    /\ AddTask(SetupTasks[Len(tasks) + 1])
    /\ UNCHANGED <<busVars, spc, logVars>>

SetupStart ==
    /\ spc = "tasks" /\ Len(tasks) = Len(SetupTasks)
    /\ Start
    /\ spc' = "start"
    /\ UNCHANGED <<busVars, logVars>>

SetupCreate ==
    /\ spc = "start" /\ Core1Free
    /\ CreateTask
    /\ UNCHANGED <<busVars, spc, logVars>>

SetupReturn ==
    /\ spc = "start" /\ Core1Free /\ created = Len(tasks)
    /\ spc' = "loop"
    /\ UNCHANGED <<busVars, schedVars, logVars>>

(* loop() does nothing, and `while (true)` after an error neither *)
SetupLoop == spc \in {"loop", "halt"} /\ UNCHANGED vars

Setup1 ==
    \/ SetupAdd \/ SetupInitialize \/ SetupAddTask \/ SetupStart
    \/ SetupCreate \/ SetupReturn
-----------------------------------------------------------------------------
(* Tasks.  A task that is periodic and not in its run sleeps. *)
TaskBegin(t) == InitializeTask(t) /\ UNCHANGED <<busVars, spc, logVars>>

(* any task may use the scheduler; WIRELESS is the one setup() leaves out *)
LateCall ==
    /\ \E t \in Task : life[t] = "periodic"
    /\ AddTask("WIRELESS") \/ Start
    /\ UNCHANGED <<busVars, spc, logVars>>

(* CANTask::run *)
CANTaskRun ==
    /\ life["READ_CAN"] = "periodic"
    /\ Update
    /\ before' = IF upc' # "write" THEN before
                 ELSE [id \in DOMAIN before \ {raw'.id} |-> before[id]]
    /\ UNCHANGED <<schedVars, spc, lpc, record, lsize>>

(* LogTask::run *)
LogCall ==
    /\ lpc = "idle" /\ life["LOG"] = "periodic"
    /\ lpc' = "lock"
    /\ before' = [id \in ID \ (IF upc = "write" THEN {raw.id} ELSE {}) |-> stored[id]]
    /\ UNCHANGED <<busVars, schedVars, spc, record, lsize>>

(* line 110 *)
LogLockUnlock ==
    /\ lpc = "lock" /\ mutex = "free"
    /\ lpc' = "size"
    /\ UNCHANGED <<busVars, schedVars, spc, record, lsize, before>>

(* mutant: the size in bits *)
LogSizeInBits ==
    /\ lpc = "size" /\ lpc' = "write"
    /\ lsize' = bitSize
    /\ UNCHANGED <<busVars, schedVars, spc, record, before>>

(* line 112 *)
LogSize ==
    /\ lpc = "size" /\ lpc' = "write"
    /\ lsize' = ByteSize(bitSize)
    /\ UNCHANGED <<busVars, schedVars, spc, record, before>>

(* mutant: the buffer is taken from the start of the block *)
LogByteNoHack ==
    /\ lpc = "write" /\ Len(record) < lsize
    /\ record' = Append(record, mem[Len(record)])
    /\ UNCHANGED <<busVars, schedVars, spc, lpc, lsize, before>>

(* line 113, one byte of it *)
LogByte ==
    /\ lpc = "write" /\ Len(record) < lsize
    /\ record' = Append(record, mem[Hack + Len(record)])
    /\ UNCHANGED <<busVars, schedVars, spc, lpc, lsize, before>>

LogDone ==
    /\ lpc = "write" /\ Len(record) = lsize
    /\ lpc' = "done"
    /\ UNCHANGED <<busVars, schedVars, spc, record, lsize, before>>

(* the task sleeps until its next period *)
LogReturn ==
    /\ lpc = "done" /\ lpc' = "idle"
    /\ record' = <<>> /\ lsize' = 0
    /\ before' = [id \in {} |-> None]
    /\ UNCHANGED <<busVars, schedVars, spc>>

LogCopy == LogSize \/ LogByte \/ LogDone
LogStep == LogCall \/ LogLockUnlock \/ LogCopy \/ LogReturn

Next ==
    \/ Setup1 \/ SetupLoop
    \/ \E t \in Task : TaskBegin(t)
    \/ LateCall \/ CANTaskRun \/ LogStep

Spec == Init /\ [][Next]_vars

(* setup() runs whenever core 1 is free.  LOG has core 0 for itself; it     *)
(* gets the mutex if READ_CAN sleeps again and again, most of 5 ms each     *)
(* time.  Nothing is assumed of READ_CAN: its update() may go on for ever.  *)
FairSpec ==
    /\ Spec
    /\ WF_vars(Setup1) /\ \A t \in Task : WF_vars(TaskBegin(t))
    /\ WF_vars(LogCopy) /\ SF_vars(upc = "idle" /\ LogLockUnlock)
-----------------------------------------------------------------------------
(* byte k of a message's slot in the record *)
Recorded(id, k) == record[messages[id].offset \div 8 + k + 1]

(* A frame's bytes in a record belong together unless a frame for the same  *)
(* message was being stored while the record was written: the other         *)
(* messages' slots are as they were when log() began (sd_logger.hpp:112-113 *)
(* against can.cpp:90-94).                                                  *)
RecordTornOnlyByItsOwnFrame ==
    lpc = "done" /\ ~reused =>
      \A id \in DOMAIN messages \cap DOMAIN before :
        Stored(id) =>
          \A k \in Slot :
            IF before[id] = None THEN Recorded(id, k) = Zero
            ELSE k < before[id].dlc => Recorded(id, k) = before[id].val

(* sd_logger.hpp:109-116 puts dataBuffer and the write of it in a block     *)
(* that begins with a lock_guard on the bus's mutex, so that a record shows *)
(* one moment of the buffer: full frames of one length are there whole.     *)
RecordShowsWholeFrames ==
    lpc = "done" /\ ~reused =>
      \A id \in DOMAIN messages :
        Stored(id) =>
          \A j, k \in Slot :
            Recorded(id, j) \in Val /\ Recorded(id, k) \in Val
              => Recorded(id, j) = Recorded(id, k)

(* "no need to initialize can bus! already initialized in main"             *)
(* (task_can.hpp:15): update() and log() run only on an initialized bus     *)
(* that has room for every message of the table, although neither asks.     *)
TasksFindBusReady ==
    upc # "idle" \/ lpc # "idle" =>
      isInitialized /\ \A id \in DOMAIN messages : Stored(id)

(* Every task of setup() comes into being, or its creation fails, although  *)
(* READ_CAN takes the core from the loop that creates them and its first    *)
(* update() may never end (can.cpp:80-101): it is created last.             *)
EveryTaskIsCreated ==
    hasStarted ~> \A t \in {"LOG", "READ_CAN"} : life[t] # "none"

(* A log() that waits for the mutex gets it and writes its record if        *)
(* update() ends again and again; READ_CAN never keeps the mutex.           *)
LogCompletes == []<>(upc = "idle") => (lpc = "lock" ~> lpc = "done")
=============================================================================
