-------------------------- MODULE TelemetryProofs --------------------------
(***************************************************************************)
(* The firmware around the bus, for every configuration and every outcome  *)
(* of the creation of the tasks: the tasks' descriptions stay where they   *)
(* are, the tasks find the bus ready, and a record is only torn by a frame *)
(* that came while it was written.                                         *)
(***************************************************************************)
EXTENDS Telemetry, CANBusProofs

-----------------------------------------------------------------------------
(* The scheduler: nothing lives before start().                             *)
SchedInv ==
    /\ SchedTypeOK
    /\ ~hasStarted => \A t \in Task : life[t] = "none"
    /\ TaskPointersValid

LEMMA InitSchedInv == SchedInit => SchedInv
<1> SUFFICES ASSUME SchedInit PROVE SchedInv
  OBVIOUS
<1>1. tasks \in Seq(Task) /\ Len(tasks) = 0
  BY DEF SchedInit
<1>2. created \in 0..Len(tasks) /\ capacity \in Nat /\ block \in Nat
  BY <1>1 DEF SchedInit
<1>3. /\ life \in [Task -> Alive \cup {"none", "failed", "deleted"}]
      /\ param \in [Task -> Nat]
  BY DEF SchedInit
<1>4. QED
  BY <1>1, <1>2, <1>3 DEF SchedInit, SchedInv, SchedTypeOK, TaskPointersValid, Alive

LEMMA AddTaskSchedInv ==
    ASSUME SchedInv, NEW t \in Task, AddTask(t)
    PROVE  SchedInv'
<1> USE DEF SchedInv, SchedTypeOK
<1>1. CASE hasStarted
  BY <1>1 DEF AddTask, schedVars, TaskPointersValid
<1>2. CASE ~hasStarted
  <2>1. tasks' \in Seq(Task) /\ Len(tasks') = Len(tasks) + 1
    <3>1. tasks' = Append(tasks, t)
      BY <1>2 DEF AddTask
    <3>2. tasks \in Seq(Task)
      OBVIOUS
    <3>3. QED
      BY <3>1, <3>2
  <2>2. capacity' \in Nat /\ block' \in Nat
    BY <1>2 DEF AddTask
  <2>3. created' \in 0..Len(tasks')
    BY <1>2, <2>1 DEF AddTask
  <2>4. UNCHANGED <<hasStarted, life, param>>
    BY <1>2 DEF AddTask
  <2>5. QED
    BY <1>2, <2>1, <2>2, <2>3, <2>4 DEF TaskPointersValid, Alive
<1>3. QED
  BY <1>1, <1>2

LEMMA StartSchedInv == SchedInv /\ Start => SchedInv' /\ hasStarted'
BY DEF SchedInv, SchedTypeOK, Start, schedVars, TaskPointersValid, Alive

LEMMA CreateTaskSchedInv == SchedInv /\ hasStarted /\ CreateTask => SchedInv'
<1> SUFFICES ASSUME SchedInv, hasStarted, CreateTask PROVE SchedInv'
  OBVIOUS
<1> USE DEF SchedInv, SchedTypeOK
<1> DEFINE t == tasks[created + 1]
<1>1. t \in Task /\ created' \in 0..Len(tasks)
  BY DEF CreateTask
<1>2. PICK l \in {"new", "failed"} : life' = [life EXCEPT ![t] = l]
  BY DEF CreateTask
<1>3. param' = [param EXCEPT ![t] = block]
  BY DEF CreateTask
<1>4. UNCHANGED <<hasStarted, tasks, capacity, block>>
  BY DEF CreateTask
<1> HIDE DEF t
<1>5. /\ life' \in [Task -> Alive \cup {"none", "failed", "deleted"}]
      /\ param' \in [Task -> Nat]
  BY <1>1, <1>2, <1>3 DEF Alive
<1>6. TaskPointersValid'
  BY <1>1, <1>2, <1>3, <1>4 DEF TaskPointersValid
<1>7. QED
  BY <1>1, <1>4, <1>5, <1>6

LEMMA InitializeTaskSchedInv ==
    ASSUME SchedInv, NEW t \in Task, InitializeTask(t)
    PROVE  SchedInv'
BY DEF SchedInv, SchedTypeOK, InitializeTask, TaskPointersValid, Alive

-----------------------------------------------------------------------------
(* The order of setup(): the bus is initialized with all its messages       *)
(* before anything is started.                                              *)
BootInv ==
    /\ spc \in {"config", "tasks", "start", "loop", "halt"}
    /\ hasStarted => spc # "config"
    /\ spc \in {"start", "loop"} => hasStarted
    /\ spc # "config" => isInitialized /\ bitSize = nextBitOffset
    /\ upc # "idle" \/ lpc # "idle" => hasStarted

SetupInv == BusInv /\ ContentInv /\ SchedInv /\ BootInv

LEMMA InitSetupInv == Init => SetupInv
<1> SUFFICES ASSUME Init PROVE SetupInv
  OBVIOUS
<1>1. BusInv /\ ContentInv /\ SchedInv
  BY InitBusInv, InitContentInv, InitSchedInv DEF Init
<1>2. BootInv
  BY DEF Init, BusInit, SchedInit, BootInv
<1>3. QED
  BY <1>1, <1>2 DEF SetupInv

(* the steps that are the bus's, and the steps that leave it alone          *)
LEMMA BusPart ==
    ASSUME SetupInv, BusStep \/ UNCHANGED busVars
    PROVE  BusInv' /\ ContentInv'
BY StepBusInv, StutterBusInv, StepContentInv, StutterContentInv DEF SetupInv

LEMMA SchedStutter == SchedInv /\ UNCHANGED schedVars => SchedInv'
BY DEF SchedInv, SchedTypeOK, schedVars, TaskPointersValid

(* an element of the configuration has an id *)
LEMMA ConfigurationIds ==
    ASSUME BusInv, Added < Len(Configuration)
    PROVE  Configuration[Added + 1] \in ID
<1>1. Configuration \in Seq(ID) /\ Len(Configuration) \in Nat
  BY TelemetryAssumption
<1>2. Added \in Nat
  <2>1. nextBitOffset \in Nat /\ SlotBits \in Nat /\ SlotBits > 0
    BY SlotArithmetic DEF BusInv, TypeOK
  <2>2. QED
    BY <2>1 DEF Added
<1>3. QED
  BY <1>1, <1>2

LEMMA NextSetupInv == SetupInv /\ [Next]_vars => SetupInv'
<1> SUFFICES ASSUME SetupInv, [Next]_vars PROVE SetupInv'
  OBVIOUS
<1>0. BusInv /\ ContentInv /\ SchedInv /\ BootInv
  BY DEF SetupInv
<1> USE DEF BootInv
<1>1. CASE SetupAdd
  <2>1. PICK length \in Lengths : AddMessage(Configuration[Added + 1], length)
    BY <1>1 DEF SetupAdd
  <2>2. BusStep
    BY <1>0, <1>1, <2>1, ConfigurationIds DEF SetupAdd, BusStep, Setup
  <2>3. upc' = upc
    BY <2>1 DEF AddMessage, updVars
  <2>4. UNCHANGED <<schedVars, hasStarted, spc, lpc>> /\ spc = "config"
    BY <1>1 DEF SetupAdd, logVars, schedVars
  <2>5. QED
    BY <1>0, <2>2, <2>3, <2>4, BusPart, SchedStutter DEF SetupInv
<1>2. CASE SetupInitialize
  <2>1. Initialize /\ UNCHANGED schedVars /\ UNCHANGED logVars
        /\ spc = "config" /\ spc' \in {"tasks", "halt"}
    BY <1>2 DEF SetupInitialize, AfterBuild
  <2>2. BusStep
    BY <2>1 DEF BusStep, Setup
  <2>3. isInitialized' /\ bitSize' = nextBitOffset' /\ UNCHANGED <<hasStarted, upc, lpc>>
    BY <2>1 DEF Initialize, updVars, schedVars, logVars
  <2>4. QED
    BY <1>0, <2>1, <2>2, <2>3, BusPart, SchedStutter DEF SetupInv
<1>3. CASE SetupAddTask
  <2>1. SetupTasks[Len(tasks) + 1] \in Task
    BY <1>0, <1>3, TelemetryAssumption DEF SetupAddTask, SetupTasks, SchedInv, SchedTypeOK
  <2>2. AddTask(SetupTasks[Len(tasks) + 1])
        /\ UNCHANGED busVars /\ UNCHANGED spc /\ UNCHANGED logVars
    BY <1>3 DEF SetupAddTask
  <2>3. UNCHANGED <<hasStarted, isInitialized, bitSize, nextBitOffset, upc, lpc>>
    BY <2>2 DEF AddTask, schedVars, busVars, tableVars, blockVars, updVars, logVars
  <2>4. QED
    BY <1>0, <2>1, <2>2, <2>3, BusPart, AddTaskSchedInv DEF SetupInv
<1>4. CASE SetupStart
  <2>1. Start /\ UNCHANGED busVars /\ spc = "tasks" /\ spc' = "start" /\ UNCHANGED logVars
    BY <1>4 DEF SetupStart
  <2>2. UNCHANGED <<isInitialized, bitSize, nextBitOffset, upc, lpc>>
    BY <2>1 DEF busVars, tableVars, blockVars, updVars, logVars
  <2>3. QED
    BY <1>0, <2>1, <2>2, BusPart, StartSchedInv DEF SetupInv
<1>5. CASE SetupCreate
  <2>1. CreateTask /\ UNCHANGED busVars /\ UNCHANGED spc /\ spc = "start" /\ UNCHANGED logVars
    BY <1>5 DEF SetupCreate
  <2>2. UNCHANGED <<hasStarted, isInitialized, bitSize, nextBitOffset, upc, lpc>>
    BY <2>1 DEF CreateTask, busVars, tableVars, blockVars, updVars, logVars
  <2>3. QED
    BY <1>0, <2>1, <2>2, BusPart, CreateTaskSchedInv DEF SetupInv
<1>6. CASE SetupReturn
  <2>1. UNCHANGED busVars /\ UNCHANGED schedVars /\ UNCHANGED logVars
        /\ spc = "start" /\ spc' = "loop"
    BY <1>6 DEF SetupReturn
  <2>2. UNCHANGED <<hasStarted, isInitialized, bitSize, nextBitOffset, upc, lpc>>
    BY <2>1 DEF busVars, tableVars, blockVars, updVars, schedVars, logVars
  <2>3. QED
    BY <1>0, <2>1, <2>2, BusPart, SchedStutter DEF SetupInv
<1>7. ASSUME NEW t \in Task, TaskBegin(t) PROVE SetupInv'
  <2>1. InitializeTask(t) /\ UNCHANGED busVars /\ UNCHANGED spc /\ UNCHANGED logVars
    BY <1>7 DEF TaskBegin
  <2>2. UNCHANGED <<hasStarted, isInitialized, bitSize, nextBitOffset, upc, lpc>>
    BY <2>1 DEF InitializeTask, busVars, tableVars, blockVars, updVars, logVars
  <2>3. QED
    BY <1>0, <2>1, <2>2, BusPart, InitializeTaskSchedInv DEF SetupInv
<1>8. CASE LateCall
  <2>1. hasStarted
    BY <1>0, <1>8 DEF LateCall, SchedInv
  <2>2. UNCHANGED schedVars /\ UNCHANGED busVars /\ UNCHANGED spc /\ UNCHANGED logVars
    BY <1>8, <2>1 DEF LateCall, AddTask, Start
  <2>3. UNCHANGED <<hasStarted, isInitialized, bitSize, nextBitOffset, upc, lpc>>
    BY <2>2 DEF busVars, tableVars, blockVars, updVars, schedVars, logVars
  <2>4. QED
    BY <1>0, <2>2, <2>3, BusPart, SchedStutter DEF SetupInv
<1>9. CASE CANTaskRun
  <2>1. Update /\ UNCHANGED schedVars /\ UNCHANGED spc /\ UNCHANGED lpc /\ life["READ_CAN"] = "periodic"
    BY <1>9 DEF CANTaskRun
  <2>2. hasStarted
    BY <1>0, <2>1, TelemetryAssumption DEF SchedInv
  <2>3. UNCHANGED <<isInitialized, bitSize, nextBitOffset>>
    BY <2>1 DEF Update, UpdateCall, UpdateReturn, TakeFrame, StoreLock, StoreByte, StoreDone,
                StoreUnlock, tableVars, blockVars
  <2>4. hasStarted' = hasStarted /\ BusStep
    BY <2>1 DEF schedVars, BusStep
  <2>5. QED
    BY <1>0, <2>1, <2>2, <2>3, <2>4, BusPart, SchedStutter DEF SetupInv
<1>10. CASE LogStep
  <2>1. UNCHANGED busVars /\ UNCHANGED schedVars /\ UNCHANGED spc
    BY <1>10 DEF LogStep, LogCall, LogLockUnlock, LogCopy, LogSize, LogByte, LogDone, LogReturn
  <2>2. hasStarted
    BY <1>0, <1>10, TelemetryAssumption
       DEF LogStep, LogCall, LogLockUnlock, LogCopy, LogSize, LogByte, LogDone, LogReturn, SchedInv
  <2>3. UNCHANGED <<hasStarted, isInitialized, bitSize, nextBitOffset, upc>>
    BY <2>1 DEF busVars, tableVars, blockVars, updVars, schedVars
  <2>4. QED
    BY <1>0, <2>1, <2>2, <2>3, BusPart, SchedStutter DEF SetupInv
<1>11. CASE UNCHANGED vars
  <2>1. UNCHANGED busVars /\ UNCHANGED schedVars /\ UNCHANGED spc /\ UNCHANGED lpc
    BY <1>11 DEF vars, logVars
  <2>2. UNCHANGED <<hasStarted, isInitialized, bitSize, nextBitOffset, upc>>
    BY <2>1 DEF busVars, tableVars, blockVars, updVars, schedVars
  <2>3. QED
    BY <1>0, <2>1, <2>2, BusPart, SchedStutter DEF SetupInv
<1>12. QED
  BY <1>1, <1>2, <1>3, <1>4, <1>5, <1>6, <1>7, <1>8, <1>9, <1>10, <1>11
     DEF Next, Setup1, SetupLoop

(* The description a living task points to is where it was when the task    *)
(* was created, whatever tasks call addTask or start later (lines 97-116).  *)
THEOREM PointersStayValid == Spec => []TaskPointersValid
<1>1. SetupInv => TaskPointersValid
  BY DEF SetupInv, SchedInv
<1>2. QED
  BY InitSetupInv, NextSetupInv, <1>1, PTL DEF Spec

(* update() and log() only run on an initialized bus with room for all its  *)
(* messages: setup() initializes it before it starts a task                 *)
(* (remote_main.hpp:32-71), however many messages there are and whichever   *)
(* of them was wrong.                                                       *)
THEOREM BusReadyForTasks == Spec => []TasksFindBusReady
<1>1. SetupInv => TasksFindBusReady
  <2> SUFFICES ASSUME SetupInv, upc # "idle" \/ lpc # "idle"
               PROVE  isInitialized /\ \A id \in DOMAIN messages : Stored(id)
    BY DEF TasksFindBusReady
  <2>1. isInitialized /\ bitSize = nextBitOffset
    BY DEF SetupInv, BootInv
  <2>2. ASSUME NEW id \in DOMAIN messages PROVE Stored(id)
    BY <2>1, SlotBytesMoved DEF SetupInv, BusInv, TableInv
  <2>3. QED
    BY <2>1, <2>2
<1>2. QED
  BY InitSetupInv, NextSetupInv, <1>1, PTL DEF Spec

-----------------------------------------------------------------------------
(* The record: what is written of it so far, and the messages log() may     *)
(* still vouch for, none of which is being stored.                          *)
LogShape ==
    /\ lpc \in {"idle", "lock", "size", "write", "done"}
    /\ record \in Seq(Byte)
    /\ lpc \notin {"write", "done"} => record = <<>> /\ lsize = 0
    /\ lpc \in {"write", "done"} => lsize = ByteSize(bitSize) /\ Len(record) <= lsize
    /\ lpc = "done" => Len(record) = lsize

Vouched ==
    /\ DOMAIN before \subseteq ID
    /\ lpc # "idle" =>
         \A id \in DOMAIN before :
           before[id] = stored[id] /\ ~(upc = "write" /\ raw.id = id)
    /\ lpc = "idle" => DOMAIN before = {}

(* byte k of a message's slot, if the record has it, is as it was before    *)
Place1(id, k) == messages[id].offset \div 8 + k + 1

Agrees(id, k) ==
    Place1(id, k) <= Len(record) =>
      IF before[id] = None THEN record[Place1(id, k)] = Zero
      ELSE k < before[id].dlc => record[Place1(id, k)] = before[id].val

SoFar ==
    lpc # "idle" /\ ~reused =>
      \A id \in DOMAIN messages \cap DOMAIN before : \A k \in Slot : Agrees(id, k)

RecordInv == LogShape /\ Vouched /\ SoFar

LEMMA InitRecordInv == Init => RecordInv
BY DEF Init, RecordInv, LogShape, Vouched, SoFar

(* steps that touch neither the log nor the bus                             *)
LEMMA RecordStutter ==
    ASSUME RecordInv, UNCHANGED logVars, UNCHANGED busVars
    PROVE  RecordInv'
BY DEF RecordInv, LogShape, Vouched, SoFar, Agrees, Place1, logVars, busVars, tableVars, blockVars,
       updVars

(* update(): a message whose frame it begins to store is no longer vouched  *)
(* for; the bytes already in the record stay.                               *)
LEMMA CANTaskRunRecordInv == SetupInv /\ RecordInv /\ CANTaskRun => RecordInv'
<1> SUFFICES ASSUME SetupInv, RecordInv, CANTaskRun PROVE RecordInv'
  OBVIOUS
<1>0. BusInv /\ Update /\ UNCHANGED <<lpc, record, lsize>>
  BY DEF SetupInv, CANTaskRun
<1>1. UNCHANGED <<messages, bitSize, reused>>
  BY <1>0 DEF Update, UpdateCall, UpdateReturn, TakeFrame, StoreLock, StoreByte, StoreDone,
              StoreUnlock, tableVars, blockVars
<1>2. /\ DOMAIN before' \subseteq DOMAIN before
      /\ \A id \in DOMAIN before' : before'[id] = before[id]
      /\ upc' = "write" => raw'.id \notin DOMAIN before'
  BY DEF CANTaskRun
<1>3. \A id \in DOMAIN before' : lpc # "idle" => stored'[id] = stored[id]
  <2>1. CASE StoreDone
    <3>1. upc = "write" /\ stored' = [stored EXCEPT ![raw.id] = raw]
      BY <2>1 DEF StoreDone
    <3>2. \A id \in DOMAIN before : lpc # "idle" => id # raw.id
      BY <3>1 DEF RecordInv, Vouched
    <3>3. stored \in [ID -> Frame \cup {None}] /\ DOMAIN before' \subseteq ID
      BY <1>0, <1>2 DEF BusInv, TypeOK, RecordInv, Vouched
    <3>4. QED
      BY <1>2, <3>1, <3>2, <3>3
  <2>2. CASE ~StoreDone
    BY <1>0, <2>2 DEF Update, UpdateCall, UpdateReturn, TakeFrame, StoreLock, StoreByte,
                      StoreUnlock
  <2>3. QED
    BY <2>1, <2>2
<1>4. LogShape'
  BY <1>0, <1>1 DEF RecordInv, LogShape, Byte, ByteSize
<1>5. Vouched'
  BY <1>0, <1>2, <1>3 DEF RecordInv, Vouched
<1>6. SoFar'
  <2> SUFFICES ASSUME lpc # "idle", ~reused, NEW id \in DOMAIN messages \cap DOMAIN before',
                      NEW k \in Slot
               PROVE  Agrees(id, k)'
    BY <1>0, <1>1 DEF SoFar
  <2>1. Agrees(id, k) /\ before'[id] = before[id]
    BY <1>2 DEF RecordInv, SoFar
  <2>2. QED
    BY <1>0, <1>1, <2>1 DEF Agrees, Place1
<1>7. QED
  BY <1>4, <1>5, <1>6 DEF RecordInv

(* A byte copied to the record is the one the buffer holds, and for a       *)
(* vouched message that is the frame log() began with.                      *)
LEMMA LogByteRecordInv == SetupInv /\ RecordInv /\ LogByte => RecordInv'
<1> SUFFICES ASSUME SetupInv, RecordInv, LogByte PROVE RecordInv'
  OBVIOUS
<1> DEFINE n == Len(record)
           b == mem[Hack + n]
<1>0. BusInv /\ ContentInv /\ lpc = "write" /\ n < lsize /\ lsize = ByteSize(bitSize)
  BY DEF SetupInv, LogByte, RecordInv, LogShape
<1>1. UNCHANGED <<messages, bitSize, reused, stored, upc, raw, lpc, lsize, before>>
  BY DEF LogByte, busVars, tableVars, blockVars, updVars
<1>2. record \in Seq(Byte) /\ n \in Nat
  BY DEF RecordInv, LogShape
<1>3. bitSize \in Nat /\ Hack \in Nat /\ ByteSize(bitSize) = (bitSize + 7) \div 8
  BY <1>0, SlotArithmetic DEF BusInv, TypeOK, ByteSize
<1>4. Hack + n \in Block(bitSize)
  <2>1. Block(bitSize) = 0..((bitSize + 7) \div 8 + Hack - 1)
    BY <1>3 DEF Block, BlockBytes, ByteSize
  <2>2. QED
    BY <1>0, <1>2, <1>3, <2>1
<1>5. b \in Byte
  BY <1>0, <1>4 DEF BusInv, TypeOK
<1>6. record' = Append(record, b)
  BY DEF LogByte
<1>7. /\ record' \in Seq(Byte) /\ Len(record') = n + 1
      /\ \A i \in 1..n : record'[i] = record[i]
      /\ record'[n + 1] = b
  BY <1>2, <1>5, <1>6
<1>8. LogShape'
  <2>1. n + 1 <= lsize
    BY <1>0, <1>2, <1>3
  <2>2. QED
    BY <1>0, <1>1, <1>7, <2>1 DEF RecordInv, LogShape, Byte, ByteSize
<1>9. Vouched'
  BY <1>1 DEF RecordInv, Vouched
<1>10. SoFar'
  <2> SUFFICES ASSUME ~reused, NEW id \in DOMAIN messages \cap DOMAIN before, NEW k \in Slot,
                      Place1(id, k) <= n + 1
               PROVE  IF before[id] = None THEN record'[Place1(id, k)] = Zero
                      ELSE k < before[id].dlc => record'[Place1(id, k)] = before[id].val
    BY <1>1, <1>7 DEF SoFar, Agrees, Place1
  <2>1. /\ Place(id) \div 8 \in Nat /\ k \in Nat
        /\ ByteOffset(SlotHandle(id)) = Place(id) \div 8 + Hack
        /\ Place1(id, k) = Place(id) \div 8 + k + 1
    BY <1>0, SlotBytesMoved, SlotArithmetic DEF BusInv, Place1, Place
  <2>2. Place1(id, k) \in Nat \ {0}
    BY <2>1
  <2>3. CASE Place1(id, k) <= n
    <3>1. Agrees(id, k)
      BY <1>0 DEF RecordInv, SoFar
    <3>2. record'[Place1(id, k)] = record[Place1(id, k)]
      BY <1>2, <1>7, <2>2, <2>3
    <3>3. QED
      BY <2>3, <3>1, <3>2 DEF Agrees
  <2>4. CASE Place1(id, k) = n + 1
    <3>1. Stored(id) /\ isInitialized
      <4>1. isInitialized /\ bitSize = nextBitOffset
        BY <1>0 DEF SetupInv, BootInv
      <4>2. QED
        BY <1>0, <4>1, SlotBytesMoved DEF BusInv, TableInv
    <3>2. before[id] = stored[id] /\ ~(upc = "write" /\ raw.id = id)
      BY <1>0 DEF RecordInv, Vouched
    <3>3. SlotHoldsLastFrame(id)
      BY <1>0, <3>1, <3>2 DEF ContentInv, HoldsLastFramesUnlessReused, HoldsLastFrames
    <3>4. ByteOffset(SlotHandle(id)) + k = Hack + n
      BY <1>2, <1>3, <2>1, <2>4
    <3>5. record'[Place1(id, k)] = mem[ByteOffset(SlotHandle(id)) + k]
      BY <1>7, <2>4, <3>4
    <3>6. QED
      BY <3>2, <3>3, <3>5 DEF SlotHoldsLastFrame
  <2>5. QED
    BY <1>2, <2>2, <2>3, <2>4
<1>11. QED
  BY <1>8, <1>9, <1>10 DEF RecordInv

(* log() begins: it vouches for every message but the one being stored.     *)
LEMMA LogCallRecordInv == SetupInv /\ RecordInv /\ LogCall => RecordInv'
<1> SUFFICES ASSUME SetupInv, RecordInv, LogCall PROVE RecordInv'
  OBVIOUS
<1>0. BusInv
  BY DEF SetupInv
<1>1. lpc = "idle" /\ lpc' = "lock" /\ UNCHANGED <<record, lsize, messages, bitSize, stored, upc, raw>>
  BY DEF LogCall, busVars, tableVars, blockVars, updVars
<1>2. before' = [id \in ID \ (IF upc = "write" THEN {raw.id} ELSE {}) |-> stored[id]]
  BY DEF LogCall
<1>3. record = <<>> /\ lsize = 0
  BY <1>1 DEF RecordInv, LogShape
<1>4. LogShape'
  BY <1>1, <1>3 DEF RecordInv, LogShape, Byte
<1>5. Vouched'
  BY <1>1, <1>2 DEF Vouched
<1>6. ASSUME NEW id \in DOMAIN messages, NEW k \in Slot PROVE Place1(id, k) > 0
  BY <1>0, SlotBytesMoved, SlotArithmetic DEF BusInv, Place1, Place
<1>7. ASSUME NEW id \in DOMAIN messages, NEW k \in Slot PROVE Place1(id, k) \in Nat
  BY <1>0, SlotBytesMoved, SlotArithmetic DEF BusInv, Place1, Place
<1>8. SoFar'
  <2>1. Len(record') = 0 /\ messages' = messages
    BY <1>1, <1>3
  <2>2. ASSUME NEW id \in DOMAIN messages, NEW k \in Slot PROVE Agrees(id, k)'
    BY <2>1, <1>6, <1>7 DEF Agrees, Place1
  <2>3. QED
    BY <2>1, <2>2 DEF SoFar
<1>9. QED
  BY <1>4, <1>5, <1>8 DEF RecordInv

LEMMA NextRecordInv == SetupInv /\ RecordInv /\ [Next]_vars => RecordInv'
<1> SUFFICES ASSUME SetupInv, RecordInv, [Next]_vars PROVE RecordInv'
  OBVIOUS
<1>1. CASE SetupAdd \/ SetupInitialize
  <2>1. lpc = "idle" /\ UNCHANGED logVars
    BY <1>1 DEF SetupAdd, SetupInitialize, SetupInv, BootInv
  <2>2. QED
    BY <2>1 DEF RecordInv, LogShape, Vouched, SoFar, logVars
<1>2. CASE SetupAddTask \/ SetupStart \/ SetupCreate \/ SetupReturn \/ LateCall
           \/ \E t \in Task : TaskBegin(t)
  BY <1>2, RecordStutter DEF SetupAddTask, SetupStart, SetupCreate, SetupReturn, LateCall, TaskBegin
<1>3. CASE CANTaskRun
  BY <1>3, CANTaskRunRecordInv
<1>4. CASE LogCall
  BY <1>4, LogCallRecordInv
<1>5. CASE LogByte
  BY <1>5, LogByteRecordInv
<1>6. CASE LogLockUnlock
  BY <1>6 DEF LogLockUnlock, RecordInv, LogShape, Vouched, SoFar, Agrees, Place1, busVars,
              tableVars, blockVars, updVars
<1>7. CASE LogSize
  <2>1. bitSize \in Nat /\ ByteSize(bitSize) = (bitSize + 7) \div 8
    BY DEF SetupInv, BusInv, TypeOK, ByteSize
  <2>2. lpc = "size" /\ lpc' = "write" /\ lsize' = ByteSize(bitSize)
        /\ UNCHANGED <<messages, bitSize, stored, upc, raw, reused, record, before>>
    BY <1>7 DEF LogSize, busVars, tableVars, blockVars, updVars
  <2>3. Len(record) = 0 /\ record \in Seq(Byte)
    BY <2>2 DEF RecordInv, LogShape
  <2>4. LogShape'
    BY <2>1, <2>2, <2>3 DEF LogShape, ByteSize, Byte
  <2>5. QED
    BY <2>2, <2>4 DEF RecordInv, Vouched, SoFar, Agrees, Place1
<1>8. CASE LogDone
  BY <1>8 DEF LogDone, RecordInv, LogShape, Vouched, SoFar, Agrees, Place1, busVars,
              tableVars, blockVars, updVars, ByteSize
<1>9. CASE LogReturn
  BY <1>9 DEF LogReturn, RecordInv, LogShape, Vouched, SoFar
<1>10. CASE UNCHANGED vars
  BY <1>10, RecordStutter DEF vars
<1>11. QED
  BY <1>1, <1>2, <1>3, <1>4, <1>5, <1>6, <1>7, <1>8, <1>9, <1>10
     DEF Next, Setup1, SetupLoop, LogStep, LogCopy

FirmwareInv == SetupInv /\ RecordInv

LEMMA InitFirmwareInv == Init => FirmwareInv
BY InitSetupInv, InitRecordInv DEF FirmwareInv

LEMMA NextFirmwareInv == FirmwareInv /\ [Next]_vars => FirmwareInv'
BY NextSetupInv, NextRecordInv DEF FirmwareInv

(* The variables of the scheduler and of log() keep their types; a record   *)
(* is never longer than the buffer (sd_logger.hpp:112-113).                 *)
THEOREM LogTypeCorrect == Spec => []LogTypeOK
<1>1. FirmwareInv => LogTypeOK
  <2> SUFFICES ASSUME FirmwareInv PROVE LogTypeOK
    OBVIOUS
  <2>1. SchedTypeOK /\ spc \in {"config", "tasks", "start", "loop", "halt"}
    BY DEF FirmwareInv, SetupInv, SchedInv, BootInv
  <2>2. bitSize \in Nat /\ ByteSize(bitSize) \in Nat
    BY DEF FirmwareInv, SetupInv, BusInv, TypeOK, ByteSize
  <2>3. /\ lpc \in {"idle", "lock", "size", "write", "done"}
        /\ lsize \in 0..ByteSize(bitSize) /\ Len(record) <= lsize
        /\ \A k \in 1..Len(record) : record[k] \in Byte
    BY <2>2 DEF FirmwareInv, RecordInv, LogShape
  <2>4. DOMAIN before \subseteq ID /\ \A id \in DOMAIN before : before[id] \in Frame \cup {None}
    BY DEF FirmwareInv, SetupInv, BusInv, TypeOK, RecordInv, Vouched
  <2>5. QED
    BY <2>1, <2>3, <2>4 DEF LogTypeOK
<1>2. QED
  BY InitFirmwareInv, NextFirmwareInv, <1>1, PTL DEF Spec

(* A record shows every message as it was when log() began, except those    *)
(* for which a frame was stored meanwhile: the copy runs without the mutex  *)
(* (sd_logger.hpp:110-113), and that is all it costs.                       *)
THEOREM OnlyOwnFramesTear == Spec => []RecordTornOnlyByItsOwnFrame
<1>1. FirmwareInv => RecordTornOnlyByItsOwnFrame
  <2> SUFFICES ASSUME FirmwareInv, lpc = "done", ~reused,
                      NEW id \in DOMAIN messages \cap DOMAIN before, Stored(id), NEW k \in Slot
               PROVE  IF before[id] = None THEN Recorded(id, k) = Zero
                      ELSE k < before[id].dlc => Recorded(id, k) = before[id].val
    BY DEF RecordTornOnlyByItsOwnFrame
  <2>1. BusInv /\ RecordInv
    BY DEF FirmwareInv, SetupInv
  <2> DEFINE b == Place(id) \div 8
  <2>2. /\ b \in Nat /\ 8 * b = Place(id) /\ Place(id) + SlotBits <= bitSize
        /\ SlotBits = 8 * SLOT_BYTES /\ SLOT_BYTES \in Nat /\ k \in 0..(SLOT_BYTES - 1)
    BY <2>1, SlotBytesMoved, SlotArithmetic DEF BusInv
  <2>3. Len(record) = (bitSize + 7) \div 8 /\ bitSize \in Nat
    BY <2>1 DEF RecordInv, LogShape, ByteSize, BusInv, TypeOK
  <2>4. Place1(id, k) = b + k + 1
    BY DEF Place1, Place
  <2> HIDE DEF b
  <2>5. b + k + 1 <= (bitSize + 7) \div 8
    BY <2>2, <2>3 DEF b
  <2>6. Agrees(id, k)
    BY <2>1 DEF RecordInv, SoFar
  <2>7. QED
    BY <2>3, <2>4, <2>5, <2>6 DEF Agrees, Place1, Recorded
<1>2. QED
  BY InitFirmwareInv, NextFirmwareInv, <1>1, PTL DEF Spec

-----------------------------------------------------------------------------
(* The firmware is one use of the bus.                                      *)
LEMMA FirmwareStepIsBusStep == SetupInv /\ [Next]_vars => [BusNext]_busVars
<1> SUFFICES ASSUME SetupInv, [Next]_vars PROVE [BusNext]_busVars
  OBVIOUS
<1>1. CASE SetupAdd
  <2>1. PICK length \in Lengths : AddMessage(Configuration[Added + 1], length)
    BY <1>1 DEF SetupAdd
  <2>2. Configuration[Added + 1] \in ID
    BY <1>1, ConfigurationIds DEF SetupAdd, SetupInv
  <2>3. QED
    BY <2>1, <2>2 DEF BusNext, Setup
<1>2. CASE SetupInitialize
  BY <1>2 DEF SetupInitialize, BusNext, Setup
<1>3. CASE CANTaskRun
  <2>1. Update /\ life["READ_CAN"] = "periodic"
    BY <1>3 DEF CANTaskRun
  <2>2. hasStarted
    BY <2>1, TelemetryAssumption DEF SetupInv, SchedInv
  <2>3. isInitialized
    BY <2>2 DEF SetupInv, BootInv
  <2>4. QED
    BY <2>1, <2>3 DEF BusNext
<1>4. ASSUME \/ SetupAddTask \/ SetupStart \/ SetupCreate \/ SetupReturn
             \/ (\E t \in Task : TaskBegin(t)) \/ LateCall
      PROVE  UNCHANGED busVars
  BY <1>4 DEF SetupAddTask, SetupStart, SetupCreate, SetupReturn, TaskBegin, LateCall
<1>5. ASSUME LogStep PROVE UNCHANGED busVars
  BY <1>5 DEF LogStep, LogCall, LogLockUnlock, LogCopy, LogSize, LogByte, LogDone, LogReturn
<1>6. ASSUME SetupLoop \/ UNCHANGED vars PROVE UNCHANGED busVars
  BY <1>6 DEF SetupLoop, vars
<1>7. QED
  BY <1>1, <1>2, <1>3, <1>4, <1>5, <1>6 DEF Next, Setup1

(* setup(), the scheduler and the tasks use the bus as CANBus.tla allows:   *)
(* messages are added and the bus is initialized before update() runs       *)
(* (remote_main.hpp:32-71), so what holds of the bus holds in the firmware. *)
THEOREM FirmwareUsesBus == Spec => BusSpec
<1>1. Init => BusInit
  BY DEF Init
<1>2. QED
  BY <1>1, InitSetupInv, NextSetupInv, FirmwareStepIsBusStep, PTL DEF Spec, BusSpec

(* In the running firmware no two messages share a byte of the buffer, and  *)
(* each slot that is not being written holds the last frame of its message, *)
(* with READ_CAN storing and LOG copying at any moment (can.cpp:90-94,      *)
(* sd_logger.hpp:110-113), until somebody writes to the deleted block.      *)
THEOREM FirmwareKeepsLastFrames == Spec => [](SlotsApart /\ HoldsLastFramesUnlessReused)
BY FirmwareUsesBus, MessagesApart, LastFramesHeld, PTL
=============================================================================
