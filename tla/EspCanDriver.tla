---------------------------- MODULE EspCanDriver ----------------------------
(***************************************************************************)
(* lib/can/drivers/can_driver_esp.hpp: the polling driver between the      *)
(* ESP32's TWAI controller and CANBus.  One task calls it (the CAN task);  *)
(* the controller and its interrupt move on their own between any two of   *)
(* its steps.  The step boundaries are the calls into the twai_ API: each  *)
(* is atomic, whatever lies between two of them is local to the task.      *)
(*                                                                         *)
(* The controller, its state machine and its two queues are code outside   *)
(* the repository (ESP-IDF): they are modelled from how the driver uses    *)
(* them.  What the driver relies on: twai_start acts only on a STOPPED     *)
(* controller and empties both queues, twai_initiate_recovery acts only on *)
(* a BUS_OFF one and empties the transmit queue, recovery ends in STOPPED, *)
(* no frame arrives unless it is RUNNING.                                  *)
(***************************************************************************)
EXTENDS Naturals, Sequences, FiniteSets

CONSTANTS
    Frame,           \* frames that can be on the wire
    NoFrame,
    Residue,         \* what can be in the bytes of a RawCANMessage no one wrote
    RX_BUFFER_SIZE,  \* slots of _rxBuf, and length of the controller's queue
    TX_QUEUE_LEN,    \* length of the controller's transmit queue
    InstallMayFail,  \* whether twai_driver_install may fail (nobody checks)
    ApiCalls         \* operations the application uses besides receiveMessage

(* RawCANMessage raw, lines 87-90: identifier, length and dlc bytes of data *)
(* come from the frame, the other bytes stay what they were                 *)
RawMessage == [msg : Frame, rest : Residue]

ASSUME DriverAssumption ==
    /\ NoFrame \notin Frame \cup RawMessage
    /\ Residue # {}
    /\ RX_BUFFER_SIZE \in Nat \ {0}
    /\ TX_QUEUE_LEN \in Nat \ {0}
    /\ InstallMayFail \in BOOLEAN
    /\ ApiCalls \subseteq {"send", "clear", "clear_tx", "uninstall"}

VARIABLES
    twai,     \* state of the controller, "none" when it is not installed
    hwRx,     \* the controller's receive queue
    hwTx,     \* number of frames in its transmit queue
    rxBuf,    \* _rxBuf
    rxHead,   \* _rxHead
    rxTail,   \* _rxTail
    rxCount,  \* _rxCount
    pc,       \* where the task is
    status,   \* the local twai_status_info_t of tick()
    hwMsg,    \* the local twai_message_t of tick()
    out,      \* *out of the last receiveMessage, NoFrame when it returned false
    owed      \* history: the call began with a frame waiting, and no restart
              \* has emptied the queues since

hwVars   == <<twai, hwRx, hwTx>>
ringVars == <<rxBuf, rxHead, rxTail, rxCount>>
vars     == <<hwVars, ringVars, pc, status, hwMsg, out, owed>>

TwaiState == {"stopped", "running", "bus_off", "recovering"}
Status    == [state : TwaiState, msgs_to_rx : 0..RX_BUFFER_SIZE]

Slot == 0..(RX_BUFFER_SIZE - 1)
After(i) == (i + 1) % RX_BUFFER_SIZE

PC == {"boot", "idle", "recover", "restart", "drain", "enqueue", "refresh",
       "send", "clear", "gone"}

TypeOK ==
    /\ twai \in TwaiState \cup {"none"}
    /\ hwRx \in Seq(Frame) /\ Len(hwRx) <= RX_BUFFER_SIZE
    /\ hwTx \in 0..TX_QUEUE_LEN
    /\ rxBuf \in [Slot -> RawMessage \cup {NoFrame}]
    /\ rxHead \in Slot /\ rxTail \in Slot
    /\ rxCount \in 0..RX_BUFFER_SIZE
    /\ pc \in PC
    /\ status \in Status
    /\ hwMsg \in (IF pc = "enqueue" THEN Frame ELSE {NoFrame})
    /\ out \in RawMessage \cup {NoFrame}
    /\ owed \in BOOLEAN

Init ==
    /\ twai = "none" /\ hwRx = <<>> /\ hwTx = 0
    /\ rxBuf = [i \in Slot |-> NoFrame]
    /\ rxHead = 0 /\ rxTail = 0 /\ rxCount = 0
    /\ pc = "boot"
    /\ status = [state |-> "stopped", msgs_to_rx |-> 0]
    /\ hwMsg = NoFrame /\ out = NoFrame
    /\ owed = FALSE

-----------------------------------------------------------------------------
(* install: the result of twai_driver_install is ignored; twai_start then   *)
(* fails too and the driver object does not know                            *)
Install ==
    /\ pc = "boot"
    /\ pc' = "idle"
    /\ twai' \in {"running"} \cup (IF InstallMayFail THEN {"none"} ELSE {})
    /\ UNCHANGED <<hwRx, hwTx, ringVars, status, hwMsg, out, owed>>

(* uninstall: a recovering controller can be neither stopped nor removed *)
Uninstall ==
    /\ pc = "idle" /\ "uninstall" \in ApiCalls
    /\ pc' = "gone"
    /\ twai' = IF twai = "recovering" THEN twai ELSE "none"
    /\ IF twai = "recovering" THEN UNCHANGED <<hwRx, hwTx>>
                              ELSE hwRx' = <<>> /\ hwTx' = 0
    /\ UNCHANGED <<ringVars, status, hwMsg, out, owed>>

(* sendMessage: twai_transmit refuses unless RUNNING, and otherwise waits   *)
(* with portMAX_DELAY for room in the queue                                 *)
CallSend ==
    /\ pc = "idle" /\ "send" \in ApiCalls
    /\ pc' = IF twai = "running" THEN "send" ELSE "idle"
    /\ UNCHANGED <<hwVars, ringVars, status, hwMsg, out, owed>>

Transmit ==
    /\ pc = "send" /\ hwTx < TX_QUEUE_LEN
    /\ hwTx' = hwTx + 1
    /\ pc' = "idle"
    /\ UNCHANGED <<twai, hwRx, ringVars, status, hwMsg, out, owed>>

(* clearTransmitQueue *)
ClearTx ==
    /\ pc = "idle" /\ "clear_tx" \in ApiCalls
    /\ hwTx' = 0
    /\ UNCHANGED <<twai, hwRx, ringVars, pc, status, hwMsg, out, owed>>

(* clearReceiveQueue: first the controller's queue, then the ring *)
ClearHw ==
    /\ pc = "idle" /\ "clear" \in ApiCalls
    /\ pc' = "clear"
    /\ hwRx' = <<>>
    /\ UNCHANGED <<twai, hwTx, ringVars, status, hwMsg, out, owed>>

(* mutant: the head is not reset *)
ClearRingKeepsHead ==
    /\ pc = "clear" /\ pc' = "idle"
    /\ rxTail' = 0 /\ rxCount' = 0
    /\ UNCHANGED <<hwVars, rxBuf, rxHead, status, hwMsg, out, owed>>

ClearRing ==
    /\ pc = "clear" /\ pc' = "idle"
    /\ rxHead' = 0 /\ rxTail' = 0 /\ rxCount' = 0
    /\ UNCHANGED <<hwVars, rxBuf, status, hwMsg, out, owed>>

(* mutant: counts one frame too few *)
SnapshotOneShort ==
    status' = IF twai = "none" THEN status
              ELSE [state |-> twai,
                    msgs_to_rx |-> IF hwRx = <<>> THEN 0 ELSE Len(hwRx) - 1]

-----------------------------------------------------------------------------
(* twai_get_status_info: a snapshot.  Without a controller the call fails   *)
(* and leaves its argument as it was                                        *)
Snapshot ==
    status' = IF twai = "none" THEN status
              ELSE [state |-> twai, msgs_to_rx |-> Len(hwRx)]

(* mutant: keeps the status the previous call ended with *)
CallReceiveCachedStatus ==
    /\ pc = "idle" /\ pc' = "recover"
    /\ owed' = (rxCount > 0 \/ hwRx # <<>>)
    /\ UNCHANGED <<hwVars, ringVars, status, hwMsg, out>>

(* receiveMessage calls tick, which declares its status without a value *)
CallReceive ==
    /\ pc = "idle" /\ pc' = "recover"
    /\ IF twai = "none" THEN status' \in Status ELSE Snapshot
    /\ owed' = (rxCount > 0 \/ hwRx # <<>>)
    /\ UNCHANGED <<hwVars, ringVars, hwMsg, out>>

(* lines 69-72 *)
Recover ==
    /\ pc = "recover" /\ pc' = "restart"
    /\ IF status.state = "bus_off" /\ twai = "bus_off"
       THEN twai' = "recovering" /\ hwTx' = 0
       ELSE UNCHANGED <<twai, hwTx>>
    /\ UNCHANGED <<hwRx, ringVars, status, hwMsg, out, owed>>

(* mutant: only bus-off is handled *)
RestartForgotten ==
    /\ pc = "restart" /\ pc' = "drain"
    /\ UNCHANGED <<hwVars, ringVars, status, hwMsg, out, owed>>

(* lines 73-76 *)
Restart ==
    /\ pc = "restart" /\ pc' = "drain"
    /\ IF status.state = "stopped" /\ twai = "stopped"
       THEN /\ twai' = "running" /\ hwRx' = <<>> /\ hwTx' = 0
            /\ owed' = (owed /\ rxCount > 0)
       ELSE UNCHANGED <<hwVars, owed>>
    /\ UNCHANGED <<ringVars, status, hwMsg, out>>

(* lines 79-86: twai_receive takes the oldest frame of the queue *)
Receive ==
    /\ pc = "drain" /\ status.msgs_to_rx > 0
    /\ hwRx # <<>>
    /\ hwMsg' = Head(hwRx) /\ hwRx' = Tail(hwRx)
    /\ pc' = "enqueue"
    /\ UNCHANGED <<twai, hwTx, ringVars, status, out, owed>>

(* line 102: 100 ticks passed and the queue is still empty *)
ReceiveTimeout ==
    /\ pc = "drain" /\ status.msgs_to_rx > 0
    /\ hwRx = <<>>
    /\ pc' = "refresh"
    /\ UNCHANGED <<hwVars, ringVars, status, hwMsg, out, owed>>

(* mutant: <= in the test for room *)
EnqueueOffByOne ==
    /\ pc = "enqueue" /\ pc' = "refresh"
    /\ IF rxCount <= RX_BUFFER_SIZE
       THEN /\ \E r \in Residue :
                 rxBuf' = [rxBuf EXCEPT ![rxHead] = [msg |-> hwMsg, rest |-> r]]
            /\ rxHead' = After(rxHead)
            /\ rxCount' = rxCount + 1
            /\ UNCHANGED rxTail
       ELSE UNCHANGED ringVars
    /\ hwMsg' = NoFrame
    /\ UNCHANGED <<hwVars, status, out, owed>>

(* mutant: a full ring overwrites a frame that waits instead of dropping *)
EnqueueOverwrites ==
    /\ pc = "enqueue" /\ pc' = "refresh"
    /\ \E r \in Residue :
         rxBuf' = [rxBuf EXCEPT ![rxHead] = [msg |-> hwMsg, rest |-> r]]
    /\ IF rxCount < RX_BUFFER_SIZE
       THEN rxHead' = After(rxHead) /\ rxCount' = rxCount + 1
       ELSE UNCHANGED <<rxHead, rxCount>>
    /\ hwMsg' = NoFrame
    /\ UNCHANGED <<hwVars, rxTail, status, out, owed>>

(* lines 87-99 *)
Enqueue ==
    /\ pc = "enqueue" /\ pc' = "refresh"
    /\ IF rxCount < RX_BUFFER_SIZE
       THEN /\ \E r \in Residue :
                 rxBuf' = [rxBuf EXCEPT ![rxHead] = [msg |-> hwMsg, rest |-> r]]
            /\ rxHead' = After(rxHead)
            /\ rxCount' = rxCount + 1
            /\ UNCHANGED rxTail
       ELSE UNCHANGED ringVars
    /\ hwMsg' = NoFrame
    /\ UNCHANGED <<hwVars, status, out, owed>>

(* mutant: the loop keeps its first status *)
RefreshForgotten ==
    /\ pc = "refresh" /\ pc' = "drain"
    /\ UNCHANGED <<hwVars, ringVars, status, hwMsg, out, owed>>

(* line 107 *)
Refresh ==
    /\ pc = "refresh" /\ pc' = "drain"
    /\ Snapshot
    /\ UNCHANGED <<hwVars, ringVars, hwMsg, out, owed>>

(* lines 54-59 *)
Pop ==
    /\ pc = "drain" /\ status.msgs_to_rx = 0
    /\ rxCount > 0
    /\ out' = rxBuf[rxTail]
    /\ rxTail' = After(rxTail)
    /\ rxCount' = rxCount - 1
    /\ pc' = "idle" /\ owed' = FALSE
    /\ UNCHANGED <<hwVars, rxBuf, rxHead, status, hwMsg>>

(* line 60 *)
ReturnFalse ==
    /\ pc = "drain" /\ status.msgs_to_rx = 0
    /\ rxCount = 0
    /\ out' = NoFrame
    /\ pc' = "idle"
    /\ UNCHANGED <<hwVars, ringVars, status, hwMsg, owed>>

-----------------------------------------------------------------------------
(* The controller, any time.  A frame that finds the queue full is missed.  *)
HwReceive ==
    /\ twai = "running" /\ Len(hwRx) < RX_BUFFER_SIZE
    /\ \E f \in Frame : hwRx' = Append(hwRx, f)
    /\ UNCHANGED <<twai, hwTx, ringVars, pc, status, hwMsg, out, owed>>

HwTransmitted ==
    /\ twai = "running" /\ hwTx > 0
    /\ hwTx' = hwTx - 1
    /\ UNCHANGED <<twai, hwRx, ringVars, pc, status, hwMsg, out, owed>>

HwBusOff ==
    /\ twai = "running" /\ twai' = "bus_off"
    /\ UNCHANGED <<hwRx, hwTx, ringVars, pc, status, hwMsg, out, owed>>

HwRecovered ==
    /\ twai = "recovering" /\ twai' = "stopped"
    /\ UNCHANGED <<hwRx, hwTx, ringVars, pc, status, hwMsg, out, owed>>

-----------------------------------------------------------------------------
ReceiveStep ==
    \/ CallReceive \/ Recover \/ Restart \/ Receive \/ ReceiveTimeout
    \/ Enqueue \/ Refresh \/ Pop \/ ReturnFalse

ApiStep == CallSend \/ Transmit \/ ClearTx \/ ClearHw \/ ClearRing \/ Uninstall

HwStep == HwReceive \/ HwTransmitted \/ HwBusOff \/ HwRecovered

(* after uninstall nothing is left to do *)
Gone == pc = "gone" /\ UNCHANGED vars

Next == Install \/ ReceiveStep \/ ApiStep \/ HwStep \/ Gone

Spec == Init /\ [][Next]_vars

(* The CAN task has the highest priority of the program and polls every     *)
(* 5 ms, whatever else it calls in between (remote_main.hpp:60-69, hence    *)
(* the strong fairness); a recovery ends after 128 idle sequences.  Nothing *)
(* is assumed of Transmit: frames leave the queue only on a working bus.    *)
Fairness ==
    /\ WF_vars(Install) /\ SF_vars(ReceiveStep) /\ WF_vars(ClearRing)
    /\ WF_vars(HwRecovered)

FairSpec == Spec /\ Fairness
-----------------------------------------------------------------------------
(* The three ring fields describe one queue: the head is rxCount slots      *)
(* ahead of the tail, and every slot between them holds a received message  *)
(* (lines 54-58, 93-96, 114).                                               *)
RingOK ==
    /\ rxHead = (rxTail + rxCount) % RX_BUFFER_SIZE
    /\ \A k \in Slot : k < rxCount => rxBuf[(rxTail + k) % RX_BUFFER_SIZE] # NoFrame

(* tick() acts on a snapshot of the controller taken earlier (lines 65-76). *)
(* When it does, the controller is still in the state the snapshot shows:   *)
(* recovery is asked of a controller that is off the bus, a start of one    *)
(* that is stopped.                                                         *)
FaultSnapshotIsCurrent ==
    twai # "none" =>
      /\ pc = "recover" /\ status.state = "bus_off" => twai = "bus_off"
      /\ pc \in {"recover", "restart"} /\ status.state = "stopped" => twai = "stopped"

(* The drain loop counts on a stale count (lines 79-86).  It can wait for a *)
(* frame that is not there, up to 100 ticks in a 5 ms task, only in a call  *)
(* that has just restarted the controller.                                  *)
StallOnlyAfterRestart ==
    pc = "drain" /\ status.msgs_to_rx > 0 /\ hwRx = <<>> /\ twai # "none"
      => status.state = "stopped"

(* The driver keeps the promise of RxFifo: what waits is the ring, then the *)
(* frame in the hands of tick(), then the controller's queue.               *)
Waiting ==
    [i \in 1..rxCount |-> rxBuf[(rxTail + i - 1) % RX_BUFFER_SIZE].msg]
      \o (IF pc = "enqueue" THEN <<hwMsg>> ELSE <<>>) \o hwRx

Fifo == INSTANCE RxFifo WITH
    Capacity <- RX_BUFFER_SIZE,
    pending  <- Waiting,
    link     <- IF pc = "gone" THEN "closed"
                ELSE IF twai = "running" THEN "up" ELSE "down",
    calling  <- pc \in {"recover", "restart", "drain", "enqueue", "refresh"},
    purging  <- pc = "clear",
    out      <- IF out = NoFrame THEN NoFrame ELSE out.msg

ImplementsFifo == Fifo!Spec

(* no more polls: the driver is uninstalled, or the task waits for room in  *)
(* the transmit queue, which a controller off the bus never makes (line 47) *)
NoPolls == pc \in {"gone", "send"}

(* A node that fell off the bus is back on it in the end, as long as the    *)
(* task polls: some poll asks for the recovery, a later one starts the      *)
(* controller (lines 69-76).                                                *)
BusComesBack == (twai = "bus_off") ~> (twai = "running" \/ NoPolls)

(* A frame in the controller's queue does not stay there: the task takes    *)
(* the oldest one, or a restart empties the queue (lines 74, 79-86).        *)
FrameIsRead == (hwRx # <<>>) ~> (pc = "enqueue" \/ hwRx = <<>> \/ NoPolls)

=============================================================================
