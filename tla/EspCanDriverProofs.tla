------------------------- MODULE EspCanDriverProofs -------------------------
(***************************************************************************)
(* For every size of the ring, every set of frames and every use of the    *)
(* driver: its variables keep their types, its ring keeps its shape, and   *)
(* it never acts on a snapshot of the controller that has become wrong.    *)
(***************************************************************************)
EXTENDS EspCanDriver, SequenceTheorems, TLAPS

(* Indices are taken modulo the size; for the indices that occur this is at *)
(* most one subtraction.                                                    *)
Wrap(i) == IF i < RX_BUFFER_SIZE THEN i ELSE i - RX_BUFFER_SIZE

(* i modulo the ring's size, for i up to twice that size *)
LEMMA ModIsWrap ==
    ASSUME NEW i \in 0..(2 * RX_BUFFER_SIZE - 1)
    PROVE  i % RX_BUFFER_SIZE = Wrap(i)
<1>1. RX_BUFFER_SIZE \in Nat \ {0}
  BY DriverAssumption
<1>2. CASE i < RX_BUFFER_SIZE
  BY <1>1, <1>2, SMT DEF Wrap
<1>3. CASE ~(i < RX_BUFFER_SIZE)
  BY <1>1, <1>3, SMT DEF Wrap
<1>4. QED
  BY <1>2, <1>3

-----------------------------------------------------------------------------
(* Type correctness.                                                        *)

LEMMA InitTypeOK == Init => TypeOK
<1> SUFFICES ASSUME Init PROVE TypeOK
  OBVIOUS
<1>1. rxHead \in Slot /\ rxTail \in Slot /\ rxCount \in 0..RX_BUFFER_SIZE
  BY DriverAssumption DEF Init, Slot
<1>2. status \in Status
  BY DriverAssumption DEF Init, Status, TwaiState
<1>3. hwRx \in Seq(Frame) /\ Len(hwRx) <= RX_BUFFER_SIZE /\ hwTx \in 0..TX_QUEUE_LEN
  BY DriverAssumption DEF Init
<1>4. rxBuf \in [Slot -> RawMessage \cup {NoFrame}]
  BY DEF Init
<1>5. QED
  BY <1>1, <1>2, <1>3, <1>4 DEF Init, TypeOK, PC

(* a snapshot is a status *)
LEMMA SnapshotType ==
    ASSUME TypeOK, Snapshot
    PROVE  status' \in Status
BY DriverAssumption DEF TypeOK, Snapshot, Status

LEMMA NextTypeOK == TypeOK /\ [Next]_vars => TypeOK'
<1> SUFFICES ASSUME TypeOK, [Next]_vars PROVE TypeOK'
  OBVIOUS
<1> USE DriverAssumption DEF TypeOK, Slot, PC, hwVars, ringVars
<1>1. CASE Install
  BY <1>1 DEF Install, TwaiState
<1>2. CASE CallReceive
  <2>1. status' \in Status
    BY <1>2, SnapshotType DEF CallReceive
  <2>2. QED
    BY <1>2, <2>1 DEF CallReceive
<1>3. CASE Recover
  BY <1>3 DEF Recover, TwaiState
<1>4. CASE Restart
  <2>1. CASE status.state = "stopped" /\ twai = "stopped"
    BY <1>4, <2>1 DEF Restart, TwaiState
  <2>2. CASE ~(status.state = "stopped" /\ twai = "stopped")
    BY <1>4, <2>2 DEF Restart
  <2>3. QED
    BY <2>1, <2>2
<1>5. CASE Receive
  <2>1. Head(hwRx) \in Frame /\ Tail(hwRx) \in Seq(Frame) /\ Len(Tail(hwRx)) = Len(hwRx) - 1
    BY <1>5, HeadTailProperties DEF Receive
  <2>2. QED
    BY <1>5, <2>1 DEF Receive
<1>6. CASE ReceiveTimeout
  BY <1>6 DEF ReceiveTimeout
<1>7. CASE Enqueue
  <2>1. CASE rxCount < RX_BUFFER_SIZE
    <3>1. hwMsg \in Frame
      BY <1>7 DEF Enqueue
    <3>2. PICK r \in Residue : rxBuf' = [rxBuf EXCEPT ![rxHead] = [msg |-> hwMsg, rest |-> r]]
      BY <1>7, <2>1 DEF Enqueue
    <3>3. [msg |-> hwMsg, rest |-> r] \in RawMessage
      BY <3>1 DEF RawMessage
    <3>4. rxBuf' \in [Slot -> RawMessage \cup {NoFrame}]
      BY <3>2, <3>3
    <3>5. rxHead' \in Slot /\ rxCount' \in 0..RX_BUFFER_SIZE
      BY <1>7, <2>1 DEF Enqueue, After
    <3>6. QED
      BY <1>7, <2>1, <3>4, <3>5 DEF Enqueue
  <2>2. CASE ~(rxCount < RX_BUFFER_SIZE)
    BY <1>7, <2>2 DEF Enqueue
  <2>3. QED
    BY <2>1, <2>2
<1>8. CASE Refresh
  <2>1. status' \in Status
    BY <1>8, SnapshotType DEF Refresh
  <2>2. QED
    BY <1>8, <2>1 DEF Refresh
<1>9. CASE Pop
  BY <1>9 DEF Pop, After
<1>10. CASE ReturnFalse
  BY <1>10 DEF ReturnFalse
<1>11. CASE ApiStep
  <2>1. CASE CallSend
    BY <2>1 DEF CallSend
  <2>2. CASE Transmit
    BY <2>2 DEF Transmit
  <2>3. CASE ClearHw
    BY <2>3 DEF ClearHw
  <2>4. CASE ClearRing
    BY <2>4 DEF ClearRing
  <2>5. CASE Uninstall
    BY <2>5 DEF Uninstall, TwaiState
  <2>6. CASE ClearTx
    BY <2>6 DEF ClearTx
  <2>7. QED
    BY <1>11, <2>1, <2>2, <2>3, <2>4, <2>5, <2>6 DEF ApiStep
<1>12. CASE HwReceive
  <2>1. PICK f \in Frame : hwRx' = Append(hwRx, f)
    BY <1>12 DEF HwReceive
  <2>2. hwRx' \in Seq(Frame) /\ Len(hwRx') = Len(hwRx) + 1
    BY <2>1, AppendProperties
  <2>3. QED
    BY <1>12, <2>2 DEF HwReceive
<1>13. CASE HwTransmitted
  BY <1>13 DEF HwTransmitted
<1>14. CASE HwBusOff
  BY <1>14 DEF HwBusOff, TwaiState
<1>15. CASE HwRecovered
  BY <1>15 DEF HwRecovered, TwaiState
<1>16. CASE UNCHANGED vars
  BY <1>16 DEF vars
<1>17. QED
  BY <1>1, <1>2, <1>3, <1>4, <1>5, <1>6, <1>7, <1>8, <1>9, <1>10, <1>11, <1>12,
     <1>13, <1>14, <1>15, <1>16
     DEF Next, ReceiveStep, HwStep, Gone

(* Every variable of the driver and of the controller keeps its type; in    *)
(* particular the ring never counts more than its slots (lines 93-96) and   *)
(* its indices stay in the array.                                           *)
THEOREM TypeCorrect == Spec => []TypeOK
<1>1. QED
  BY InitTypeOK, NextTypeOK, PTL DEF Spec

-----------------------------------------------------------------------------
(* The snapshot of the controller.  Until a call has restarted the          *)
(* controller, frames are only added behind its back: the count in the      *)
(* snapshot is at most what the queue holds.                                *)
CountIsLowerBound ==
    twai # "none" /\ pc \in {"recover", "restart", "drain"}
      /\ (pc = "drain" => status.state # "stopped")
      => status.msgs_to_rx <= Len(hwRx)

SnapshotInv == FaultSnapshotIsCurrent /\ CountIsLowerBound

LEMMA InitSnapshotInv == Init => SnapshotInv
BY DEF Init, SnapshotInv, FaultSnapshotIsCurrent, CountIsLowerBound

LEMMA NextSnapshotInv == TypeOK /\ SnapshotInv /\ [Next]_vars => SnapshotInv'
<1> SUFFICES ASSUME TypeOK, SnapshotInv, [Next]_vars PROVE SnapshotInv'
  OBVIOUS
<1> USE DriverAssumption DEF SnapshotInv, FaultSnapshotIsCurrent, CountIsLowerBound
<1>0. Len(hwRx) \in Nat /\ Len(hwRx) <= RX_BUFFER_SIZE
  BY DEF TypeOK
<1>1. CASE Install
  BY <1>1 DEF Install
<1>2. CASE CallReceive
  BY <1>0, <1>2 DEF CallReceive, Snapshot, hwVars
<1>3. CASE Recover
  BY <1>3 DEF Recover
<1>4. CASE Restart
  <2>1. CASE status.state = "stopped" /\ twai = "stopped"
    BY <1>4, <2>1 DEF Restart
  <2>2. CASE ~(status.state = "stopped" /\ twai = "stopped")
    BY <1>4, <2>2 DEF Restart, hwVars
  <2>3. QED
    BY <2>1, <2>2
<1>5. CASE Receive \/ ReceiveTimeout \/ Enqueue \/ Pop \/ ReturnFalse
  BY <1>5 DEF Receive, ReceiveTimeout, Enqueue, Pop, ReturnFalse
<1>6. CASE Refresh
  BY <1>0, <1>6 DEF Refresh, Snapshot, hwVars
<1>7. CASE ApiStep
  BY <1>7 DEF ApiStep, CallSend, Transmit, ClearTx, ClearHw, ClearRing, Uninstall
<1>8. CASE HwReceive
  <2>1. Len(hwRx') = Len(hwRx) + 1
    BY <1>8, AppendProperties DEF HwReceive, TypeOK
  <2>2. status \in Status
    BY DEF TypeOK
  <2>3. QED
    BY <1>0, <1>8, <2>1, <2>2 DEF HwReceive, Status
<1>9. CASE HwTransmitted \/ HwBusOff \/ HwRecovered
  BY <1>9 DEF HwTransmitted, HwBusOff, HwRecovered
<1>10. CASE UNCHANGED vars
  BY <1>10 DEF vars, hwVars
<1>11. QED
  BY <1>1, <1>2, <1>3, <1>4, <1>5, <1>6, <1>7, <1>8, <1>9, <1>10
     DEF Next, ReceiveStep, HwStep, Gone

(* tick() acts on its snapshot only while it is true: recovery is started   *)
(* on a controller that is off the bus, a start on a stopped one.           *)
THEOREM SnapshotCurrent == Spec => []FaultSnapshotIsCurrent
<1>1. SnapshotInv => FaultSnapshotIsCurrent
  BY DEF SnapshotInv
<1>2. QED
  BY TypeCorrect, InitSnapshotInv, NextSnapshotInv, <1>1, PTL DEF Spec

(* The drain loop waits for a frame that is not there only in a call that   *)
(* has restarted the controller.                                            *)
THEOREM NoStallWithoutRestart == Spec => []StallOnlyAfterRestart
<1>1. TypeOK /\ SnapshotInv => StallOnlyAfterRestart
  <2> SUFFICES ASSUME TypeOK, SnapshotInv, pc = "drain", status.msgs_to_rx > 0,
                      hwRx = <<>>, twai # "none", status.state # "stopped"
               PROVE  FALSE
    BY DEF StallOnlyAfterRestart
  <2>1. status.msgs_to_rx <= 0
    BY DEF SnapshotInv, CountIsLowerBound
  <2>2. status.msgs_to_rx \in Nat
    BY DriverAssumption DEF TypeOK, Status
  <2>3. QED
    BY <2>1, <2>2
<1>2. QED
  BY TypeCorrect, InitSnapshotInv, NextSnapshotInv, <1>1, PTL DEF Spec

-----------------------------------------------------------------------------
(* The ring.  The index arithmetic of RingOK in the form the provers can    *)
(* use: without the modulus.                                                *)
RingInv ==
    /\ rxHead = Wrap(rxTail + rxCount)
    /\ \A k \in Slot : k < rxCount => rxBuf[Wrap(rxTail + k)] # NoFrame

LEMMA RingInvIsRingOK == TypeOK => (RingInv <=> RingOK)
<1> SUFFICES ASSUME TypeOK PROVE RingInv <=> RingOK
  OBVIOUS
<1>1. RX_BUFFER_SIZE \in Nat \ {0} /\ rxTail \in Slot /\ rxCount \in 0..RX_BUFFER_SIZE
  BY DriverAssumption DEF TypeOK
<1>2. \A k \in 0..RX_BUFFER_SIZE : (rxTail + k) % RX_BUFFER_SIZE = Wrap(rxTail + k)
  <2> SUFFICES ASSUME NEW k \in 0..RX_BUFFER_SIZE
               PROVE  (rxTail + k) % RX_BUFFER_SIZE = Wrap(rxTail + k)
    OBVIOUS
  <2>1. rxTail + k \in 0..(2 * RX_BUFFER_SIZE - 1)
    BY <1>1 DEF Slot
  <2>2. QED
    BY <2>1, ModIsWrap
<1>3. Slot \subseteq 0..RX_BUFFER_SIZE
  BY <1>1 DEF Slot
<1>4. QED
  BY <1>1, <1>2, <1>3 DEF RingInv, RingOK

LEMMA AfterIsWrap ==
    ASSUME NEW i \in Slot
    PROVE  After(i) = Wrap(i + 1)
<1>1. i + 1 \in 0..(2 * RX_BUFFER_SIZE - 1)
  BY DriverAssumption DEF Slot
<1>2. QED
  BY <1>1, ModIsWrap DEF After

LEMMA NextRingInv == TypeOK /\ RingInv /\ [Next]_vars => RingInv'
<1> SUFFICES ASSUME TypeOK, RingInv, [Next]_vars PROVE RingInv'
  OBVIOUS
<1>0. /\ RX_BUFFER_SIZE \in Nat \ {0}
      /\ rxHead \in Slot /\ rxTail \in Slot /\ rxCount \in 0..RX_BUFFER_SIZE
      /\ rxBuf \in [Slot -> RawMessage \cup {NoFrame}]
  BY DriverAssumption DEF TypeOK
<1>1. CASE UNCHANGED ringVars
  BY <1>1 DEF RingInv, ringVars
<1>2. CASE ClearRing
  BY <1>0, <1>2 DEF ClearRing, RingInv, Wrap, Slot
<1>3. CASE Enqueue /\ rxCount < RX_BUFFER_SIZE
  <2>1. PICK r \in Residue : rxBuf' = [rxBuf EXCEPT ![rxHead] = [msg |-> hwMsg, rest |-> r]]
    BY <1>3 DEF Enqueue
  <2>2. /\ rxHead' = Wrap(rxHead + 1) /\ rxCount' = rxCount + 1 /\ rxTail' = rxTail
    BY <1>0, <1>3, AfterIsWrap DEF Enqueue
  <2>3. [msg |-> hwMsg, rest |-> r] # NoFrame
    <3>1. hwMsg \in Frame
      BY <1>3 DEF Enqueue, TypeOK
    <3>2. QED
      BY <3>1, DriverAssumption DEF RawMessage
  <2>4. rxHead' = Wrap(rxTail' + rxCount')
    BY <1>0, <1>3, <2>2 DEF RingInv, Wrap, Slot
  <2>5. ASSUME NEW k \in Slot, k < rxCount'
        PROVE  rxBuf'[Wrap(rxTail' + k)] # NoFrame
    <3>1. Wrap(rxTail + k) \in Slot
      BY <1>0 DEF Wrap, Slot
    <3>2. CASE k = rxCount
      BY <1>0, <2>1, <2>2, <2>3, <3>1, <3>2 DEF RingInv
    <3>3. CASE k < rxCount
      <4>1. Wrap(rxTail + k) # rxHead
        BY <1>0, <1>3, <3>3 DEF RingInv, Wrap, Slot
      <4>2. rxBuf'[Wrap(rxTail + k)] = rxBuf[Wrap(rxTail + k)]
        BY <1>0, <2>1, <3>1, <4>1
      <4>3. QED
        BY <2>2, <3>3, <4>2 DEF RingInv
    <3>4. QED
      BY <1>0, <2>2, <2>5, <3>2, <3>3 DEF Slot
  <2>6. QED
    BY <2>4, <2>5 DEF RingInv
<1>4. CASE Pop
  <2>1. /\ rxTail' = Wrap(rxTail + 1) /\ rxCount' = rxCount - 1
        /\ rxHead' = rxHead /\ rxBuf' = rxBuf /\ rxCount > 0
    BY <1>0, <1>4, AfterIsWrap DEF Pop
  <2>2. rxHead' = Wrap(rxTail' + rxCount')
    BY <1>0, <2>1 DEF RingInv, Wrap, Slot
  <2>3. ASSUME NEW k \in Slot, k < rxCount'
        PROVE  rxBuf'[Wrap(rxTail' + k)] # NoFrame
    <3>1. k + 1 \in Slot /\ k + 1 < rxCount
      BY <1>0, <2>1, <2>3 DEF Slot
    <3>2. Wrap(rxTail' + k) = Wrap(rxTail + (k + 1))
      BY <1>0, <2>1, <3>1 DEF Wrap, Slot
    <3>3. QED
      BY <2>1, <3>1, <3>2 DEF RingInv
  <2>4. QED
    BY <2>2, <2>3 DEF RingInv
<1>5. QED
  <2>1. CASE Enqueue /\ ~(rxCount < RX_BUFFER_SIZE)
    BY <1>1, <2>1 DEF Enqueue
  <2>2. CASE ReceiveStep /\ ~Enqueue /\ ~Pop
    BY <1>1, <2>2
       DEF ReceiveStep, CallReceive, Recover, Restart, Receive, ReceiveTimeout,
           Refresh, ReturnFalse
  <2>3. CASE Install \/ HwStep \/ Gone \/ UNCHANGED vars
    BY <1>1, <2>3
       DEF Install, HwStep, HwReceive, HwTransmitted, HwBusOff, HwRecovered, Gone, vars
  <2>4. CASE ApiStep /\ ~ClearRing
    BY <1>1, <2>4 DEF ApiStep, CallSend, Transmit, ClearTx, ClearHw, Uninstall
  <2>5. QED
    BY <1>2, <1>3, <1>4, <2>1, <2>2, <2>3, <2>4 DEF Next, ReceiveStep, ApiStep

(* The ring is one queue: its head is rxCount slots ahead of its tail, and  *)
(* the slots in between hold frames that were received (lines 54-58, 93-96, *)
(* 114).                                                                    *)
THEOREM RingCorrect == Spec => []RingOK
<1>1. Init => RingInv
  BY DriverAssumption DEF Init, RingInv, Wrap, Slot
<1>2. TypeOK /\ RingInv => RingOK
  BY RingInvIsRingOK
<1>3. QED
  BY TypeCorrect, NextRingInv, <1>1, <1>2, PTL DEF Spec

-----------------------------------------------------------------------------
(* The ring, the frame in the hands of tick() and the controller's queue    *)
(* together are one FIFO, as RxFifo.tla promises it to the caller: every    *)
(* step of the driver and of the controller is a step of RxFifo or leaves   *)
(* it as it is.                                                             *)

(* Facts about sequences that the steps need.                               *)

LEMMA ConcatPrefix ==
    ASSUME NEW F, NEW s \in Seq(F), NEW t \in Seq(F)
    PROVE  SubSeq(s \o t, 1, Len(s)) = s
OBVIOUS

LEMMA ConcatSuffix ==
    ASSUME NEW F, NEW s \in Seq(F), NEW t \in Seq(F)
    PROVE  SubSeq(s \o t, Len(s) + 1, Len(s \o t)) = t
OBVIOUS

LEMMA ConcatHeadTail ==
    ASSUME NEW F, NEW s \in Seq(F), NEW t \in Seq(F), s # <<>>
    PROVE  Head(s \o t) = Head(s) /\ Tail(s \o t) = Tail(s) \o t
OBVIOUS

LEMMA MoveHead ==
    ASSUME NEW F, NEW s \in Seq(F), NEW t \in Seq(F), t # <<>>
    PROVE  s \o <<Head(t)>> \o Tail(t) = s \o t
OBVIOUS

(* a function with the elements of a sequence is that sequence *)
LEMMA SameElements ==
    ASSUME NEW F, NEW n \in Nat, NEW s \in Seq(F), Len(s) = n,
           NEW e, e = [i \in 1..n |-> e[i]], \A i \in 1..n : e[i] = s[i]
    PROVE  e = s
<1>1. s \in [1..n -> F]
  BY LenProperties
<1>2. QED
  BY <1>1

(* the element between s and t removed                                      *)
LEMMA RemoveMiddle ==
    ASSUME NEW F, NEW s \in Seq(F), NEW t \in Seq(F), NEW f \in F
    PROVE  Fifo!RemoveAt(s \o <<f>> \o t, Len(s) + 1) = s \o t
<1> DEFINE u == s \o <<f>>
<1>1. u \in Seq(F) /\ Len(u) = Len(s) + 1 /\ Len(s) \in Nat
  OBVIOUS
<1>2. SubSeq(u \o t, 1, Len(s)) = s
  OBVIOUS
<1>3. SubSeq(u \o t, Len(u) + 1, Len(u \o t)) = t
  BY <1>1, ConcatSuffix
<1>4. (Len(s) + 1) - 1 = Len(s) /\ (Len(s) + 1) + 1 = Len(u) + 1
  BY <1>1
<1> HIDE DEF u
<1>5. Fifo!RemoveAt(u \o t, Len(s) + 1) = s \o t
  BY <1>2, <1>3, <1>4 DEF Fifo!RemoveAt
<1>6. QED
  BY <1>5 DEF u

-----------------------------------------------------------------------------
(* The ring as a sequence of frames.                                        *)
RingSeq == [i \in 1..rxCount |-> rxBuf[(rxTail + i - 1) % RX_BUFFER_SIZE].msg]

Hand == IF pc = "enqueue" THEN <<hwMsg>> ELSE <<>>

LEMMA WaitingParts == Waiting = RingSeq \o Hand \o hwRx
BY DEF Waiting, RingSeq, Hand

(* the slot of element i *)
LEMMA RingSlot ==
    ASSUME TypeOK, NEW i \in 1..RX_BUFFER_SIZE
    PROVE  /\ (rxTail + i - 1) % RX_BUFFER_SIZE = Wrap(rxTail + (i - 1))
           /\ Wrap(rxTail + (i - 1)) \in Slot
           /\ i - 1 \in Slot
<1>1. /\ RX_BUFFER_SIZE \in Nat \ {0} /\ rxTail \in 0..(RX_BUFFER_SIZE - 1)
  BY DriverAssumption DEF TypeOK, Slot
<1>2. rxTail + i - 1 = rxTail + (i - 1) /\ rxTail + (i - 1) \in 0..(2 * RX_BUFFER_SIZE - 1)
  BY <1>1
<1>3. (rxTail + (i - 1)) % RX_BUFFER_SIZE = Wrap(rxTail + (i - 1))
  BY <1>2, ModIsWrap
<1>4. QED
  BY <1>1, <1>2, <1>3 DEF Wrap, Slot

LEMMA RingElement ==
    ASSUME TypeOK, RingInv
    PROVE  /\ \A i \in 1..rxCount :
                /\ RingSeq[i] = rxBuf[Wrap(rxTail + (i - 1))].msg
                /\ rxBuf[Wrap(rxTail + (i - 1))] \in RawMessage
           /\ RingSeq \in Seq(Frame) /\ Len(RingSeq) = rxCount
<1>1. rxCount \in Nat /\ 1..rxCount \subseteq 1..RX_BUFFER_SIZE
  BY DriverAssumption DEF TypeOK
<1>2. ASSUME NEW i \in 1..rxCount
      PROVE  /\ RingSeq[i] = rxBuf[Wrap(rxTail + (i - 1))].msg
             /\ rxBuf[Wrap(rxTail + (i - 1))] \in RawMessage
  <2>1. i \in 1..RX_BUFFER_SIZE
    BY <1>1
  <2>2. /\ (rxTail + i - 1) % RX_BUFFER_SIZE = Wrap(rxTail + (i - 1))
        /\ Wrap(rxTail + (i - 1)) \in Slot /\ i - 1 \in Slot
    BY <2>1, RingSlot
  <2>3. i - 1 < rxCount
    BY <1>1
  <2>4. rxBuf[Wrap(rxTail + (i - 1))] # NoFrame
    BY <2>2, <2>3 DEF RingInv
  <2>5. rxBuf \in [Slot -> RawMessage \cup {NoFrame}]
    BY DEF TypeOK
  <2>6. QED
    BY <2>2, <2>4, <2>5 DEF RingSeq
<1>3. \A i \in 1..rxCount : RingSeq[i] \in Frame
  BY <1>2 DEF RawMessage
<1>4. RingSeq \in [1..rxCount -> Frame]
  BY <1>3 DEF RingSeq
<1>5. RingSeq \in Seq(Frame) /\ Len(RingSeq) = rxCount
  BY <1>1, <1>4
<1>6. QED
  BY <1>2, <1>5

LEMMA SameRing == UNCHANGED ringVars => RingSeq' = RingSeq
BY DEF ringVars, RingSeq

(* lines 92-96: the frame becomes the newest of the ring                    *)
LEMMA EnqueueRing ==
    ASSUME TypeOK, RingInv, TypeOK', RingInv', Enqueue, rxCount < RX_BUFFER_SIZE
    PROVE  RingSeq' = Append(RingSeq, hwMsg)
<1>1. /\ RX_BUFFER_SIZE \in Nat \ {0} /\ rxTail \in 0..(RX_BUFFER_SIZE - 1) /\ rxCount \in Nat
      /\ rxHead \in Slot /\ rxBuf \in [Slot -> RawMessage \cup {NoFrame}]
  BY DriverAssumption DEF TypeOK, Slot
<1>2. PICK r \in Residue : rxBuf' = [rxBuf EXCEPT ![rxHead] = [msg |-> hwMsg, rest |-> r]]
  BY DEF Enqueue
<1>3. rxTail' = rxTail /\ rxCount' = rxCount + 1 /\ hwMsg \in Frame
  BY DEF Enqueue, TypeOK
<1>4. RingSeq \in Seq(Frame) /\ Len(RingSeq) = rxCount
  BY RingElement
<1>5. RingSeq' = [i \in 1..(rxCount + 1) |-> rxBuf'[(rxTail + i - 1) % RX_BUFFER_SIZE].msg]
  BY <1>3 DEF RingSeq
<1>6. ASSUME NEW i \in 1..(rxCount + 1) PROVE RingSeq'[i] = Append(RingSeq, hwMsg)[i]
  <2>1. i \in 1..RX_BUFFER_SIZE
    BY <1>1
  <2>2. /\ (rxTail + i - 1) % RX_BUFFER_SIZE = Wrap(rxTail + (i - 1))
        /\ Wrap(rxTail + (i - 1)) \in Slot
    BY <2>1, RingSlot
  <2>3. CASE i = rxCount + 1
    <3>1. Wrap(rxTail + (i - 1)) = rxHead
      BY <1>1, <2>3 DEF RingInv
    <3>2. RingSeq'[i] = hwMsg
      BY <1>1, <1>2, <1>5, <2>2, <3>1
    <3>3. QED
      BY <1>3, <1>4, <2>3, <3>2
  <2>4. CASE i \in 1..rxCount
    <3>1. Wrap(rxTail + (i - 1)) # rxHead
      BY <1>1, <2>4 DEF RingInv, Wrap, Slot
    <3>2. RingSeq'[i] = RingSeq[i]
      BY <1>2, <1>1, <1>5, <2>2, <2>4, <3>1 DEF RingSeq
    <3>3. QED
      BY <1>3, <1>4, <2>4, <3>2
  <2>5. i = rxCount + 1 \/ i \in 1..rxCount
    <3>1. rxCount \in Nat
      BY <1>1
    <3>2. QED
      BY <3>1
  <2>6. QED
    BY <2>3, <2>4, <2>5
<1>7. Append(RingSeq, hwMsg) \in Seq(Frame) /\ Len(Append(RingSeq, hwMsg)) = rxCount + 1
  BY <1>3, <1>4
<1>8. rxCount + 1 \in Nat
  BY <1>1
<1>9. RingSeq' = [i \in 1..(rxCount + 1) |-> RingSeq'[i]]
  BY <1>5
<1>10. QED
  BY <1>6, <1>7, <1>8, <1>9, SameElements

(* lines 55-58: the oldest frame of the ring is handed out                  *)
LEMMA PopRing ==
    ASSUME TypeOK, RingInv, Pop
    PROVE  /\ RingSeq # <<>>
           /\ RingSeq' = Tail(RingSeq)
           /\ out' \in RawMessage /\ out'.msg = Head(RingSeq)
<1>1. /\ RX_BUFFER_SIZE \in Nat \ {0} /\ rxTail \in 0..(RX_BUFFER_SIZE - 1)
      /\ rxCount \in 1..RX_BUFFER_SIZE
  BY DriverAssumption DEF TypeOK, Slot, Pop
<1>2. /\ rxBuf' = rxBuf /\ rxCount' = rxCount - 1 /\ out' = rxBuf[rxTail]
      /\ rxTail' = Wrap(rxTail + 1)
  BY <1>1, AfterIsWrap DEF Pop, Slot
<1>3. RingSeq \in Seq(Frame) /\ Len(RingSeq) = rxCount
  BY RingElement
<1>4. out' \in RawMessage /\ out'.msg = RingSeq[1]
  <2>1. 1 \in 1..rxCount
    BY <1>1
  <2>2. Wrap(rxTail + (1 - 1)) = rxTail
    BY <1>1 DEF Wrap
  <2>3. QED
    BY <1>2, <2>1, <2>2, RingElement
<1>5. RingSeq' = [i \in 1..(rxCount - 1) |-> rxBuf[(rxTail' + i - 1) % RX_BUFFER_SIZE].msg]
  BY <1>2 DEF RingSeq
<1>6. ASSUME NEW i \in 1..(rxCount - 1) PROVE RingSeq'[i] = RingSeq[i + 1]
  <2>1. i + 1 \in 1..RX_BUFFER_SIZE /\ i + 1 \in 1..rxCount /\ i \in 1..RX_BUFFER_SIZE
    BY <1>1
  <2>2. (rxTail + (i + 1) - 1) % RX_BUFFER_SIZE = Wrap(rxTail + ((i + 1) - 1))
    BY <2>1, RingSlot
  <2>3. rxTail' + i - 1 \in 0..(2 * RX_BUFFER_SIZE - 1)
    BY <1>1, <1>2 DEF Wrap
  <2>4. (rxTail' + i - 1) % RX_BUFFER_SIZE = Wrap(rxTail' + i - 1)
    BY <2>3, ModIsWrap
  <2>5. Wrap(rxTail' + i - 1) = Wrap(rxTail + ((i + 1) - 1))
    BY <1>1, <1>2 DEF Wrap
  <2>6. RingSeq'[i] = rxBuf[(rxTail + (i + 1) - 1) % RX_BUFFER_SIZE].msg
    BY <1>5, <2>2, <2>4, <2>5
  <2>7. QED
    BY <2>1, <2>6 DEF RingSeq
<1>7. QED
  <2>1. /\ Tail(RingSeq) \in Seq(Frame) /\ Len(Tail(RingSeq)) = rxCount - 1
        /\ \A i \in 1..(rxCount - 1) : Tail(RingSeq)[i] = RingSeq[i + 1]
        /\ RingSeq # <<>> /\ Head(RingSeq) = RingSeq[1]
    BY <1>1, <1>3
  <2>2. rxCount - 1 \in Nat
    BY <1>1
  <2>3. RingSeq' = [i \in 1..(rxCount - 1) |-> RingSeq'[i]]
    BY <1>5
  <2>4. RingSeq' = Tail(RingSeq)
    BY <1>6, <2>1, <2>2, <2>3, SameElements
  <2>5. QED
    BY <1>4, <2>1, <2>4

-----------------------------------------------------------------------------
(* A call that began with a frame waiting still has one: in the ring, or in *)
(* its hands, or in the controller's queue and in its snapshot.             *)
InCall == {"recover", "restart", "drain", "enqueue", "refresh"}

OwedInv ==
    /\ pc = "boot" => twai = "none"
    /\ pc = "gone" => twai \in {"none", "recovering", "stopped"}
    /\ twai = "none" => hwRx = <<>>
    /\ owed => pc \in InCall
    /\ owed /\ rxCount = 0 =>
         /\ pc \in {"recover", "restart", "drain"} => status.msgs_to_rx > 0
         /\ pc \in {"recover", "restart", "drain", "refresh"} => hwRx # <<>>

LEMMA InitOwedInv == Init => OwedInv
BY DEF Init, OwedInv

LEMMA NextOwedInv == TypeOK /\ OwedInv /\ [Next]_vars => OwedInv'
<1> SUFFICES ASSUME TypeOK, OwedInv, [Next]_vars PROVE OwedInv'
  OBVIOUS
<1> USE DEF OwedInv, InCall, hwVars, ringVars
<1>0. /\ rxCount \in Nat /\ RX_BUFFER_SIZE \in Nat \ {0} /\ hwRx \in Seq(Frame)
      /\ status \in Status
  BY DriverAssumption DEF TypeOK
<1>1. hwRx # <<>> => Len(hwRx) > 0
  BY <1>0
<1>2. CASE Install
  BY <1>2 DEF Install
<1>3. CASE CallReceive
  <2>1. hwRx # <<>> => status'.msgs_to_rx > 0
    BY <1>1, <1>3 DEF CallReceive, Snapshot
  <2>2. ~(rxCount = 0 /\ rxCount > 0)
    BY <1>0
  <2>3. owed' <=> (rxCount > 0 \/ hwRx # <<>>)
    BY <1>3 DEF CallReceive
  <2>4. owed' /\ rxCount = 0 => hwRx # <<>>
    BY <2>2, <2>3
  <2>5. pc' = "recover" /\ UNCHANGED <<twai, hwRx, rxCount>>
    BY <1>3 DEF CallReceive
  <2>6. QED
    BY <2>1, <2>4, <2>5
<1>4. CASE Recover
  BY <1>4 DEF Recover
<1>5. CASE Restart
  <2>1. ~(rxCount = 0 /\ rxCount > 0)
    BY <1>0
  <2>2. pc = "restart" /\ pc' = "drain" /\ UNCHANGED <<status, rxCount>>
    BY <1>5 DEF Restart
  <2>3. CASE status.state = "stopped" /\ twai = "stopped"
    <3>1. twai' = "running" /\ (owed' <=> owed /\ rxCount > 0)
      BY <1>5, <2>3 DEF Restart
    <3>2. ~(owed' /\ rxCount = 0)
      BY <2>1, <3>1
    <3>3. QED
      BY <2>2, <3>1, <3>2
  <2>4. CASE ~(status.state = "stopped" /\ twai = "stopped")
    <3>1. UNCHANGED <<twai, hwRx, owed>>
      BY <1>5, <2>4 DEF Restart
    <3>2. QED
      BY <2>2, <3>1
  <2>5. QED
    BY <2>3, <2>4
<1>6. CASE Receive
  BY <1>6 DEF Receive
<1>7. CASE ReceiveTimeout
  BY <1>7 DEF ReceiveTimeout
<1>8. CASE Enqueue
  BY <1>0, <1>8 DEF Enqueue
<1>9. CASE Refresh
  BY <1>1, <1>9 DEF Refresh, Snapshot
<1>10. CASE Pop
  BY <1>10 DEF Pop
<1>11. CASE ReturnFalse
  BY <1>11 DEF ReturnFalse
<1>12. CASE ApiStep
  BY <1>12 DEF ApiStep, CallSend, Transmit, ClearTx, ClearHw, ClearRing, Uninstall
<1>13. CASE HwReceive
  <2>1. PICK f \in Frame : hwRx' = Append(hwRx, f)
    BY <1>13 DEF HwReceive
  <2>2. hwRx' # <<>>
    BY <1>0, <2>1
  <2>3. QED
    BY <1>13, <2>2 DEF HwReceive
<1>14. CASE HwTransmitted \/ HwBusOff \/ HwRecovered
  BY <1>14 DEF HwTransmitted, HwBusOff, HwRecovered
<1>15. CASE UNCHANGED vars
  BY <1>15 DEF vars
<1>16. QED
  BY <1>2, <1>3, <1>4, <1>5, <1>6, <1>7, <1>8, <1>9, <1>10, <1>11, <1>12, <1>13, <1>14, <1>15
     DEF Next, ReceiveStep, HwStep, Gone

-----------------------------------------------------------------------------
(* The refinement, step by step.                                            *)

LEMMA WaitingType ==
    ASSUME TypeOK, RingInv
    PROVE  /\ RingSeq \in Seq(Frame) /\ Len(RingSeq) = rxCount
           /\ Hand \in Seq(Frame) /\ hwRx \in Seq(Frame)
           /\ pc # "enqueue" => Hand = <<>> /\ Waiting = RingSeq \o hwRx
           /\ pc = "enqueue" => Waiting = RingSeq \o <<hwMsg>> \o hwRx
           /\ Waiting \in Seq(Frame)
<1>1. RingSeq \in Seq(Frame) /\ Len(RingSeq) = rxCount
  BY RingElement
<1>2. hwRx \in Seq(Frame) /\ (pc = "enqueue" => hwMsg \in Frame)
  BY DEF TypeOK
<1>3. Hand \in Seq(Frame)
  BY <1>2 DEF Hand
<1>4. Waiting = RingSeq \o Hand \o hwRx
  BY WaitingParts
<1>5. RingSeq \o <<>> = RingSeq
  BY <1>1
<1>6. pc # "enqueue" => Hand = <<>> /\ Waiting = RingSeq \o hwRx
  BY <1>4, <1>5 DEF Hand
<1>7. pc = "enqueue" => Waiting = RingSeq \o <<hwMsg>> \o hwRx
  BY <1>4 DEF Hand
<1>8. Waiting \in Seq(Frame)
  BY <1>1, <1>2, <1>3, <1>4
<1>9. QED
  BY <1>1, <1>2, <1>3, <1>6, <1>7, <1>8

(* the sequence the next state's waiting frames are                         *)
LEMMA WaitingNext ==
    /\ pc' # "enqueue" /\ RingSeq' \in Seq(Frame) => Waiting' = RingSeq' \o hwRx'
    /\ pc' = "enqueue" => Waiting' = RingSeq' \o <<hwMsg'>> \o hwRx'
<1>1. Waiting' = RingSeq' \o Hand' \o hwRx'
  BY DEF Waiting, RingSeq, Hand
<1>2. pc' # "enqueue" => Hand' = <<>>
  BY DEF Hand
<1>3. pc' = "enqueue" => Hand' = <<hwMsg'>>
  BY DEF Hand
<1>4. RingSeq' \in Seq(Frame) => RingSeq' \o <<>> = RingSeq'
  OBVIOUS
<1>5. QED
  BY <1>1, <1>2, <1>3, <1>4

FifoInv == TypeOK /\ RingInv /\ OwedInv

(* what the task does outside of a call, and what leaves the queue as it is *)
LEMMA QuietStep ==
    ASSUME FifoInv,
           \/ Recover \/ ReceiveTimeout \/ Refresh
           \/ CallSend \/ Transmit \/ ClearTx
           \/ HwTransmitted \/ HwRecovered \/ UNCHANGED vars
    PROVE  UNCHANGED Fifo!vars
<1>1. RingSeq' = RingSeq /\ hwRx' = hwRx
  <2>1. UNCHANGED ringVars /\ hwRx' = hwRx
    BY DEF Recover, ReceiveTimeout, Refresh, CallSend, Transmit, ClearTx, HwTransmitted,
           HwRecovered, vars, hwVars
  <2>2. QED
    BY <2>1, SameRing
<1>2. Hand' = Hand
  BY DEF Recover, ReceiveTimeout, Refresh, CallSend, Transmit, ClearTx, HwTransmitted,
         HwRecovered, vars, hwVars, Hand
<1>3. Waiting' = Waiting
  BY <1>1, <1>2 DEF Waiting, RingSeq, Hand
<1>4. QED
  BY <1>3 DEF Recover, ReceiveTimeout, Refresh, CallSend, Transmit, ClearTx, HwTransmitted,
              HwRecovered, vars, hwVars, Fifo!vars

(* twai_start and twai_driver_install bring the link up                     *)
LEMMA KeepsAll ==
    ASSUME FifoInv, Waiting' = Waiting
    PROVE  Fifo!KeepOldest
<1>1. Waiting \in Seq(Frame)
  BY WaitingType DEF FifoInv
<1>2. Len(Waiting) \in 0..Len(Waiting) /\ SubSeq(Waiting, 1, Len(Waiting)) = Waiting
  BY <1>1
<1>3. QED
  BY <1>2 DEF Fifo!KeepOldest

(* the controller's queue is emptied outside of a tick that has a frame     *)
LEMMA KeepsRing ==
    ASSUME FifoInv, pc # "enqueue", Waiting' = RingSeq
    PROVE  Fifo!KeepOldest
<1>1. RingSeq \in Seq(Frame) /\ hwRx \in Seq(Frame) /\ Waiting = RingSeq \o hwRx
  BY WaitingType DEF FifoInv
<1>2. SubSeq(Waiting, 1, Len(RingSeq)) = RingSeq
  BY <1>1, ConcatPrefix
<1>3. Len(RingSeq) \in 0..Len(Waiting)
  BY <1>1
<1>4. QED
  BY <1>2, <1>3 DEF Fifo!KeepOldest

(* nothing waits exactly if the ring and the controller's queue are empty   *)
LEMMA WaitingEmpty ==
    ASSUME FifoInv, pc # "enqueue"
    PROVE  Waiting # <<>> <=> (rxCount > 0 \/ hwRx # <<>>)
<1>1. /\ RingSeq \in Seq(Frame) /\ hwRx \in Seq(Frame) /\ Waiting = RingSeq \o hwRx
      /\ Len(RingSeq) = rxCount
  BY WaitingType DEF FifoInv
<1>2. rxCount \in Nat
  BY <1>1
<1>3. QED
  BY <1>1, <1>2

LEMMA InstallStep == FifoInv /\ Install => [Fifo!Next]_(Fifo!vars)
<1> SUFFICES ASSUME FifoInv, Install PROVE [Fifo!Next]_(Fifo!vars)
  OBVIOUS
<1>1. /\ UNCHANGED ringVars /\ UNCHANGED <<hwRx, out, owed>>
      /\ pc = "boot" /\ pc' = "idle" /\ twai' \in {"running", "none"}
  BY DEF Install
<1>2. twai = "none" /\ ~owed
  BY <1>1 DEF FifoInv, OwedInv, InCall
<1>3. Waiting' = Waiting
  BY <1>1, SameRing DEF Waiting, Hand, ringVars
<1>4. CASE twai' = "running"
  <2>1. Fifo!KeepOldest
    BY <1>3, KeepsAll
  <2>2. owed' <=> (owed /\ Waiting' # <<>>)
    BY <1>1, <1>2
  <2>3. owed' = (owed /\ Waiting' # <<>>)
    BY <1>1, <1>2, <2>2 DEF FifoInv, TypeOK
  <2>4. Fifo!LinkRestarts
    BY <1>1, <1>2, <1>4, <2>1, <2>3 DEF Fifo!LinkRestarts
  <2>5. QED
    BY <2>4 DEF Fifo!Next
<1>5. CASE twai' = "none"
  BY <1>1, <1>2, <1>3, <1>5 DEF Fifo!vars
<1>6. QED
  BY <1>1, <1>4, <1>5

LEMMA CallReceiveStep == FifoInv /\ CallReceive => Fifo!Next
<1> SUFFICES ASSUME FifoInv, CallReceive PROVE Fifo!Next
  OBVIOUS
<1>1. /\ UNCHANGED ringVars /\ UNCHANGED <<hwRx, twai, out>>
      /\ pc = "idle" /\ pc' = "recover"
      /\ owed' = (rxCount > 0 \/ hwRx # <<>>)
  BY DEF CallReceive, hwVars
<1>2. Waiting' = Waiting
  BY <1>1 DEF Waiting, ringVars
<1>3. owed' = (Waiting # <<>>)
  BY <1>1, WaitingEmpty
<1>4. Fifo!Call
  BY <1>1, <1>2, <1>3 DEF Fifo!Call
<1>5. QED
  BY <1>4 DEF Fifo!Next

LEMMA RestartStep == FifoInv /\ Restart => [Fifo!Next]_(Fifo!vars)
<1> SUFFICES ASSUME FifoInv, Restart PROVE [Fifo!Next]_(Fifo!vars)
  OBVIOUS
<1>1. UNCHANGED ringVars /\ UNCHANGED out /\ pc = "restart" /\ pc' = "drain"
  BY DEF Restart
<1>2. RingSeq' = RingSeq /\ RingSeq \in Seq(Frame) /\ Len(RingSeq) = rxCount
  BY <1>1, SameRing, WaitingType DEF FifoInv
<1>3. CASE status.state = "stopped" /\ twai = "stopped"
  <2>1. twai' = "running" /\ hwRx' = <<>> /\ owed' = (owed /\ rxCount > 0)
    BY <1>3 DEF Restart
  <2>2. Waiting' = RingSeq
    BY <1>1, <1>2, <2>1, WaitingNext
  <2>3. Fifo!KeepOldest
    BY <1>1, <2>2, KeepsRing
  <2>4. rxCount > 0 <=> Waiting' # <<>>
    <3>1. rxCount \in Nat
      BY <1>2
    <3>2. QED
      BY <1>2, <2>2, <3>1
  <2>5. owed' = (owed /\ Waiting' # <<>>)
    BY <2>1, <2>4
  <2>6. Fifo!LinkRestarts
    BY <1>1, <1>3, <2>1, <2>3, <2>5 DEF Fifo!LinkRestarts
  <2>7. QED
    BY <2>6 DEF Fifo!Next
<1>4. CASE ~(status.state = "stopped" /\ twai = "stopped")
  <2>1. UNCHANGED <<twai, hwRx, owed>>
    BY <1>4 DEF Restart, hwVars
  <2>2. Waiting' = Waiting
    BY <1>1, <2>1 DEF Waiting, ringVars
  <2>3. QED
    BY <1>1, <2>1, <2>2 DEF Fifo!vars
<1>5. QED
  BY <1>3, <1>4

(* tick() takes the oldest frame of the controller's queue in its hands     *)
LEMMA ReceiveStutter == FifoInv /\ Receive => UNCHANGED Fifo!vars
<1> SUFFICES ASSUME FifoInv, Receive PROVE UNCHANGED Fifo!vars
  OBVIOUS
<1>1. /\ UNCHANGED ringVars /\ UNCHANGED <<twai, out, owed>>
      /\ pc = "drain" /\ pc' = "enqueue"
      /\ hwRx # <<>> /\ hwMsg' = Head(hwRx) /\ hwRx' = Tail(hwRx)
  BY DEF Receive
<1>2. RingSeq' = RingSeq /\ RingSeq \in Seq(Frame) /\ hwRx \in Seq(Frame)
  BY <1>1, SameRing, WaitingType DEF FifoInv
<1>3. Waiting = RingSeq \o hwRx
  BY <1>1, WaitingType DEF FifoInv
<1>4. Waiting' = RingSeq \o <<Head(hwRx)>> \o Tail(hwRx)
  BY <1>1, <1>2, WaitingNext
<1>5. Waiting' = Waiting
  BY <1>1, <1>2, <1>3, <1>4, MoveHead
<1>6. QED
  BY <1>1, <1>5 DEF Fifo!vars

(* it becomes the newest of the ring, or the ring has no room               *)
LEMMA EnqueueStep == FifoInv /\ FifoInv' /\ Enqueue => [Fifo!Next]_(Fifo!vars)
<1> SUFFICES ASSUME FifoInv, FifoInv', Enqueue PROVE [Fifo!Next]_(Fifo!vars)
  OBVIOUS
<1>1. /\ UNCHANGED <<twai, hwRx, out, owed>> /\ pc = "enqueue" /\ pc' = "refresh"
  BY DEF Enqueue, hwVars
<1>2. /\ RingSeq \in Seq(Frame) /\ hwRx \in Seq(Frame) /\ Len(RingSeq) = rxCount
      /\ Waiting = RingSeq \o <<hwMsg>> \o hwRx /\ Waiting \in Seq(Frame)
  BY <1>1, WaitingType DEF FifoInv
<1>3. hwMsg \in Frame
  BY <1>1 DEF FifoInv, TypeOK
<1>4. CASE rxCount < RX_BUFFER_SIZE
  <2>1. RingSeq' = Append(RingSeq, hwMsg)
    BY <1>4, EnqueueRing DEF FifoInv
  <2>2. RingSeq' = RingSeq \o <<hwMsg>> /\ RingSeq' \in Seq(Frame)
    BY <1>2, <1>3, <2>1
  <2>3. Waiting' = Waiting
    BY <1>1, <1>2, <2>2, WaitingNext
  <2>4. QED
    BY <1>1, <2>3 DEF Fifo!vars
<1>5. CASE ~(rxCount < RX_BUFFER_SIZE)
  <2>1. UNCHANGED ringVars
    BY <1>5 DEF Enqueue
  <2>2. rxCount = RX_BUFFER_SIZE /\ RX_BUFFER_SIZE \in Nat
    BY <1>5, DriverAssumption DEF FifoInv, TypeOK
  <2>3. RingSeq' = RingSeq
    BY <2>1, SameRing
  <2>4. Waiting' = RingSeq \o hwRx
    BY <1>1, <1>2, <2>3, WaitingNext
  <2>5. Waiting' = Fifo!RemoveAt(Waiting, RX_BUFFER_SIZE + 1)
    <3>1. Fifo!RemoveAt(RingSeq \o <<hwMsg>> \o hwRx, Len(RingSeq) + 1) = RingSeq \o hwRx
      BY <1>2, <1>3, RemoveMiddle
    <3>2. Len(RingSeq) = RX_BUFFER_SIZE
      BY <1>2, <2>2
    <3>3. QED
      BY <1>2, <2>4, <3>1, <3>2, Zenon
  <2>6. Len(Waiting) > RX_BUFFER_SIZE
    BY <1>2, <1>3, <2>2
  <2>7. Fifo!Overflow
    BY <1>1, <2>5, <2>6 DEF Fifo!Overflow
  <2>8. QED
    BY <2>7 DEF Fifo!Next
<1>6. QED
  BY <1>4, <1>5

LEMMA PopStep == FifoInv /\ FifoInv' /\ Pop => Fifo!Next
<1> SUFFICES ASSUME FifoInv, FifoInv', Pop PROVE Fifo!Next
  OBVIOUS
<1>1. UNCHANGED <<twai, hwRx>> /\ pc = "drain" /\ pc' = "idle" /\ owed' = FALSE
  BY DEF Pop, hwVars
<1>2. /\ RingSeq \in Seq(Frame) /\ hwRx \in Seq(Frame)
      /\ Waiting = RingSeq \o hwRx
  BY <1>1, WaitingType DEF FifoInv
<1>3. /\ RingSeq # <<>> /\ RingSeq' = Tail(RingSeq)
      /\ out' \in RawMessage /\ out'.msg = Head(RingSeq)
  BY PopRing DEF FifoInv
<1>4. Tail(RingSeq) \in Seq(Frame)
  BY <1>2, <1>3
<1>5. Waiting' = Tail(RingSeq) \o hwRx
  BY <1>1, <1>3, <1>4, WaitingNext
<1>6. /\ Waiting # <<>> /\ Head(Waiting) = Head(RingSeq)
      /\ Waiting' = Tail(Waiting)
  BY <1>2, <1>3, <1>5, ConcatHeadTail
<1>7. out' # NoFrame
  BY <1>3, DriverAssumption
<1>8. Fifo!Deliver
  BY <1>1, <1>3, <1>6, <1>7 DEF Fifo!Deliver
<1>9. QED
  BY <1>8 DEF Fifo!Next

(* a call comes back empty-handed only if it began with nothing waiting, or *)
(* a restart has taken what was                                             *)
LEMMA ReturnFalseStep == FifoInv /\ ReturnFalse => Fifo!Next
<1> SUFFICES ASSUME FifoInv, ReturnFalse PROVE Fifo!Next
  OBVIOUS
<1>1. /\ UNCHANGED ringVars /\ UNCHANGED <<twai, hwRx, owed>> /\ pc = "drain" /\ pc' = "idle"
      /\ status.msgs_to_rx = 0 /\ rxCount = 0 /\ out' = NoFrame
  BY DEF ReturnFalse, hwVars
<1>2. ~owed
  BY <1>1 DEF FifoInv, OwedInv
<1>3. Waiting' = Waiting
  BY <1>1 DEF Waiting, ringVars
<1>4. Fifo!Decline
  BY <1>1, <1>2, <1>3 DEF Fifo!Decline
<1>5. QED
  BY <1>4 DEF Fifo!Next

LEMMA UninstallStep == FifoInv /\ Uninstall => Fifo!Next
<1> SUFFICES ASSUME FifoInv, Uninstall PROVE Fifo!Next
  OBVIOUS
<1>1. UNCHANGED ringVars /\ UNCHANGED <<out, owed>> /\ pc = "idle" /\ pc' = "gone"
  BY DEF Uninstall
<1>2. RingSeq' = RingSeq /\ RingSeq \in Seq(Frame)
  BY <1>1, SameRing, WaitingType DEF FifoInv
<1>3. Fifo!KeepOldest
  <2>1. CASE twai = "recovering"
    <3>1. Waiting' = Waiting
      BY <1>1, <2>1 DEF Uninstall, Waiting, ringVars
    <3>2. QED
      BY <3>1, KeepsAll
  <2>2. CASE twai # "recovering"
    <3>1. hwRx' = <<>>
      BY <2>2 DEF Uninstall
    <3>2. Waiting' = RingSeq
      BY <1>1, <1>2, <3>1, WaitingNext
    <3>3. QED
      BY <1>1, <3>2, KeepsRing
  <2>3. QED
    BY <2>1, <2>2
<1>4. Fifo!LinkCloses
  BY <1>1, <1>3 DEF Fifo!LinkCloses
<1>5. QED
  BY <1>4 DEF Fifo!Next

(* clearReceiveQueue: first the controller's queue, then the ring           *)
LEMMA ClearHwStep == FifoInv /\ ClearHw => Fifo!Next
<1> SUFFICES ASSUME FifoInv, ClearHw PROVE Fifo!Next
  OBVIOUS
<1>1. /\ UNCHANGED ringVars /\ UNCHANGED <<twai, out, owed>>
      /\ pc = "idle" /\ pc' = "clear" /\ hwRx' = <<>>
  BY DEF ClearHw
<1>2. RingSeq' = RingSeq /\ RingSeq \in Seq(Frame)
  BY <1>1, SameRing, WaitingType DEF FifoInv
<1>3. Waiting' = RingSeq
  BY <1>1, <1>2, WaitingNext
<1>4. Fifo!KeepOldest
  BY <1>1, <1>3, KeepsRing
<1>5. Fifo!StartPurge
  BY <1>1, <1>4 DEF Fifo!StartPurge
<1>6. QED
  BY <1>5 DEF Fifo!Next

LEMMA ClearRingStep == FifoInv /\ FifoInv' /\ ClearRing => Fifo!Next
<1> SUFFICES ASSUME FifoInv, FifoInv', ClearRing PROVE Fifo!Next
  OBVIOUS
<1>1. /\ UNCHANGED <<twai, hwRx, out, owed>> /\ pc = "clear" /\ pc' = "idle" /\ rxCount' = 0
  BY DEF ClearRing, hwVars
<1>2. /\ RingSeq \in Seq(Frame) /\ hwRx \in Seq(Frame) /\ Waiting = RingSeq \o hwRx
  BY <1>1, WaitingType DEF FifoInv
<1>3. RingSeq' = <<>>
  BY <1>1 DEF RingSeq
<1>4. Waiting' = hwRx
  BY <1>1, <1>2, <1>3, WaitingNext
<1>5. SubSeq(Waiting, Len(RingSeq) + 1, Len(Waiting)) = hwRx
  BY <1>2, ConcatSuffix
<1>6. Len(RingSeq) \in 0..Len(Waiting)
  BY <1>2
<1>7. Fifo!EndPurge
  BY <1>1, <1>4, <1>5, <1>6 DEF Fifo!EndPurge
<1>8. QED
  BY <1>7 DEF Fifo!Next

LEMMA HwReceiveStep == FifoInv /\ HwReceive => Fifo!Next
<1> SUFFICES ASSUME FifoInv, HwReceive PROVE Fifo!Next
  OBVIOUS
<1>1. /\ UNCHANGED ringVars /\ UNCHANGED <<twai, pc, hwMsg, out, owed>> /\ twai = "running"
  BY DEF HwReceive
<1>2. PICK f \in Frame : hwRx' = Append(hwRx, f)
  BY DEF HwReceive
<1>3. /\ RingSeq \in Seq(Frame) /\ Hand \in Seq(Frame) /\ hwRx \in Seq(Frame)
  BY WaitingType DEF FifoInv
<1>4. Waiting' = RingSeq \o Hand \o Append(hwRx, f)
  BY <1>1, <1>2 DEF Waiting, RingSeq, Hand, ringVars
<1>5. Waiting = RingSeq \o Hand \o hwRx
  BY WaitingParts
<1>6. Waiting' = Append(Waiting, f)
  BY <1>3, <1>4, <1>5
<1>7. pc # "gone"
  BY <1>1 DEF FifoInv, OwedInv
<1>8. Fifo!Arrive
  BY <1>1, <1>6, <1>7 DEF Fifo!Arrive
<1>9. QED
  BY <1>8 DEF Fifo!Next

LEMMA HwBusOffStep == FifoInv /\ HwBusOff => Fifo!Next
<1> SUFFICES ASSUME FifoInv, HwBusOff PROVE Fifo!Next
  OBVIOUS
<1>1. /\ UNCHANGED ringVars /\ UNCHANGED <<hwRx, pc, hwMsg, out, owed>>
      /\ twai = "running" /\ twai' = "bus_off"
  BY DEF HwBusOff
<1>2. Waiting' = Waiting
  BY <1>1 DEF Waiting, ringVars
<1>3. pc # "gone"
  BY <1>1 DEF FifoInv, OwedInv
<1>4. Fifo!LinkFails
  BY <1>1, <1>2, <1>3 DEF Fifo!LinkFails
<1>5. QED
  BY <1>4 DEF Fifo!Next

LEMMA NextRefines == FifoInv /\ FifoInv' /\ [Next]_vars => [Fifo!Next]_(Fifo!vars)
<1> SUFFICES ASSUME FifoInv, FifoInv', [Next]_vars PROVE [Fifo!Next]_(Fifo!vars)
  OBVIOUS
<1>1. CASE \/ Recover \/ ReceiveTimeout \/ Refresh \/ CallSend \/ Transmit \/ ClearTx
           \/ HwTransmitted \/ HwRecovered \/ UNCHANGED vars
  BY <1>1, QuietStep
<1>2. CASE Install \/ CallReceive \/ Restart
  BY <1>2, InstallStep, CallReceiveStep, RestartStep
<1>3. CASE Receive \/ Enqueue \/ Pop \/ ReturnFalse
  BY <1>3, ReceiveStutter, EnqueueStep, PopStep, ReturnFalseStep
<1>4. CASE Uninstall \/ ClearHw \/ ClearRing
  BY <1>4, UninstallStep, ClearHwStep, ClearRingStep
<1>5. CASE HwReceive \/ HwBusOff
  BY <1>5, HwReceiveStep, HwBusOffStep
<1>6. QED
  BY <1>1, <1>2, <1>3, <1>4, <1>5 DEF Next, ReceiveStep, ApiStep, HwStep, Gone

LEMMA InitRefines == Init => Fifo!Init
<1> SUFFICES ASSUME Init PROVE Fifo!Init
  OBVIOUS
<1>1. rxCount = 0 /\ hwRx = <<>> /\ pc = "boot" /\ twai = "none" /\ out = NoFrame /\ owed = FALSE
  BY DEF Init
<1>2. RingSeq = <<>> /\ Hand = <<>>
  BY <1>1 DEF RingSeq, Hand
<1>3. Waiting = <<>>
  BY <1>1, <1>2, WaitingParts
<1>4. QED
  BY <1>1, <1>3 DEF Fifo!Init

(* The driver implements the queue that CANDriver promises its caller: what *)
(* receiveMessage returns is the oldest frame that waits, frames are lost   *)
(* only where RxFifo says so, and a call that began with a frame waiting    *)
(* returns one unless it restarted the controller (lines 43-115).           *)
THEOREM DriverImplementsFifo == Spec => ImplementsFifo
<1>1. Init => FifoInv
  <2>1. Init => RingInv
    BY DriverAssumption DEF Init, RingInv, Wrap, Slot
  <2>2. QED
    BY <2>1, InitTypeOK, InitOwedInv DEF FifoInv
<1>2. FifoInv /\ [Next]_vars => FifoInv'
  BY NextTypeOK, NextRingInv, NextOwedInv DEF FifoInv
<1>3. QED
  BY <1>1, <1>2, InitRefines, NextRefines, PTL DEF Spec, ImplementsFifo, Fifo!Spec
=============================================================================
