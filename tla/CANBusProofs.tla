---------------------------- MODULE CANBusProofs ----------------------------
(***************************************************************************)
(* For every message table, every size of the slots and every interleaving *)
(* of update(), sendMessage() and late calls of addMessage: messages have  *)
(* their bytes of the buffer for themselves, these hold the last frame,    *)
(* and what is sent is one frame.  The lemmas are about BusStep, which has *)
(* no guard on update(), so that Telemetry can use them.                   *)
(***************************************************************************)
EXTENDS CANBus, TLAPS

(* Where BitBuffer puts bits, for every handle and every size of the bytes  *)
(* in front of the block.                                                   *)
WholeByteHandle == {h \in Handle : h.offset % 8 = 0 /\ h.size % 8 = 0}

(* A handle of whole bytes at a whole byte, which is what CANBus::update    *)
(* and getRawMessage use: every bit goes where it should                    *)
(* (bit_buffer.cpp:32-49).                                                  *)
THEOREM WholeBytesInPlace ==
    ASSUME NEW h \in WholeByteHandle, NEW i \in 0..(h.size - 1)
    PROVE  Cell(h, i) = IntendedCell(h, i)
<1>1. h.size \in Nat /\ h.offset \in Nat /\ h.offset % 8 = 0 /\ h.size % 8 = 0
  BY DEF WholeByteHandle, Handle
<1>2. i < 8 * WholeBytes(h)
  BY <1>1 DEF WholeBytes
<1>3. QED
  BY <1>1, <1>2, HackAssumption DEF Cell, IntendedCell, ByteOffset

(* ... and inside the block, when the handle fits (line 27).                *)
THEOREM WholeBytesInBlock ==
    ASSUME NEW h \in WholeByteHandle, NEW bits \in Nat, Fits(h, bits),
           NEW i \in 0..(h.size - 1)
    PROVE  Cell(h, i) \in 0..(8 * BlockBytes(bits) - 1)
<1>1. h.size \in Nat /\ h.offset \in Nat
  BY DEF WholeByteHandle, Handle
<1>2. Cell(h, i) = IntendedCell(h, i)
  BY WholeBytesInPlace
<1>3. QED
  BY <1>1, <1>2, HackAssumption DEF IntendedCell, Fits, BlockBytes, ByteSize

(* Two handles of whole bytes that do not overlap share no bit.             *)
THEOREM WholeBytesApart ==
    ASSUME NEW g \in WholeByteHandle, NEW h \in WholeByteHandle,
           g.offset + g.size <= h.offset,
           NEW i \in 0..(g.size - 1), NEW j \in 0..(h.size - 1)
    PROVE  Cell(g, i) # Cell(h, j)
<1>1. /\ g.size \in Nat /\ g.offset \in Nat
      /\ h.size \in Nat /\ h.offset \in Nat
  BY DEF WholeByteHandle, Handle
<1>2. Cell(g, i) = IntendedCell(g, i) /\ Cell(h, j) = IntendedCell(h, j)
  BY WholeBytesInPlace
<1>3. QED
  BY <1>1, <1>2, HackAssumption DEF IntendedCell

(* Any other handle, say of a signal that starts inside a byte: no bit goes *)
(* where it should, because the pointer is advanced twice and the offset    *)
(* inside the byte is left out (lines 38, 53, 55).                          *)
THEOREM BitLoopMisplaces ==
    ASSUME Hack # 0, NEW h \in Handle, h.offset % 8 # 0, NEW i \in 0..(h.size - 1)
    PROVE  Cell(h, i) # IntendedCell(h, i)
<1>1. h.size \in Nat /\ h.offset \in Nat /\ WholeBytes(h) = 0
  BY DEF Handle, WholeBytes
<1>2. Cell(h, i) = 8 * (2 * (h.offset \div 8 + Hack) + (i \div 8)) + (i % 8)
  BY <1>1 DEF Cell, ByteOffset
<1>3. QED
  BY <1>1, <1>2, HackAssumption DEF IntendedCell

-----------------------------------------------------------------------------
(* The table, the mutex and the bytes of the buffer.                        *)
BusStep == Setup \/ Update \/ Send \/ ReuseBlock

(* The table gives out whole slots at whole bytes, one after another, and   *)
(* the size of the buffer is where the table ended when it was initialized. *)
Place(id) == messages[id].offset

TableInv ==
    /\ nextBitOffset % 8 = 0
    /\ \A id \in DOMAIN messages :
         Place(id) % 8 = 0 /\ Place(id) + SlotBits <= nextBitOffset
    /\ \A i, j \in DOMAIN messages :
         i # j => Place(i) + SlotBits <= Place(j) \/ Place(j) + SlotBits <= Place(i)
    /\ isInitialized =>
         /\ bitSize % 8 = 0 /\ bitSize <= nextBitOffset
         /\ \A id \in DOMAIN messages :
              Place(id) + SlotBits <= bitSize \/ bitSize <= Place(id)
    /\ ~isInitialized => bitSize = 0

(* Who is where, and who has the mutex; a frame was only stored where there *)
(* is room for it.                                                          *)
LockInv ==
    /\ upc \in {"lock", "write", "unlock"} => raw \in Frame /\ raw.id \in DOMAIN messages
    /\ upc \in {"write", "unlock"} <=> mutex = "can"
    /\ upc = "write" => Stored(raw.id)
    /\ apc # "idle" => msg \in DOMAIN messages
    /\ apc = "read" <=> mutex = "app"
    /\ \A id \in ID : stored[id] # None => id \in DOMAIN messages /\ Stored(id)

BusInv == TypeOK /\ TableInv /\ LockInv

-----------------------------------------------------------------------------
(* Arithmetic of the slots.                                                 *)

LEMMA SlotArithmetic ==
    /\ SLOT_BYTES \in Nat \ {0} /\ Hack \in Nat
    /\ SlotBits \in Nat /\ SlotBits = 8 * SLOT_BYTES /\ SlotBits > 0
    /\ Slot = 0..(SLOT_BYTES - 1)
BY BusAssumption, HackAssumption DEF SlotBits, Slot

(* what the memcpy of a whole frame moves, and where to *)
LEMMA SlotBytesMoved ==
    ASSUME TypeOK, TableInv, NEW id \in DOMAIN messages
    PROVE  /\ Place(id) \in Nat
           /\ WholeBytes(SlotHandle(id)) = SLOT_BYTES
           /\ ByteOffset(SlotHandle(id)) = Place(id) \div 8 + Hack
           /\ 8 * (Place(id) \div 8) = Place(id)
           /\ Place(id) \div 8 \in Nat
           /\ Stored(id) <=> Place(id) + SlotBits <= bitSize
<1>1. Place(id) \in Nat /\ Place(id) % 8 = 0
  BY DEF TypeOK, TableInv, Place
<1>2. SlotHandle(id).offset = Place(id) /\ SlotHandle(id).size = SlotBits
  BY DEF SlotHandle, Place
<1>3. QED
  BY <1>1, <1>2, SlotArithmetic DEF WholeBytes, ByteOffset, Stored, Fits

(* a slot that ends within so many bits is inside the block for them *)
LEMMA SlotInBlockOf ==
    ASSUME TypeOK, TableInv, NEW id \in DOMAIN messages, NEW bits \in Nat,
           Place(id) + SlotBits <= bits, NEW k \in Slot
    PROVE  ByteOffset(SlotHandle(id)) + k \in Block(bits)
<1> DEFINE p == Place(id)
           b == p \div 8
<1>1. /\ p \in Nat /\ b \in Nat /\ 8 * b = p
      /\ ByteOffset(SlotHandle(id)) = b + Hack
  BY SlotBytesMoved
<1>2. SLOT_BYTES \in Nat /\ Hack \in Nat /\ SlotBits = 8 * SLOT_BYTES /\ k \in 0..(SLOT_BYTES - 1)
  BY SlotArithmetic
<1> HIDE DEF p, b
<1>3. b + Hack + k \in 0..((bits + 7) \div 8 + Hack - 1)
  BY <1>1, <1>2 DEF p
<1>4. Block(bits) = 0..((bits + 7) \div 8 + Hack - 1)
  BY <1>2 DEF Block, BlockBytes, ByteSize
<1>5. ByteOffset(SlotHandle(id)) + k = b + Hack + k
  BY <1>1
<1>6. QED
  BY <1>3, <1>4, <1>5

(* a stored message's slot is inside the block *)
LEMMA SlotInBlock ==
    ASSUME TypeOK, TableInv, NEW id \in DOMAIN messages, Stored(id), NEW k \in Slot
    PROVE  ByteOffset(SlotHandle(id)) + k \in DOMAIN mem
<1>1. DOMAIN mem = Block(bitSize) /\ bitSize \in Nat
  BY DEF TypeOK
<1>2. Place(id) + SlotBits <= bitSize
  BY SlotBytesMoved
<1>3. QED
  BY <1>1, <1>2, SlotInBlockOf

(* bytes of different slots are different *)
LEMMA SlotBytesDiffer ==
    ASSUME TypeOK, TableInv, NEW i \in DOMAIN messages, NEW j \in DOMAIN messages,
           NEW k \in Slot, NEW l \in Slot,
           ByteOffset(SlotHandle(i)) + k = ByteOffset(SlotHandle(j)) + l
    PROVE  i = j /\ k = l
<1> DEFINE p == Place(i)
           q == Place(j)
           b == p \div 8
           c == q \div 8
<1>1. /\ p \in Nat /\ b \in Nat /\ 8 * b = p
      /\ ByteOffset(SlotHandle(i)) = b + Hack
  BY SlotBytesMoved
<1>2. /\ q \in Nat /\ c \in Nat /\ 8 * c = q
      /\ ByteOffset(SlotHandle(j)) = c + Hack
  BY SlotBytesMoved
<1>3. /\ SLOT_BYTES \in Nat /\ Hack \in Nat /\ SlotBits = 8 * SLOT_BYTES
      /\ k \in 0..(SLOT_BYTES - 1) /\ l \in 0..(SLOT_BYTES - 1)
  BY SlotArithmetic
<1>4. i # j => p + SlotBits <= q \/ q + SlotBits <= p
  BY DEF TableInv
<1>5. b + Hack + k = c + Hack + l
  BY <1>1, <1>2
<1> HIDE DEF p, q, b, c
<1>6. ~(p + SlotBits <= q) /\ ~(q + SlotBits <= p)
  BY <1>1, <1>2, <1>3, <1>5
<1>7. i = j
  BY <1>4, <1>6
<1>8. k = l
  BY <1>1, <1>2, <1>3, <1>5, <1>7 DEF p, q, b, c
<1>9. QED
  BY <1>7, <1>8

(* what getRawMessage reads: bytes of the message's slot, and only when a   *)
(* frame could be stored there                                              *)
LEMMA BytesRead ==
    ASSUME TypeOK, TableInv, isInitialized \/ bitSize = 0, msg \in DOMAIN messages
    PROVE  /\ messages[msg].length \in 0..SLOT_BYTES
           /\ BytesToRead \in {0, messages[msg].length}
           /\ ByteOffset(BufferHandle(msg)) = ByteOffset(SlotHandle(msg))
           /\ BytesToRead > 0 => Stored(msg)
           /\ Stored(msg) => BytesToRead = messages[msg].length
<1> DEFINE n == messages[msg].length
           p == Place(msg)
<1>1. n \in 0..SLOT_BYTES /\ p \in Nat /\ bitSize \in Nat
  BY BusAssumption DEF TypeOK, Place
<1>2. BufferHandle(msg).offset = p /\ BufferHandle(msg).size = 8 * n
  BY DEF BufferHandle, Place
<1>3. SlotHandle(msg).offset = p
  BY DEF SlotHandle, Place
<1>4. p % 8 = 0
  BY DEF TableInv
<1>5. Fits(BufferHandle(msg), bitSize) <=> p + 8 * n <= bitSize
  BY <1>2 DEF Fits
<1>6. Stored(msg) <=> p + SlotBits <= bitSize
  BY SlotBytesMoved
<1>7. p + SlotBits <= bitSize \/ bitSize <= p
  BY <1>1 DEF TableInv
<1>8. SLOT_BYTES \in Nat /\ SlotBits = 8 * SLOT_BYTES
  BY SlotArithmetic
<1>9. ByteOffset(BufferHandle(msg)) = ByteOffset(SlotHandle(msg))
  BY <1>2, <1>3 DEF ByteOffset
<1>10. WholeBytes(BufferHandle(msg)) = (8 * n) \div 8
  BY <1>2, <1>4 DEF WholeBytes
<1> HIDE DEF n, p
<1>11. (8 * n) \div 8 = n
  BY <1>1, <1>8
<1>12. BytesToRead = IF p + 8 * n <= bitSize THEN n ELSE 0
  BY <1>5, <1>10, <1>11 DEF BytesToRead
<1>13. (p + 8 * n <= bitSize /\ n > 0) => p + SlotBits <= bitSize
  BY <1>1, <1>7, <1>8
<1>14. p + SlotBits <= bitSize => p + 8 * n <= bitSize
  BY <1>1, <1>8
<1>15. QED
  BY <1>1, <1>6, <1>9, <1>12, <1>13, <1>14 DEF n

-----------------------------------------------------------------------------
(* Type correctness.                                                        *)

LEMMA InitTypeOK == BusInit => TypeOK
<1> SUFFICES ASSUME BusInit PROVE TypeOK
  OBVIOUS
<1>1. DOMAIN messages = {} /\ nextBitOffset \in Nat /\ bitSize \in Nat
  BY DEF BusInit
<1>2. mem \in [Block(bitSize) -> Byte] /\ tmp \in [Slot -> Byte]
  BY DEF BusInit, Byte
<1>3. copied \in 0..SLOT_BYTES /\ got \in 0..SLOT_BYTES
  BY SlotArithmetic DEF BusInit
<1>4. stored \in [ID -> Frame \cup {None}]
  BY DEF BusInit
<1>5. QED
  BY <1>1, <1>2, <1>3, <1>4 DEF BusInit, TypeOK

LEMMA StepTypeOK == BusInv /\ BusStep => TypeOK'
<1> SUFFICES ASSUME BusInv, BusStep PROVE TypeOK'
  OBVIOUS
<1> USE DEF blockVars, tableVars, updVars, appVars
<1>0. TypeOK /\ TableInv /\ LockInv
  BY DEF BusInv
<1>1. ASSUME NEW id \in ID, NEW length \in Lengths, AddMessage(id, length) PROVE TypeOK'
  <2>1. nextBitOffset' \in Nat
    BY <1>0, <1>1, SlotArithmetic DEF AddMessage, TypeOK
  <2>2. callbacks' \subseteq ID
    BY <1>0, <1>1 DEF AddMessage, TypeOK
  <2>3. [length |-> length, offset |-> nextBitOffset] \in [length : Lengths, offset : Nat]
    BY <1>0 DEF TypeOK
  <2>4. /\ DOMAIN messages' \subseteq ID
        /\ \A i \in DOMAIN messages' : messages'[i] \in [length : Lengths, offset : Nat]
    BY <1>0, <1>1, <2>3 DEF AddMessage, TypeOK
  <2>5. QED
    BY <1>0, <1>1, <2>1, <2>2, <2>4 DEF AddMessage, TypeOK
<1>2. ASSUME NEW id \in CallbackID, RegisterCallback(id) PROVE TypeOK'
  BY <1>0, <1>2, BusAssumption DEF RegisterCallback, TypeOK
<1>3. CASE Initialize
  BY <1>0, <1>3 DEF Initialize, TypeOK, Byte
<1>4. CASE UpdateCall \/ UpdateReturn
  BY <1>0, <1>4 DEF UpdateCall, UpdateReturn, TypeOK
<1>5. ASSUME NEW f \in Frame, TakeFrame(f) PROVE TypeOK'
  BY <1>0, <1>5 DEF TakeFrame, TypeOK
<1>6. CASE StoreLock
  BY <1>0, <1>6, SlotArithmetic DEF StoreLock, TypeOK
<1>7. CASE StoreByte
  <2>1. raw \in Frame /\ raw.id \in DOMAIN messages
    BY <1>0, <1>7 DEF StoreByte, LockInv
  <2>2. copied \in 0..(SLOT_BYTES - 1)
    BY <1>0, <1>7, <2>1, SlotBytesMoved, SlotArithmetic DEF StoreByte, TypeOK
  <2>3. Data(raw)[copied] \in Byte
    BY <2>1, <2>2 DEF Data, Slot, Frame, Byte
  <2>4. mem' \in [Block(bitSize) -> Byte]
    BY <1>0, <1>7, <2>3 DEF StoreByte, TypeOK
  <2>5. QED
    BY <1>0, <1>7, <2>2, <2>4, SlotArithmetic DEF StoreByte, TypeOK
<1>8. CASE StoreDone \/ StoreUnlock
  <2>1. upc \in {"write", "unlock"} => raw \in Frame
    BY <1>0 DEF LockInv
  <2>2. raw \in Frame => raw.id \in ID \cup {OtherID}
    BY DEF Frame
  <2>3. QED
    BY <1>0, <1>8, <2>1, <2>2, SlotArithmetic DEF StoreDone, StoreUnlock, TypeOK
<1>9. ASSUME NEW id \in ID, SendCall(id) PROVE TypeOK'
  BY <1>0, <1>9, SlotArithmetic DEF SendCall, TypeOK, Byte
<1>10. CASE SendLock
  <2>1. msg \in ID
    BY <1>0, <1>10 DEF SendLock, LockInv, TypeOK
  <2>2. QED
    BY <1>0, <1>10, <2>1 DEF SendLock, TypeOK
<1>11. CASE SendRead
  <2>1. msg \in DOMAIN messages /\ msg \in ID
    BY <1>0, <1>11 DEF SendRead, LockInv, TypeOK
  <2>2. isInitialized \/ bitSize = 0
    BY <1>0 DEF TableInv
  <2>3. /\ messages[msg].length \in 0..SLOT_BYTES
        /\ BytesToRead \in {0, messages[msg].length}
        /\ BytesToRead > 0 => Stored(msg)
        /\ ByteOffset(BufferHandle(msg)) = ByteOffset(SlotHandle(msg))
    BY <1>0, <2>1, <2>2, BytesRead
  <2>4. got < BytesToRead /\ got \in Nat
    BY <1>0, <1>11, SlotArithmetic DEF SendRead, TypeOK
  <2>5. got \in Slot /\ Stored(msg) /\ got + 1 \in 0..SLOT_BYTES
    BY <2>3, <2>4, SlotArithmetic
  <2>6. ByteOffset(BufferHandle(msg)) + got \in DOMAIN mem
    BY <1>0, <2>1, <2>3, <2>5, SlotInBlock
  <2>7. mem[ByteOffset(BufferHandle(msg)) + got] \in Byte
    BY <1>0, <2>6 DEF TypeOK
  <2>8. QED
    BY <1>0, <1>11, <2>5, <2>7 DEF SendRead, TypeOK
<1>12. CASE SendUnlock \/ SendTransmit
  <2>1. msg \in ID \/ apc = "idle"
    BY <1>0 DEF LockInv, TypeOK
  <2>2. QED
    BY <1>0, <1>12, <2>1, SlotArithmetic DEF SendUnlock, SendTransmit, TypeOK, Byte
<1>13. CASE ReuseBlock
  BY <1>0, <1>13 DEF ReuseBlock, TypeOK, Byte
<1>14. QED
  BY <1>1, <1>2, <1>3, <1>4, <1>5, <1>6, <1>7, <1>8, <1>9, <1>10, <1>11, <1>12, <1>13
     DEF BusStep, Setup, Update, Send

-----------------------------------------------------------------------------
(* The table and the mutex.                                                 *)

LEMMA InitTableLock == BusInit => TableInv /\ LockInv
BY DEF BusInit, TableInv, LockInv

(* a message's slot, when neither the table nor the buffer changes *)
LEMMA SameTable ==
    ASSUME UNCHANGED <<messages, nextBitOffset, isInitialized, bitSize>>
    PROVE  /\ TableInv => TableInv'
           /\ \A id : Stored(id)' = Stored(id)
BY DEF TableInv, Place, Stored, Fits, SlotHandle

LEMMA AddMessageTable ==
    ASSUME TypeOK, TableInv, NEW id \in ID, NEW length \in Lengths, AddMessage(id, length)
    PROVE  /\ TableInv'
           /\ DOMAIN messages \subseteq DOMAIN messages'
           /\ \A i \in DOMAIN messages : messages'[i] = messages[i]
           /\ \A i \in DOMAIN messages' \ DOMAIN messages :
                i = id /\ messages'[i].offset = nextBitOffset
<1>1. /\ nextBitOffset \in Nat /\ bitSize \in Nat /\ SlotBits \in Nat
      /\ SlotBits = 8 * SLOT_BYTES /\ SLOT_BYTES \in Nat
  BY SlotArithmetic DEF TypeOK
<1>2. nextBitOffset' = nextBitOffset + SlotBits /\ isInitialized' = isInitialized /\ bitSize' = bitSize
  BY DEF AddMessage, blockVars
<1>3. nextBitOffset' % 8 = 0
  BY <1>1, <1>2 DEF TableInv
<1>4. \A i \in DOMAIN messages : i \in DOMAIN messages' /\ messages'[i] = messages[i]
  BY DEF AddMessage
<1>5. \A i \in DOMAIN messages' \ DOMAIN messages :
        i = id /\ messages'[i].offset = nextBitOffset
  BY DEF AddMessage
<1>6. \A i \in DOMAIN messages' :
        (Place(i))' = IF i \in DOMAIN messages THEN Place(i) ELSE nextBitOffset
  BY <1>4, <1>5 DEF Place
<1>7. \A i \in DOMAIN messages : Place(i) \in Nat
  BY DEF TypeOK, Place
<1>8. \A i \in DOMAIN messages' :
        (Place(i))' % 8 = 0 /\ (Place(i))' + SlotBits <= nextBitOffset'
  BY <1>1, <1>2, <1>6, <1>7 DEF TableInv
<1>9. \A i, j \in DOMAIN messages' :
        i # j => (Place(i))' + SlotBits <= (Place(j))' \/ (Place(j))' + SlotBits <= (Place(i))'
  BY <1>5, <1>6 DEF TableInv
<1>10. isInitialized' =>
         /\ bitSize' % 8 = 0 /\ bitSize' <= nextBitOffset'
         /\ \A i \in DOMAIN messages' :
              (Place(i))' + SlotBits <= bitSize' \/ bitSize' <= (Place(i))'
  BY <1>1, <1>2, <1>6 DEF TableInv
<1>11. SlotBits' = SlotBits
  BY DEF SlotBits
<1>12. QED
  BY <1>2, <1>3, <1>4, <1>5, <1>8, <1>9, <1>10, <1>11 DEF TableInv

LEMMA InitializeTable ==
    ASSUME TypeOK, TableInv, Initialize
    PROVE  TableInv' /\ \A id \in DOMAIN messages : Stored(id)'
<1>1. /\ isInitialized' /\ bitSize' = nextBitOffset
      /\ nextBitOffset' = nextBitOffset /\ messages' = messages
  BY DEF Initialize
<1>2. \A id : (Place(id))' = Place(id)
  BY <1>1 DEF Place
<1>3. SlotBits' = SlotBits /\ nextBitOffset \in Nat /\ nextBitOffset <= nextBitOffset
  BY DEF SlotBits, TypeOK
<1>4. TableInv'
  BY <1>1, <1>2, <1>3 DEF TableInv
<1>5. \A id \in DOMAIN messages : Stored(id)'
  BY <1>1 DEF Stored, Fits, SlotHandle, TableInv, Place
<1>6. QED
  BY <1>4, <1>5

LEMMA StepTableInv == BusInv /\ BusStep => TableInv'
<1> SUFFICES ASSUME BusInv, BusStep PROVE TableInv'
  OBVIOUS
<1> USE DEF BusInv
<1>1. ASSUME NEW id \in ID, NEW length \in Lengths, AddMessage(id, length) PROVE TableInv'
  BY <1>1, AddMessageTable
<1>2. CASE Initialize
  BY <1>2, InitializeTable
<1>3. ASSUME NEW id \in CallbackID, RegisterCallback(id) PROVE TableInv'
  BY <1>3, SameTable DEF RegisterCallback, blockVars
<1>4. CASE Update
  BY <1>4, SameTable DEF Update, UpdateCall, UpdateReturn, TakeFrame, StoreLock, StoreByte,
                         StoreDone, StoreUnlock, tableVars, blockVars
<1>5. CASE Send
  BY <1>5, SameTable DEF Send, SendCall, SendLock, SendRead, SendUnlock, SendTransmit,
                         tableVars, blockVars
<1>6. CASE ReuseBlock
  BY <1>6, SameTable DEF ReuseBlock, tableVars
<1>7. QED
  BY <1>1, <1>2, <1>3, <1>4, <1>5, <1>6 DEF BusStep, Setup

LEMMA StepLockInv == BusInv /\ BusStep => LockInv'
<1> SUFFICES ASSUME BusInv, BusStep PROVE LockInv'
  OBVIOUS
<1> USE DEF BusInv, tableVars, blockVars, updVars, appVars
<1>1. ASSUME NEW id \in ID, NEW length \in Lengths, AddMessage(id, length) PROVE LockInv'
  <2>1. /\ DOMAIN messages \subseteq DOMAIN messages'
        /\ \A i \in DOMAIN messages : messages'[i] = messages[i]
    BY <1>1, AddMessageTable
  <2>2. \A i \in DOMAIN messages : Stored(i)' = Stored(i)
    BY <1>1, <2>1 DEF AddMessage, Stored, Fits, SlotHandle, SlotBits
  <2>3. QED
    BY <1>1, <2>1, <2>2 DEF AddMessage, LockInv
<1>2. ASSUME NEW id \in CallbackID, RegisterCallback(id) PROVE LockInv'
  BY <1>2, SameTable DEF RegisterCallback, LockInv
<1>3. CASE Initialize
  <2>1. \A id \in DOMAIN messages : Stored(id)'
    BY <1>3, InitializeTable
  <2>2. UNCHANGED <<messages, upc, raw, mutex, apc, msg, stored>>
    BY <1>3 DEF Initialize
  <2>3. QED
    BY <2>1, <2>2 DEF LockInv
<1>4. CASE UpdateCall \/ UpdateReturn
  BY <1>4, SameTable DEF UpdateCall, UpdateReturn, LockInv
<1>5. ASSUME NEW f \in Frame, TakeFrame(f) PROVE LockInv'
  BY <1>5, SameTable DEF TakeFrame, LockInv
<1>6. CASE StoreLock
  BY <1>6, SameTable DEF StoreLock, LockInv
<1>7. CASE StoreByte
  BY <1>7, SameTable DEF StoreByte, LockInv
<1>8. CASE StoreDone
  BY <1>8, SameTable DEF StoreDone, LockInv, TypeOK
<1>9. CASE StoreUnlock
  BY <1>9, SameTable DEF StoreUnlock, LockInv
<1>10. ASSUME NEW id \in ID, SendCall(id) PROVE LockInv'
  BY <1>10, SameTable DEF SendCall, LockInv
<1>11. CASE SendLock \/ SendRead
  BY <1>11, SameTable DEF SendLock, SendRead, LockInv
<1>12. CASE SendUnlock \/ SendTransmit
  BY <1>12, SameTable DEF SendUnlock, SendTransmit, LockInv
<1>13. CASE ReuseBlock
  BY <1>13, SameTable DEF ReuseBlock, LockInv
<1>14. QED
  BY <1>1, <1>2, <1>3, <1>4, <1>5, <1>6, <1>7, <1>8, <1>9, <1>10, <1>11, <1>12, <1>13
     DEF BusStep, Setup, Update, Send

-----------------------------------------------------------------------------
(* Messages have their bytes for themselves.                                *)

LEMMA TableApart == TypeOK /\ TableInv => SlotsApart
<1> SUFFICES ASSUME TypeOK, TableInv PROVE SlotsApart
  OBVIOUS
<1>1. ASSUME NEW i \in DOMAIN messages, NEW j \in DOMAIN messages, i # j
      PROVE  SlotCells(i) \cap SlotCells(j) = {}
  BY <1>1, SlotBytesDiffer DEF SlotCells
<1>2. ASSUME NEW id \in DOMAIN messages, Stored(id)
      PROVE  SlotCells(id) \subseteq DOMAIN mem
  BY <1>2, SlotInBlock DEF SlotCells
<1>3. ASSUME isInitialized, NEW id \in DOMAIN messages, ~Stored(id)
      PROVE  SlotCells(id) \cap DOMAIN mem = {}
  <2> DEFINE p == Place(id)
             b == p \div 8
             e == (bitSize + 7) \div 8
  <2>1. /\ p \in Nat /\ b \in Nat /\ 8 * b = p
        /\ ByteOffset(SlotHandle(id)) = b + Hack
        /\ ~(p + SlotBits <= bitSize)
    BY <1>3, SlotBytesMoved
  <2>2. bitSize % 8 = 0 /\ bitSize <= p
    BY <1>3, <2>1 DEF TableInv
  <2>3. DOMAIN mem = 0..(BlockBytes(bitSize) - 1) /\ bitSize \in Nat /\ Hack \in Nat
    BY SlotArithmetic DEF TypeOK, Block
  <2>4. BlockBytes(bitSize) = (bitSize + 7) \div 8 + Hack
    BY DEF BlockBytes, ByteSize
  <2>5. Slot \subseteq Nat
    BY SlotArithmetic
  <2>6. DOMAIN mem = 0..(e + Hack - 1)
    BY <2>3, <2>4
  <2> HIDE DEF p, b
  <2>7. e \in Nat /\ e <= b
    BY <2>1, <2>2, <2>3
  <2> HIDE DEF e
  <2>8. ASSUME NEW k \in Slot PROVE b + Hack + k \notin DOMAIN mem
    <3>1. k \in Nat /\ b \in Nat /\ Hack \in Nat
      BY <2>1, <2>3, <2>5
    <3>2. b + Hack + k \notin 0..(e + Hack - 1)
      BY <2>7, <3>1
    <3>3. QED
      BY <2>6, <3>2
  <2>9. QED
    BY <2>1, <2>8 DEF SlotCells
<1>4. QED
  BY <1>1, <1>2, <1>3 DEF SlotsApart

LEMMA InitBusInv == BusInit => BusInv
BY InitTypeOK, InitTableLock DEF BusInv

LEMMA StepBusInv == BusInv /\ BusStep => BusInv'
BY StepTypeOK, StepTableInv, StepLockInv DEF BusInv

LEMMA StutterBusInv == BusInv /\ UNCHANGED busVars => BusInv'
BY DEF BusInv, busVars, tableVars, blockVars, updVars, appVars, TypeOK, TableInv, LockInv,
       Place, Stored, Fits, SlotHandle

(* A step of the bus's own specification is one of its actions.             *)
LEMMA BusNextIsStep == BusNext => BusStep
BY DEF BusNext, BusStep

(* Every variable of the bus keeps its type: in particular neither update() *)
(* nor getRawMessage takes a byte from outside the block.                   *)
THEOREM BusTypeCorrect == BusSpec => []TypeOK
<1>1. BusInv /\ [BusNext]_busVars => BusInv'
  BY StepBusInv, StutterBusInv, BusNextIsStep
<1>2. BusInv => TypeOK
  BY DEF BusInv
<1>3. QED
  BY InitBusInv, <1>1, <1>2, PTL DEF BusSpec

(* Two messages never share a byte of the buffer, and one added after       *)
(* initialize has no byte inside it (lines 21-22, 50).                      *)
THEOREM MessagesApart == BusSpec => []SlotsApart
<1>1. BusInv /\ [BusNext]_busVars => BusInv'
  BY StepBusInv, StutterBusInv, BusNextIsStep
<1>2. BusInv => SlotsApart
  BY TableApart DEF BusInv
<1>3. QED
  BY InitBusInv, <1>1, <1>2, PTL DEF BusSpec

-----------------------------------------------------------------------------
(* The contents of the buffer.  While update() copies a frame, the bytes it *)
(* has written so far are the frame's.                                      *)
Written ==
    ~reused /\ upc = "write" =>
      \A k \in Slot :
        k < copied /\ k < raw.dlc => mem[ByteOffset(SlotHandle(raw.id)) + k] = raw.val

(* while getRawMessage reads, nobody stores, and tmp has the bytes read     *)
FromFrame(k) == IF seen = None THEN tmp[k] = Zero ELSE k < seen.dlc => tmp[k] = seen.val

Read ==
    /\ apc = "lock" => got = 0 /\ \A k \in Slot : tmp[k] = Zero
    /\ ~reused /\ apc = "read" =>
         /\ seen = stored[msg]
         /\ \A k \in Slot : IF k < got THEN FromFrame(k) ELSE tmp[k] = Zero

ContentInv == HoldsLastFramesUnlessReused /\ Written /\ Read /\ SentIsOneFrame

LEMMA InitContentInv == BusInit => ContentInv
BY DEF BusInit, ContentInv, HoldsLastFramesUnlessReused, HoldsLastFrames, Written, Read,
       SentIsOneFrame

(* before initialize no frame has been stored *)
LEMMA NothingStoredBefore ==
    ASSUME BusInv, ~isInitialized
    PROVE  /\ \A id \in DOMAIN messages : ~Stored(id)
           /\ \A id \in ID : stored[id] = None
<1>1. bitSize = 0
  BY DEF BusInv, TableInv
<1>2. ASSUME NEW id \in DOMAIN messages PROVE ~Stored(id)
  <2>1. Place(id) \in Nat /\ (Stored(id) <=> Place(id) + SlotBits <= bitSize)
    BY SlotBytesMoved DEF BusInv
  <2>2. QED
    BY <1>1, <2>1, SlotArithmetic
<1>3. QED
  BY <1>2 DEF BusInv, LockInv

(* Last frames: what update(), the table and initialize do to them.         *)
LEMMA StepHoldsLastFrames == BusInv /\ ContentInv /\ BusStep => HoldsLastFramesUnlessReused'
<1> SUFFICES ASSUME BusInv, ContentInv, BusStep, ~reused', isInitialized',
                    NEW m \in DOMAIN messages', Stored(m)', ~(upc = "write" /\ raw.id = m)'
             PROVE  SlotHoldsLastFrame(m)'
  BY DEF HoldsLastFramesUnlessReused, HoldsLastFrames
<1> USE DEF BusInv, ContentInv, tableVars, blockVars, updVars, appVars
<1>0. ~reused
  BY DEF BusStep, Setup, Update, Send, AddMessage, RegisterCallback, Initialize, UpdateCall,
         UpdateReturn, TakeFrame, StoreLock, StoreByte, StoreDone, StoreUnlock, SendCall,
         SendLock, SendRead, SendUnlock, SendTransmit, ReuseBlock
<1>1. ASSUME UNCHANGED <<messages, bitSize, mem, stored, isInitialized>>,
             ~(upc = "write" /\ raw.id = m)
      PROVE  SlotHoldsLastFrame(m)'
  <2>1. m \in DOMAIN messages /\ Stored(m) /\ isInitialized
    BY <1>1 DEF Stored, Fits, SlotHandle
  <2>2. SlotHoldsLastFrame(m)
    BY <1>0, <1>1, <2>1 DEF HoldsLastFramesUnlessReused, HoldsLastFrames
  <2>3. QED
    BY <1>1, <2>2 DEF SlotHoldsLastFrame, SlotHandle
<1>2. ASSUME NEW id \in ID, NEW length \in Lengths, AddMessage(id, length)
      PROVE  SlotHoldsLastFrame(m)'
  <2>1. /\ \A i \in DOMAIN messages : messages'[i] = messages[i]
        /\ \A i \in DOMAIN messages' \ DOMAIN messages : messages'[i].offset = nextBitOffset
    BY <1>2, AddMessageTable
  <2>2. UNCHANGED <<bitSize, mem, stored, isInitialized, upc, raw>>
    BY <1>2 DEF AddMessage
  <2>3. m \in DOMAIN messages
    <3>1. Stored(m)' <=> messages'[m].offset + SlotBits <= bitSize
      BY <2>2 DEF Stored, Fits, SlotHandle, SlotBits
    <3>2. bitSize <= nextBitOffset /\ bitSize \in Nat /\ nextBitOffset \in Nat
      BY <2>2 DEF TableInv, TypeOK
    <3>3. QED
      BY <2>1, <3>1, <3>2, SlotArithmetic
  <2>4. SlotHandle(m)' = SlotHandle(m)
    BY <2>1, <2>3 DEF SlotHandle, SlotBits
  <2>5. Stored(m) /\ ~(upc = "write" /\ raw.id = m)
    BY <2>2, <2>4 DEF Stored, Fits
  <2>6. SlotHoldsLastFrame(m)
    BY <1>0, <2>2, <2>3, <2>5 DEF HoldsLastFramesUnlessReused, HoldsLastFrames
  <2>7. QED
    BY <2>2, <2>4, <2>6 DEF SlotHoldsLastFrame
<1>3. CASE Initialize
  <2>1. stored[m] = None
    BY <1>3, NothingStoredBefore DEF Initialize, TypeOK
  <2>2. /\ m \in DOMAIN messages /\ nextBitOffset \in Nat
        /\ Place(m) + SlotBits <= nextBitOffset
    BY <1>3 DEF Initialize, TypeOK, TableInv
  <2>3. ASSUME NEW k \in Slot PROVE mem'[ByteOffset(SlotHandle(m)) + k] = Zero
    BY <1>3, <2>2, SlotInBlockOf DEF Initialize
  <2>4. stored'[m] = None /\ SlotHandle(m)' = SlotHandle(m)
    BY <1>3, <2>1 DEF Initialize, SlotHandle, SlotBits
  <2>5. QED
    BY <2>3, <2>4 DEF SlotHoldsLastFrame
<1>4. ASSUME NEW f \in Frame, TakeFrame(f) PROVE SlotHoldsLastFrame(m)'
  BY <1>1, <1>4 DEF TakeFrame
<1>5. CASE StoreLock
  BY <1>1, <1>5 DEF StoreLock
<1>6. CASE StoreByte
  <2>1. raw.id \in DOMAIN messages /\ m \in DOMAIN messages /\ raw.id # m /\ Stored(m) /\ isInitialized
    BY <1>6 DEF StoreByte, LockInv, Stored, Fits, SlotHandle
  <2>2. copied \in Slot
    BY <1>6, <2>1, SlotBytesMoved, SlotArithmetic DEF StoreByte, TypeOK
  <2>3. SlotHoldsLastFrame(m)
    BY <1>0, <2>1 DEF HoldsLastFramesUnlessReused, HoldsLastFrames
  <2>4. ASSUME NEW k \in Slot
        PROVE  mem'[ByteOffset(SlotHandle(m)) + k] = mem[ByteOffset(SlotHandle(m)) + k]
    <3>1. ByteOffset(SlotHandle(m)) + k # ByteOffset(SlotHandle(raw.id)) + copied
      BY <2>1, <2>2, SlotBytesDiffer
    <3>2. ByteOffset(SlotHandle(m)) + k \in DOMAIN mem
      BY <2>1, SlotInBlock
    <3>3. QED
      BY <1>6, <3>1, <3>2 DEF StoreByte
  <2>5. stored' = stored /\ SlotHandle(m)' = SlotHandle(m)
    BY <1>6 DEF StoreByte, SlotHandle, SlotBits
  <2>6. QED
    BY <2>3, <2>4, <2>5 DEF SlotHoldsLastFrame
<1>7. CASE StoreDone
  <2>1. UNCHANGED <<messages, bitSize, mem, isInitialized>> /\ SlotHandle(m)' = SlotHandle(m)
    BY <1>7 DEF StoreDone, SlotHandle, SlotBits
  <2>2. m \in DOMAIN messages /\ Stored(m)
    BY <2>1 DEF Stored, Fits
  <2>3. CASE raw.id = m
    <3>1. copied = SLOT_BYTES
      BY <1>7, <2>2, <2>3, SlotBytesMoved DEF StoreDone
    <3>2. stored'[m] = raw /\ raw # None
      BY <1>7, <2>2, <2>3, NoneAssumption DEF StoreDone, LockInv, TypeOK
    <3>3. \A k \in Slot : k < raw.dlc => mem[ByteOffset(SlotHandle(m)) + k] = raw.val
      BY <1>0, <1>7, <2>3, <3>1, SlotArithmetic DEF StoreDone, Written
    <3>4. QED
      BY <2>1, <3>2, <3>3 DEF SlotHoldsLastFrame
  <2>4. CASE raw.id # m
    <3>1. SlotHoldsLastFrame(m)
      BY <1>0, <2>1, <2>2, <2>4 DEF HoldsLastFramesUnlessReused, HoldsLastFrames
    <3>2. stored'[m] = stored[m]
      BY <1>7, <2>2, <2>4 DEF StoreDone, TypeOK
    <3>3. QED
      BY <2>1, <3>1, <3>2 DEF SlotHoldsLastFrame
  <2>5. QED
    BY <2>3, <2>4
<1>8. CASE UpdateCall \/ UpdateReturn \/ StoreUnlock
  BY <1>1, <1>8 DEF UpdateCall, UpdateReturn, StoreUnlock
<1>9. CASE Send
  BY <1>1, <1>9 DEF Send, SendCall, SendLock, SendRead, SendUnlock, SendTransmit
<1>10. ASSUME NEW id \in CallbackID, RegisterCallback(id) PROVE SlotHoldsLastFrame(m)'
  BY <1>1, <1>10 DEF RegisterCallback
<1>11. CASE ReuseBlock
  BY <1>11 DEF ReuseBlock
<1>12. QED
  BY <1>2, <1>3, <1>4, <1>5, <1>6, <1>7, <1>8, <1>9, <1>10, <1>11 DEF BusStep, Setup, Update

(* The bytes of the frame that is being copied.                             *)
LEMMA StepWritten == BusInv /\ ContentInv /\ BusStep => Written'
<1> SUFFICES ASSUME BusInv, ContentInv, BusStep, ~reused', upc' = "write"
             PROVE  \A k \in Slot :
                      k < copied' /\ k < raw'.dlc
                        => mem'[ByteOffset(SlotHandle(raw.id)')  + k] = raw'.val
  BY DEF Written, ByteOffset
<1> USE DEF BusInv, ContentInv, tableVars, blockVars, updVars, appVars
<1>1. CASE StoreLock
  BY <1>1, SlotArithmetic DEF StoreLock
<1>2. CASE StoreByte
  <2>1. upc = "write" /\ ~reused /\ raw' = raw /\ copied' = copied + 1
    BY <1>2 DEF StoreByte
  <2>2. raw.id \in DOMAIN messages /\ Stored(raw.id)
    BY <2>1 DEF LockInv
  <2>3. copied \in Slot
    BY <1>2, <2>2, SlotBytesMoved, SlotArithmetic DEF StoreByte, TypeOK
  <2>4. SlotHandle(raw.id)' = SlotHandle(raw.id)
    BY <1>2 DEF StoreByte, SlotHandle, SlotBits
  <2>5. ASSUME NEW k \in Slot, k < copied, k < raw.dlc
        PROVE  mem'[ByteOffset(SlotHandle(raw.id)) + k] = raw.val
    <3>1. mem[ByteOffset(SlotHandle(raw.id)) + k] = raw.val
      BY <2>1, <2>5 DEF Written
    <3>2. k # copied
      BY <2>3, <2>5, SlotArithmetic
    <3>3. ByteOffset(SlotHandle(raw.id)) + k # ByteOffset(SlotHandle(raw.id)) + copied
      BY <2>2, <2>3, <3>2, SlotBytesDiffer
    <3>4. ByteOffset(SlotHandle(raw.id)) + k \in DOMAIN mem
      BY <2>2, SlotInBlock
    <3>5. QED
      BY <1>2, <3>1, <3>3, <3>4 DEF StoreByte
  <2>6. copied < raw.dlc => mem'[ByteOffset(SlotHandle(raw.id)) + copied] = raw.val
    <3>1. ByteOffset(SlotHandle(raw.id)) + copied \in DOMAIN mem
      BY <2>2, <2>3, SlotInBlock
    <3>2. Data(raw)[copied] = IF copied < raw.dlc THEN raw.val ELSE Junk
      BY <2>3 DEF Data
    <3>3. QED
      BY <1>2, <3>1, <3>2 DEF StoreByte
  <2>7. \A k \in Slot : k < copied + 1 => k < copied \/ k = copied
    BY <2>3, SlotArithmetic
  <2>8. QED
    BY <2>1, <2>4, <2>5, <2>6, <2>7
<1>3. CASE Send
  BY <1>3 DEF Send, SendCall, SendLock, SendRead, SendUnlock, SendTransmit, Written, SlotHandle,
              SlotBits
<1>4. CASE Initialize
  <2>1. upc = "write" /\ ~isInitialized
    BY <1>4 DEF Initialize
  <2>2. QED
    BY <2>1, NothingStoredBefore DEF LockInv
<1>5. QED
  BY <1>1, <1>2, <1>3, <1>4
     DEF BusStep, Setup, Update, AddMessage, RegisterCallback, UpdateCall, UpdateReturn,
         TakeFrame, StoreDone, StoreUnlock, ReuseBlock

(* The bytes of the frame that is being read: no store runs meanwhile.      *)
LEMMA StepRead == BusInv /\ ContentInv /\ BusStep => Read'
<1> SUFFICES ASSUME BusInv, ContentInv, BusStep PROVE Read'
  OBVIOUS
<1> USE DEF BusInv, ContentInv, tableVars, blockVars, updVars, appVars
<1>1. ASSUME NEW id \in ID, SendCall(id) PROVE Read'
  BY <1>1 DEF SendCall, Read
<1>2. CASE SendLock
  BY <1>2, SlotArithmetic DEF SendLock, Read
<1>3. CASE SendRead
  <2>1. msg \in DOMAIN messages /\ apc = "read" /\ upc # "write"
    BY <1>3 DEF SendRead, LockInv
  <2>2. isInitialized \/ bitSize = 0
    BY DEF TableInv
  <2>3. /\ messages[msg].length \in 0..SLOT_BYTES
        /\ BytesToRead \in {0, messages[msg].length}
        /\ BytesToRead > 0 => Stored(msg)
        /\ ByteOffset(BufferHandle(msg)) = ByteOffset(SlotHandle(msg))
    BY <2>1, <2>2, BytesRead
  <2>4. got < BytesToRead /\ got \in Nat
    BY <1>3, SlotArithmetic DEF SendRead, TypeOK
  <2>5. got \in Slot /\ Stored(msg)
    BY <2>3, <2>4, SlotArithmetic
  <2>6. isInitialized
    BY <2>1, <2>5, NothingStoredBefore
  <2>7. ~reused => SlotHoldsLastFrame(msg)
    BY <2>1, <2>5, <2>6 DEF HoldsLastFramesUnlessReused, HoldsLastFrames
  <2>8. /\ UNCHANGED <<apc, msg, seen, stored, reused>> /\ got' = got + 1
        /\ tmp' = [tmp EXCEPT ![got] = mem[ByteOffset(SlotHandle(msg)) + got]]
    BY <1>3, <2>3 DEF SendRead
  <2>9. tmp \in [Slot -> Byte]
    BY DEF TypeOK
  <2>10. ASSUME ~reused
         PROVE  /\ seen = stored[msg]
                /\ \A k \in Slot : IF k < got + 1 THEN FromFrame(k)' ELSE tmp'[k] = Zero
    <3>1. seen = stored[msg]
      BY <2>1, <2>10 DEF Read
    <3>2. ASSUME NEW k \in Slot, k # got
          PROVE  tmp'[k] = tmp[k] /\ (IF k < got THEN FromFrame(k) ELSE tmp[k] = Zero)
      BY <2>1, <2>8, <2>9, <2>10, <3>2 DEF Read
    <3>3. ASSUME NEW k \in Slot, k = got PROVE FromFrame(k)'
      <4>1. tmp'[k] = mem[ByteOffset(SlotHandle(msg)) + k]
        BY <2>8, <2>9, <3>3
      <4>2. SlotHoldsLastFrame(msg)
        BY <2>7, <2>10
      <4>3. QED
        BY <2>8, <3>1, <4>1, <4>2 DEF FromFrame, SlotHoldsLastFrame
    <3>4. ASSUME NEW k \in Slot, k # got PROVE FromFrame(k)' <=> FromFrame(k)
      BY <2>8, <3>2, <3>4 DEF FromFrame
    <3>5. \A k \in Slot : k < got + 1 <=> k < got \/ k = got
      BY <2>5, SlotArithmetic
    <3>6. QED
      BY <3>1, <3>2, <3>3, <3>4, <3>5
  <2>11. QED
    BY <2>1, <2>8, <2>10 DEF Read
<1>4. CASE SendUnlock \/ SendTransmit
  BY <1>4 DEF SendUnlock, SendTransmit, Read
<1>5. CASE Setup
  BY <1>5 DEF Setup, AddMessage, RegisterCallback, Initialize, Read, FromFrame
<1>6. CASE StoreDone
  <2>1. apc # "read"
    BY <1>6 DEF StoreDone, LockInv
  <2>2. QED
    BY <1>6, <2>1 DEF StoreDone, Read
<1>7. CASE UpdateCall \/ UpdateReturn \/ StoreLock \/ StoreByte \/ StoreUnlock
  BY <1>7 DEF UpdateCall, UpdateReturn, StoreLock, StoreByte, StoreUnlock, Read, FromFrame
<1>8. ASSUME NEW f \in Frame, TakeFrame(f) PROVE Read'
  BY <1>8 DEF TakeFrame, Read, FromFrame
<1>9. CASE ReuseBlock
  BY <1>9 DEF ReuseBlock, Read
<1>10. QED
  BY <1>1, <1>2, <1>3, <1>4, <1>5, <1>6, <1>7, <1>8, <1>9 DEF BusStep, Update, Send

(* What getRawMessage hands over: all it read, which was one frame.         *)
LEMMA StepSentIsOneFrame == BusInv /\ ContentInv /\ BusStep => SentIsOneFrame'
<1> SUFFICES ASSUME BusInv, ContentInv, BusStep PROVE SentIsOneFrame'
  OBVIOUS
<1> USE DEF BusInv, ContentInv, tableVars, blockVars, updVars, appVars
<1>1. CASE SendUnlock
  <2>1. msg \in DOMAIN messages /\ msg \in ID /\ apc = "read" /\ got = BytesToRead
    BY <1>1 DEF SendUnlock, LockInv, TypeOK
  <2>2. isInitialized \/ bitSize = 0
    BY DEF TableInv
  <2>3. /\ messages[msg].length \in 0..SLOT_BYTES
        /\ BytesToRead \in {0, messages[msg].length}
        /\ Stored(msg) => BytesToRead = messages[msg].length
    BY <2>1, <2>2, BytesRead
  <2>4. UNCHANGED <<messages, msg, tmp, seen, reused>>
    BY <1>1 DEF SendUnlock
  <2>5. ASSUME ~reused, NEW k \in Slot
        PROVE  IF seen = None THEN tmp[k] = Zero
               ELSE k < messages[msg].length /\ k < seen.dlc => tmp[k] = seen.val
    <3>1. /\ seen = stored[msg]
          /\ IF k < got THEN FromFrame(k) ELSE tmp[k] = Zero
      BY <2>1, <2>5 DEF Read
    <3>2. seen # None => got = messages[msg].length
      BY <2>1, <2>3, <3>1 DEF LockInv
    <3>3. QED
      BY <3>1, <3>2 DEF FromFrame
  <2>6. QED
    BY <2>4, <2>5 DEF SentIsOneFrame
<1>2. CASE SendLock \/ SendRead \/ SendTransmit \/ \E id \in ID : SendCall(id)
  BY <1>2 DEF SendLock, SendRead, SendTransmit, SendCall, SentIsOneFrame
<1>3. CASE Setup
  BY <1>3 DEF Setup, AddMessage, RegisterCallback, Initialize, SentIsOneFrame
<1>4. CASE Update
  BY <1>4 DEF Update, UpdateCall, UpdateReturn, TakeFrame, StoreLock, StoreByte, StoreDone,
              StoreUnlock, SentIsOneFrame
<1>5. CASE ReuseBlock
  BY <1>5 DEF ReuseBlock, SentIsOneFrame
<1>6. QED
  BY <1>1, <1>2, <1>3, <1>4, <1>5 DEF BusStep, Send

LEMMA StepContentInv == BusInv /\ ContentInv /\ BusStep => ContentInv'
<1> SUFFICES ASSUME BusInv, ContentInv, BusStep PROVE ContentInv'
  OBVIOUS
<1>1. HoldsLastFramesUnlessReused' /\ Written' /\ Read' /\ SentIsOneFrame'
  BY StepHoldsLastFrames, StepWritten, StepRead, StepSentIsOneFrame
<1>2. QED
  BY <1>1 DEF ContentInv

LEMMA StutterContentInv == ContentInv /\ UNCHANGED busVars => ContentInv'
BY DEF busVars, tableVars, blockVars, updVars, appVars, ContentInv,
       HoldsLastFramesUnlessReused, HoldsLastFrames, SlotHoldsLastFrame, Written, Read, FromFrame,
       SentIsOneFrame, Stored, Fits, SlotHandle, ByteOffset

(* The buffer holds the last frame of every message, bytes of two frames    *)
(* never mixed, unless another owner writes to the block that initialize    *)
(* has deleted (lines 67 and 90-94).                                        *)
THEOREM LastFramesHeld == BusSpec => []HoldsLastFramesUnlessReused
<1>1. BusInv /\ ContentInv /\ [BusNext]_busVars => BusInv' /\ ContentInv'
  BY StepBusInv, StutterBusInv, StepContentInv, StutterContentInv, BusNextIsStep
<1>2. ContentInv => HoldsLastFramesUnlessReused
  BY DEF ContentInv
<1>3. QED
  BY InitBusInv, InitContentInv, <1>1, <1>2, PTL DEF BusSpec

(* sendMessage puts one frame together, whatever update() does between two  *)
(* of the bytes it copies: that is what the mutex is for (lines 144-159).   *)
THEOREM OneFrameSent == BusSpec => []SentIsOneFrame
<1>1. BusInv /\ ContentInv /\ [BusNext]_busVars => BusInv' /\ ContentInv'
  BY StepBusInv, StutterBusInv, StepContentInv, StutterContentInv, BusNextIsStep
<1>2. ContentInv => SentIsOneFrame
  BY DEF ContentInv
<1>3. QED
  BY InitBusInv, InitContentInv, <1>1, <1>2, PTL DEF BusSpec
=============================================================================
