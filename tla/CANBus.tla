------------------------------- MODULE CANBus -------------------------------
(***************************************************************************)
(* lib/can/can.{hpp,cpp}: the message table and the buffer that holds the  *)
(* last frame of every message.                                            *)
(*                                                                         *)
(* setup() adds the messages and initializes the bus; afterwards the CAN   *)
(* task runs update(), and any task may send a message, which reads the    *)
(* buffer.  Both take _bufferMutex; between two bytes either copies the    *)
(* other tasks run.  Signals are left out: nothing reads their handles.    *)
(*                                                                         *)
(* A byte of the buffer is abstracted to the value of the frame it came    *)
(* from: a frame's payload is one element of Val, repeated in its dlc      *)
(* bytes.  What receiveMessage returns is any frame (RxFifo.tla says which *)
(* ones and in what order; nothing here depends on it).                    *)
(***************************************************************************)
EXTENDS BitBuffer, FiniteSets

CONSTANTS
    ID,           \* ids an added message can have
    OtherID,      \* an id on the wire that no message has
    Val,          \* payloads
    Zero, Junk,   \* a byte nobody wrote; a byte that belongs to nothing
    None,
    SLOT_BYTES,   \* bytes of RawCANMessage::data64, 8
    DLC,          \* lengths of the frames on the wire, in bytes
    Lengths,      \* lengths of the messages added, in bytes
    CallbackID,   \* ids whose description has an onReceive
    MaxAdds,      \* bound: calls of addMessage
    Senders,      \* whether some task sends messages (none does in the firmware)
    HeapReuse     \* whether other allocations use the block initialize() freed

ASSUME BusAssumption ==
    /\ OtherID \notin ID
    /\ {Zero, Junk, None} \cap (Val \cup ID) = {}
    /\ Zero # Junk /\ Zero # None /\ Junk # None
    /\ SLOT_BYTES \in Nat \ {0}
    /\ DLC \subseteq 0..SLOT_BYTES /\ Lengths \subseteq 0..SLOT_BYTES
    /\ CallbackID \subseteq ID
    /\ MaxAdds \in Nat
    /\ Senders \in BOOLEAN
    /\ HeapReuse \in BOOLEAN

VARIABLES
    messages,       \* _messages: id -> [length, offset] of bufferHandle
    nextBitOffset,  \* _nextBitOffset
    callbacks,      \* ids with an entry in _callbacks
    isInitialized,  \* _isInitialized
    bitSize,        \* _buffer._bitSize
    mem,            \* the block _buffer._buffer points to
    freed,          \* that block has been deleted
    mutex,          \* who holds _bufferMutex
    upc, raw, copied,      \* update(): where it is, rawMessage, bytes written
    apc, msg, tmp, got,    \* sendMessage(): where it is, its message, bytes read
    sent,           \* what sendMessage last gave to the driver
    stored,         \* history: last frame stored for each id
    seen,           \* history: stored[msg] when getRawMessage had the lock
    reused          \* history: another allocation wrote to the freed block

tableVars == <<messages, nextBitOffset, callbacks, isInitialized>>
blockVars == <<bitSize, mem, freed>>
updVars   == <<upc, raw, copied>>
appVars   == <<apc, msg, tmp, got, sent, seen>>
busVars   == <<tableVars, blockVars, mutex, updVars, appVars, stored, reused>>

Slot     == 0..(SLOT_BYTES - 1)
SlotBits == 8 * SLOT_BYTES
Byte     == Val \cup {Zero, Junk}

Frame == [id : ID \cup {OtherID}, dlc : DLC, val : Val]

ASSUME NoneAssumption == None \notin Frame

(* the 64 bits of the frame, whatever its length: bytes past dlc were never *)
(* written (can_driver_esp.hpp:87-90)                                       *)
Data(f) == [k \in Slot |-> IF k < f.dlc THEN f.val ELSE Junk]

(* line 92: all 64 bits, at the message's place *)
SlotHandle(id) == [size |-> SlotBits, offset |-> messages[id].offset]
(* CANMessage::bufferHandle *)
BufferHandle(id) == [size |-> 8 * messages[id].length, offset |-> messages[id].offset]

SlotCells(id) == {ByteOffset(SlotHandle(id)) + k : k \in Slot}
Stored(id)    == Fits(SlotHandle(id), bitSize)

Block(bits) == 0..(BlockBytes(bits) - 1)

TypeOK ==
    /\ DOMAIN messages \subseteq ID
    /\ \A id \in DOMAIN messages :
         messages[id] \in [length : Lengths, offset : Nat]
    /\ nextBitOffset \in Nat
    /\ callbacks \subseteq ID
    /\ isInitialized \in BOOLEAN /\ freed \in BOOLEAN /\ reused \in BOOLEAN
    /\ bitSize \in Nat
    /\ mem \in [Block(bitSize) -> Byte]
    /\ mutex \in {"free", "can", "app"}
    /\ upc \in {"idle", "recv", "lock", "write", "unlock"}
    /\ raw \in Frame \cup {None} /\ copied \in 0..SLOT_BYTES
    /\ apc \in {"idle", "lock", "read", "transmit"}
    /\ msg \in ID \cup {None}
    /\ tmp \in [Slot -> Byte] /\ got \in 0..SLOT_BYTES
    /\ sent \in [id : ID, data : [Slot -> Byte]] \cup {None}
    /\ stored \in [ID -> Frame \cup {None}]
    /\ seen \in Frame \cup {None}

BusInit ==
    /\ messages = [id \in {} |-> None] /\ nextBitOffset = 0
    /\ callbacks = {} /\ isInitialized = FALSE
    /\ bitSize = 0 /\ mem = [c \in Block(0) |-> Zero] /\ freed = FALSE
    /\ mutex = "free"
    /\ upc = "idle" /\ raw = None /\ copied = 0
    /\ apc = "idle" /\ msg = None /\ tmp = [k \in Slot |-> Zero] /\ got = 0
    /\ sent = None /\ seen = None
    /\ stored = [id \in ID |-> None] /\ reused = FALSE

-----------------------------------------------------------------------------
(* mutant: the offset moves on by bytes where the handles count bits *)
AddMessageInBytes(id, length) ==
    /\ nextBitOffset < SlotBits * MaxAdds
    /\ upc = "idle" /\ apc = "idle"
    /\ nextBitOffset' = nextBitOffset + SLOT_BYTES
    /\ callbacks' = callbacks \cup ({id} \cap CallbackID)
    /\ messages' = IF id \in DOMAIN messages THEN messages
                   ELSE [i \in DOMAIN messages \cup {id} |->
                           IF i = id THEN [length |-> length, offset |-> nextBitOffset]
                                     ELSE messages[i]]
    /\ UNCHANGED <<isInitialized, blockVars, mutex, updVars, appVars, stored, reused>>

(* addMessage: nothing stops it after initialize but an error message.  An  *)
(* id that is already there keeps its first entry; the offset moves on.     *)
(* That nobody updates or sends meanwhile is not asked by the code: it is   *)
(* the firmware that adds messages in setup() alone, before any task lives. *)
AddMessage(id, length) ==
    /\ nextBitOffset < SlotBits * MaxAdds
    /\ upc = "idle" /\ apc = "idle"
    /\ nextBitOffset' = nextBitOffset + SlotBits
    /\ callbacks' = callbacks \cup ({id} \cap CallbackID)
    /\ messages' = IF id \in DOMAIN messages THEN messages
                   ELSE [i \in DOMAIN messages \cup {id} |->
                           IF i = id THEN [length |-> length, offset |-> nextBitOffset]
                                     ELSE messages[i]]
    /\ UNCHANGED <<isInitialized, blockVars, mutex, updVars, appVars, stored, reused>>

RegisterCallback(id) ==
    /\ upc = "idle" /\ apc = "idle"
    /\ callbacks' = callbacks \cup {id}
    /\ UNCHANGED <<messages, nextBitOffset, isInitialized, blockVars, mutex, updVars,
                   appVars, stored, reused>>

(* mutant: the block is allocated without the bytes in front *)
InitializeNoHack ==
    /\ ~isInitialized /\ isInitialized' = TRUE
    /\ bitSize' = nextBitOffset
    /\ mem' = [c \in 0..(ByteSize(nextBitOffset) - 1) |-> Zero]
    /\ freed' = TRUE
    /\ UNCHANGED <<messages, nextBitOffset, callbacks, mutex, updVars, appVars,
                   stored, reused>>

(* initialize: the assignment copies the pointer of a temporary, and the    *)
(* temporary deletes the block when it goes                                 *)
Initialize ==
    /\ ~isInitialized /\ isInitialized' = TRUE
    /\ bitSize' = nextBitOffset
    /\ mem' = [c \in Block(nextBitOffset) |-> Zero]
    /\ freed' = TRUE
    /\ UNCHANGED <<messages, nextBitOffset, callbacks, mutex, updVars, appVars,
                   stored, reused>>

-----------------------------------------------------------------------------
(* update, lines 76-101 *)
UpdateCall ==
    /\ upc = "idle"
    /\ upc' = "recv"
    /\ UNCHANGED <<tableVars, blockVars, mutex, raw, copied, appVars, stored, reused>>

UpdateReturn ==
    /\ upc = "recv" /\ upc' = "idle"
    /\ UNCHANGED <<tableVars, blockVars, mutex, raw, copied, appVars, stored, reused>>

(* lines 80-85: a frame nobody asked for is skipped *)
TakeFrame(f) ==
    /\ upc = "recv"
    /\ IF f.id \in DOMAIN messages
       THEN upc' = "lock" /\ raw' = f
       ELSE UNCHANGED <<upc, raw>>
    /\ UNCHANGED <<tableVars, blockVars, mutex, copied, appVars, stored, reused>>

(* mutant: the frame is written without waiting for the mutex *)
StoreWithoutLock ==
    /\ upc = "lock"
    /\ mutex' = "can"
    /\ upc' = IF Stored(raw.id) THEN "write" ELSE "unlock"
    /\ copied' = 0
    /\ UNCHANGED <<tableVars, blockVars, raw, appVars, stored, reused>>

(* line 91 *)
StoreLock ==
    /\ upc = "lock" /\ mutex = "free"
    /\ mutex' = "can"
    /\ upc' = IF Stored(raw.id) THEN "write" ELSE "unlock"
    /\ copied' = 0
    /\ UNCHANGED <<tableVars, blockVars, raw, appVars, stored, reused>>

(* line 93, one byte of the memcpy *)
StoreByte ==
    /\ upc = "write" /\ copied < WholeBytes(SlotHandle(raw.id))
    /\ mem' = [mem EXCEPT ![ByteOffset(SlotHandle(raw.id)) + copied] = Data(raw)[copied]]
    /\ copied' = copied + 1
    /\ UNCHANGED <<tableVars, bitSize, freed, mutex, upc, raw, appVars, stored, reused>>

(* mutant: the last byte is not copied *)
StoreDoneEarly ==
    /\ upc = "write" /\ copied = WholeBytes(SlotHandle(raw.id)) - 1
    /\ upc' = "unlock"
    /\ stored' = [stored EXCEPT ![raw.id] = raw]
    /\ UNCHANGED <<tableVars, blockVars, mutex, raw, copied, appVars, reused>>

StoreDone ==
    /\ upc = "write" /\ copied = WholeBytes(SlotHandle(raw.id))
    /\ upc' = "unlock"
    /\ stored' = [stored EXCEPT ![raw.id] = raw]
    /\ UNCHANGED <<tableVars, blockVars, mutex, raw, copied, appVars, reused>>

(* mutant: the mutex is kept *)
StoreKeepsLock ==
    /\ upc = "unlock" /\ upc' = "recv"
    /\ raw' = None /\ copied' = 0
    /\ UNCHANGED <<tableVars, blockVars, mutex, appVars, stored, reused>>

(* line 94; the callbacks are not called *)
StoreUnlock ==
    /\ upc = "unlock" /\ upc' = "recv"
    /\ mutex' = "free"
    /\ raw' = None /\ copied' = 0
    /\ UNCHANGED <<tableVars, blockVars, appVars, stored, reused>>

-----------------------------------------------------------------------------
(* sendMessage and getRawMessage, lines 71-74 and 144-159 *)
SendCall(id) ==
    /\ Senders /\ apc = "idle" /\ isInitialized /\ id \in DOMAIN messages
    /\ apc' = "lock" /\ msg' = id
    /\ tmp' = [k \in Slot |-> Zero] /\ got' = 0
    /\ UNCHANGED <<tableVars, blockVars, mutex, updVars, sent, seen, stored, reused>>

SendLock ==
    /\ apc = "lock" /\ mutex = "free"
    /\ mutex' = "app" /\ apc' = "read"
    /\ seen' = stored[msg]
    /\ UNCHANGED <<tableVars, blockVars, updVars, msg, tmp, got, sent, stored, reused>>

(* a read that does not fit returns at once and leaves tmp zero *)
BytesToRead ==
    IF Fits(BufferHandle(msg), bitSize) THEN WholeBytes(BufferHandle(msg)) ELSE 0

SendRead ==
    /\ apc = "read" /\ got < BytesToRead
    /\ tmp' = [tmp EXCEPT ![got] = mem[ByteOffset(BufferHandle(msg)) + got]]
    /\ got' = got + 1
    /\ UNCHANGED <<tableVars, blockVars, mutex, updVars, apc, msg, sent, seen, stored, reused>>

SendUnlock ==
    /\ apc = "read" /\ got = BytesToRead
    /\ mutex' = "free" /\ apc' = "transmit"
    /\ UNCHANGED <<tableVars, blockVars, updVars, msg, tmp, got, sent, seen, stored, reused>>

SendTransmit ==
    /\ apc = "transmit" /\ apc' = "idle"
    /\ sent' = [id |-> msg, data |-> tmp]
    /\ msg' = None /\ got' = 0 /\ seen' = None /\ tmp' = [k \in Slot |-> Zero]
    /\ UNCHANGED <<tableVars, blockVars, mutex, updVars, stored, reused>>

-----------------------------------------------------------------------------
(* The heap may hand out the deleted block; its new owner writes to it      *)
(* (bound: once, nothing is claimed of the contents from then on).          *)
ReuseBlock ==
    /\ HeapReuse /\ freed /\ ~reused
    /\ \E c \in DOMAIN mem : mem' = [mem EXCEPT ![c] = Junk]
    /\ reused' = TRUE
    /\ UNCHANGED <<tableVars, bitSize, freed, mutex, updVars, appVars, stored>>

Setup ==
    \/ \E id \in ID, length \in Lengths : AddMessage(id, length)
    \/ \E id \in CallbackID : RegisterCallback(id)
    \/ Initialize

Update ==
    \/ UpdateCall \/ UpdateReturn \/ \E f \in Frame : TakeFrame(f)
    \/ StoreLock \/ StoreByte \/ StoreDone \/ StoreUnlock

Send ==
    \/ \E id \in ID : SendCall(id)
    \/ SendLock \/ SendRead \/ SendUnlock \/ SendTransmit

(* the CAN task runs after setup(): Telemetry.tla *)
BusNext == Setup \/ (isInitialized /\ Update) \/ Send \/ ReuseBlock

BusSpec == BusInit /\ [][BusNext]_busVars
-----------------------------------------------------------------------------
(* Two messages never share a byte of the buffer, whatever was added, in    *)
(* what order, twice or late (lines 21-22, 50).  A message added after      *)
(* initialize has its place past the end, all of it, so its frames are      *)
(* refused and not squeezed into another one's (bit_buffer.cpp:27).        *)
SlotsApart ==
    /\ \A i, j \in DOMAIN messages : i # j => SlotCells(i) \cap SlotCells(j) = {}
    /\ isInitialized =>
         \A id \in DOMAIN messages :
           IF Stored(id) THEN SlotCells(id) \subseteq DOMAIN mem
                         ELSE SlotCells(id) \cap DOMAIN mem = {}

(* The buffer holds the last frame of every message (can.hpp:165-166): the  *)
(* bytes the frame had are the ones in its slot, and a slot no frame came   *)
(* for is zero.  While update() copies a frame its slot is in between.      *)
SlotHoldsLastFrame(id) ==
    \A k \in Slot :
      LET byte == mem[ByteOffset(SlotHandle(id)) + k]
      IN  IF stored[id] = None THEN byte = Zero
          ELSE k < stored[id].dlc => byte = stored[id].val

HoldsLastFrames ==
    isInitialized =>
      \A id \in DOMAIN messages :
        Stored(id) /\ ~(upc = "write" /\ raw.id = id) => SlotHoldsLastFrame(id)

(* ... as long as no other allocation writes to the block, which            *)
(* initialize() has deleted (can.cpp:67, bit_buffer.cpp:17-19).           *)
HoldsLastFramesUnlessReused == ~reused => HoldsLastFrames

(* sendMessage puts one frame together, never the bytes of two: what        *)
(* getRawMessage copied under the lock is the frame that was stored when it *)
(* got the lock (lines 151-156).                                            *)
SentIsOneFrame ==
    apc = "transmit" /\ ~reused =>
      \A k \in Slot :
        IF seen = None THEN tmp[k] = Zero
        ELSE k < messages[msg].length /\ k < seen.dlc => tmp[k] = seen.val

=============================================================================
