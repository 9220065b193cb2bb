----------------------------- MODULE LoRaPacket -----------------------------
(***************************************************************************)
(* lib/common/message.{hpp,cpp}: a packet object that is filled and        *)
(* serialized, the bytes on the air, and the object at the other end that  *)
(* deserializes them.  The air may change the bytes or cut them short.  No *)
(* firmware code sends packets yet; the tests do what is modelled here.    *)
(*                                                                         *)
(* A byte or a word is the set of the bits that are set in it.             *)
(***************************************************************************)
EXTENDS Integers, Sequences

CONSTANTS
    Headers,       \* what the setters may be given: [msgType, options, seqNum]
    Pieces,        \* what setPayload may be given
    MAX_PAYLOAD,   \* 248
    MaxPieces,     \* bound: calls of setPayload
    Flips          \* bit patterns that noise can flip in a byte

Byte == SUBSET (0..7)
Word == SUBSET (0..15)

Xor(a, b) == (a \ b) \cup (b \ a)
HighByte(w) == {i - 8 : i \in w \cap 8..15}
LowByte(w)  == w \cap 0..7
Word16(hi, lo) == {i + 8 : i \in hi} \cup lo

END_BYTE == {0, 5, 7}         \* 0xA1
Polynomial == {0, 13, 15}     \* 0xA001

ASSUME PacketAssumption ==
    /\ Headers \subseteq [msgType : Byte, options : Byte, seqNum : Word]
    /\ \A p \in Pieces : p \in Seq(Byte)
    /\ MAX_PAYLOAD \in Nat /\ MaxPieces \in Nat
    /\ Flips \subseteq Byte \ {{}}

VARIABLES
    packet,   \* the object that is sent
    peer,     \* the object that receives
    wire,     \* bytes on the air
    raised,   \* whether the last setPayload or deserialize threw
    pieces    \* history: calls of setPayload

vars == <<packet, peer, wire, raised, pieces>>

Packet == [msgType : Byte, options : Byte, seqNum : Word,
           payloadSize : Nat, payload : Seq(Byte)]
Empty == [msgType |-> {}, options |-> {}, seqNum |-> {}, payloadSize |-> 0, payload |-> <<>>]

TypeOK ==
    /\ packet \in Packet /\ peer \in Packet
    /\ packet.payloadSize = Len(packet.payload)
    /\ wire \in Seq(Byte)
    /\ raised \in BOOLEAN /\ pieces \in 0..MaxPieces

-----------------------------------------------------------------------------
Halved(w) == {i - 1 : i \in w \ {0}}

(* mutant: the bit that falls out is ignored *)
CrcShiftOnly(crc) == Halved(crc)

(* lines 67-72 *)
CrcShift(crc) == IF 0 \in crc THEN Xor(Halved(crc), Polynomial) ELSE Halved(crc)

(* lines 67-73: the register after the eight shifts for a byte *)
Shifted(crc) ==
    LET reg[j \in 0..8] == IF j = 0 THEN crc ELSE CrcShift(reg[j - 1])
    IN  reg[8]

(* lines 65-73: the register after a byte; a function, so that TLC has the *)
(* register of one byte before it turns to the next                        *)
CrcByte(crc, byte) ==
    LET after == [w \in Word |-> Shifted(w)]
    IN  after[Xor(crc, byte)]

(* computeCRC: the register after k bytes *)
Crc(bytes) ==
    LET reg[k \in 0..Len(bytes)] ==
          IF k = 0 THEN 0..15 ELSE CrcByte(reg[k - 1], bytes[k])
    IN  reg[Len(bytes)]

Bytes16(w) == <<HighByte(w), LowByte(w)>>

(* serialize *)
Body(p) == p.payload \o <<p.options, p.msgType>> \o Bytes16(p.seqNum)
Serialized(p) == Body(p) \o Bytes16(Crc(Body(p))) \o <<END_BYTE>>

(* what the checksum of raw is over, line 27 *)
Summed(raw) == SubSeq(raw, 1, Len(raw) - 3)

(* byte raw[size - k] *)
FromEnd(raw, k) == raw[Len(raw) - k + 1]

(* validatePacket *)
ValidatePacket(raw) ==
    /\ Len(raw) >= 8
    /\ FromEnd(raw, 1) = END_BYTE
    /\ Crc(Summed(raw)) = Word16(FromEnd(raw, 2), FromEnd(raw, 1))

(* lines 36-43, the payload added to what the object has *)
Deserialized(p, raw) ==
    [msgType |-> FromEnd(raw, 6), options |-> FromEnd(raw, 7),
     seqNum |-> Word16(FromEnd(raw, 4), FromEnd(raw, 3)),
     payloadSize |-> Len(raw) - 8,
     payload |-> p.payload \o SubSeq(raw, 1, Len(raw) - 8)]

-----------------------------------------------------------------------------
Init ==
    /\ packet = Empty /\ peer = Empty
    /\ wire = <<>> /\ raised = FALSE /\ pieces = 0

SetHeader ==
    /\ wire = <<>>
    /\ \E h \in Headers : packet' = [packet EXCEPT
         !.msgType = h.msgType, !.options = h.options, !.seqNum = h.seqNum]
    /\ UNCHANGED <<peer, wire, raised, pieces>>

(* mutant: the size is set to that of the piece *)
SetPayloadSizeOfPiece ==
    /\ wire = <<>> /\ pieces < MaxPieces /\ pieces' = pieces + 1
    /\ \E p \in Pieces :
         /\ raised' = (Len(p) > MAX_PAYLOAD)
         /\ packet' = IF raised' THEN packet
                      ELSE [packet EXCEPT !.payload = @ \o p, !.payloadSize = Len(p)]
    /\ UNCHANGED <<peer, wire>>

(* only the piece is checked, not what it adds up to *)
SetPayload ==
    /\ wire = <<>> /\ pieces < MaxPieces /\ pieces' = pieces + 1
    /\ \E p \in Pieces :
         /\ raised' = (Len(p) > MAX_PAYLOAD)
         /\ packet' = IF raised' THEN packet
                      ELSE [packet EXCEPT !.payload = @ \o p, !.payloadSize = @ + Len(p)]
    /\ UNCHANGED <<peer, wire>>

(* bound: one packet is sent *)
Serialize ==
    /\ wire = <<>> /\ wire' = Serialized(packet)
    /\ UNCHANGED <<packet, peer, raised, pieces>>

(* noise hits one byte or two neighbours *)
Noise ==
    /\ wire = Serialized(packet)
    /\ \E i \in 1..Len(wire), f \in Flips, g \in Flips \cup {{}} :
         wire' = [k \in 1..Len(wire) |->
                    Xor(wire[k], IF k = i THEN f ELSE IF k = i + 1 THEN g ELSE {})]
    /\ UNCHANGED <<packet, peer, raised, pieces>>

CutShort ==
    /\ wire = Serialized(packet)
    /\ \E n \in 0..(Len(wire) - 1) : wire' = SubSeq(wire, 1, n)
    /\ UNCHANGED <<packet, peer, raised, pieces>>

(* mutant: the fields are set before the packet is looked at *)
DeserializeFirst ==
    /\ wire # <<>> /\ peer = Empty
    /\ raised' = ~ValidatePacket(wire)
    /\ peer' = IF Len(wire) >= 8 THEN Deserialized(peer, wire) ELSE peer
    /\ UNCHANGED <<packet, wire, pieces>>

(* deserialize, into a fresh object as in the tests *)
Deserialize ==
    /\ wire # <<>> /\ peer = Empty
    /\ raised' = ~ValidatePacket(wire)
    /\ peer' = IF raised' THEN peer ELSE Deserialized(peer, wire)
    /\ UNCHANGED <<packet, wire, pieces>>

Next ==
    \/ SetHeader \/ SetPayload \/ Serialize \/ Noise \/ CutShort \/ Deserialize

Spec == Init /\ [][Next]_vars
-----------------------------------------------------------------------------
(* The checksum of computeCRC tells a packet from the one that was sent     *)
(* when noise hit a byte of it or two neighbours (lines 62-76).             *)
CrcDetectsNoise ==
    Len(wire) = Len(Serialized(packet)) /\ Summed(wire) # Body(packet)
      => Crc(Summed(wire)) # Crc(Body(packet))

(* deserialize throws before it changes anything; when it does not, and the *)
(* packet came undisturbed, type and options are the ones that were sent    *)
(* (lines 33-39).                                                           *)
AcceptedAsSent ==
    [][peer' # peer =>
         /\ ~raised'
         /\ wire = Serialized(packet) =>
              peer'.msgType = packet.msgType /\ peer'.options = packet.options]_vars

(* A packet with a payload that is serialized and not disturbed is valid    *)
(* (test_message.cpp:32-37).                                                *)
SerializedIsValid ==
    wire = Serialized(packet) /\ packet.payload # <<>> => ValidatePacket(wire)
=============================================================================
