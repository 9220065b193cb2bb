----------------------------- MODULE BitBuffer -----------------------------
(***************************************************************************)
(* lib/common/bit_buffer.{hpp,cpp}: where BitBuffer::write and ::read put  *)
(* the bits of a value.  The block is allocated with Hack bytes in front   *)
(* of the ones the handles speak of; addresses here count from its start.  *)
(***************************************************************************)
EXTENDS Naturals

CONSTANT Hack            \* __offsetHack, 48 bytes

ASSUME HackAssumption == Hack \in Nat

Handle == [size : Nat, offset : Nat]     \* both in bits

ByteSize(bits)   == (bits + 7) \div 8
BlockBytes(bits) == ByteSize(bits) + Hack

Fits(h, bits) == h.offset + h.size <= bits

(* byteOffset, bit_buffer.cpp:32-33 *)
ByteOffset(h) == h.offset \div 8 + Hack

(* what the memcpy of lines 44-49 moves, 0 when it is skipped *)
WholeBytes(h) == IF h.offset % 8 = 0 THEN h.size \div 8 ELSE 0

(* The bit of the block that bit i of the value goes to.  The bit loop adds *)
(* byteOffset to a pointer that was already advanced by it, and leaves out  *)
(* the offset within the byte (lines 52-58, 91-97).                     *)
Cell(h, i) ==
    IF i < 8 * WholeBytes(h)
    THEN 8 * ByteOffset(h) + i
    ELSE 8 * (2 * ByteOffset(h) + (i \div 8)) + (i % 8)

(* where a buffer of bits would put it *)
IntendedCell(h, i) == 8 * Hack + h.offset + i
=============================================================================
