---------------------------- MODULE MCLoRaPacket ----------------------------
(* Two headers and payloads of none to six bytes.  Of the packet of the     *)
(* tests, <<1, 2, 3>> with type 0xAA and options 1, the sequence number     *)
(* 0x1655 is the one whose checksum is 0xA1A1, twice the end byte: without  *)
(* it nothing would ever be accepted.                                       *)
EXTENDS LoRaPacket
Bits(n) == {i \in 0..15 : (n \div 2^i) % 2 = 1}
Bytes(s) == [k \in 1..Len(s) |-> Bits(s[k])]
MCHeaders == {[msgType |-> Bits(\hAA), options |-> Bits(1), seqNum |-> Bits(\h1234)],
              [msgType |-> Bits(\hAA), options |-> Bits(1), seqNum |-> Bits(\h1655)]}
MCPieces  == {Bytes(<<1, 2, 3>>), Bytes(<<255>>), Bytes(<<1, 2, 3, 4>>)}
MCFlips   == {Bits(1), Bits(128), Bits(255)}
=============================================================================
