--------------------------- MODULE MCTelemBuilder ---------------------------
EXTENDS TelemBuilder, SequencesExt

Opt(name, n)         == <<Txt("!!"), Txt(name), Dec(n)>>
Board(name)          == <<Txt(">"), Txt(name)>>
Message(id, bytes)   == <<Txt(">>"), Txt(ToString(<<"M", id, bytes>>)), Hex(id), Dec(bytes)>>
SignalOf(type, first, length) ==
    <<Txt(">>>"), Txt(ToString(<<"S", first>>)), Txt(type), Dec(first), Dec(length), Real(2), Dec(0)>>
Signal(first, length) == SignalOf("uint8", first, length)

Lines ==
    {<<>>, <<Comment, Txt("words")>>,
     Opt("logPeriodMs", 50), Opt("logPeriodMs", 20), Opt("logPeriodMs", 0),
     Opt("wirelessPeriodMs", 100000), Opt("logPeriodMs", -1), Opt("unknown", 1),
     <<Txt("!!"), Txt("logPeriodMs")>>,
     Board("BMS"), Board("ECU") \o <<Txt("text"), Comment, Txt(">")>>, <<Txt(">")>>,
     Message(1, 1), Message(2047, 1) \o <<Comment, Dec(3)>>, Message(2048, 2),
     Message(2, 9), <<Txt(">>"), Txt("M"), Hex(3)>>,
     Signal(0, 8), SignalOf("int8", 8, 8) \o <<Txt("signed"), Txt("big"), Comment>>,
     SignalOf("int8", 8, 4), SignalOf("word", 12, 4), Signal(7, 4) \o <<Txt("big")>>,
     Signal(0, 4) \o <<Txt("big"), Txt("signed")>>, [Signal(8, 8) EXCEPT ![7] = Dec(-1)],
     Signal(-1, 8), Signal(9, 8), Signal(64, 8), Signal(7, 0),
     [Signal(0, 8) EXCEPT ![5] = Hex(8)], SubSeq(Signal(0, 8), 1, 6), <<Dec(7)>>,
     Opt("logPeriodMs", 50) \o Opt("logPeriodMs", 20)}

(* the ones that go on with a board; the last clashes with the signal at 0 *)
Body ==
    {<<Comment, Txt("words")>>, Board("BMS"), Message(1, 1), Message(2047, 1), Signal(0, 8),
     Signal(8, 8) \o <<Txt("signed"), Txt("big")>>, Signal(7, 4) \o <<Txt("big")>>,
     Signal(4, 2), [Signal(15, 1) EXCEPT ![2] = Signal(0, 8)[2]]}

(* an opening that leads somewhere, and everything after or before it *)
Opening == <<Board("ECU"), Message(1, 2)>>
Some ==
    {<<l>> \o Opening \o s : l \in Lines, s \in BoundedSeq(Lines, 1)}
      \cup {Opening \o s : s \in BoundedSeq(Lines, 2) \cup BoundedSeq(Body, 3)}
      \cup {s \o Opening \o <<Signal(0, 8)>> : s \in BoundedSeq(Lines, 2)}
      \cup {<<Board("ECU"), m>> \o s : m \in {Message(2, 9), Message(3, 1) \o <<Dec(4)>>},
                                     s \in BoundedSeq(Lines, 1)}
      \cup BoundedSeq(Lines, 1)

(* line after line, with or without a newline at the end *)
Symbols(file) == FlattenSeq([i \in DOMAIN file |-> Append(file[i], Newline)])
MCTexts ==
    {Symbols(f) : f \in Some}
      \cup {Front(Symbols(Opening \o s)) : s \in BoundedSeq(Body, 2)}

CommentLines ==
    {Symbols(f) : f \in {<<Board("ECU"), <<Comment>>, Message(1, 2), Signal(0, 8)>>} \cup BoundedSeq(Lines, 1)}

IntegerScale ==
    {Symbols(<<Board("ECU"), Message(id, 2), <<Txt(">>>"), Txt("S"), Txt("uint8"), Dec(0), Dec(8), Dec(2), Dec(1)>>>>) :
       id \in 1..10}
=============================================================================
