---------------------------- MODULE TelemBuilder ----------------------------
(***************************************************************************)
(* lib/can/builder/telem_builder.{hpp,cpp}: TelemBuilder::build, a descent *)
(* over the tokens of a configuration that adds each message to the bus as *)
(* soon as its lines are read.                                             *)
(*                                                                         *)
(* pc names the token that is looked at next.  Only the order in which     *)
(* std::sort leaves signals that start at one bit is a free choice.        *)
(***************************************************************************)
EXTENDS Tokenizer, TelemLanguage

CONSTANTS
    Texts,      \* configurations, each a sequence of words, comments and newlines
    Readers,    \* subset of {"sd", "mock"}
    UINT32      \* 2^32; TLC's integers end before it

ASSUME BuilderAssumption ==
    /\ Texts \subseteq Seq(Symbol)
    /\ UINT32 \in Nat \ {0} /\ Readers \subseteq {"sd", "mock"}

VARIABLES
    pc, result,
    opts, option,                  \* the options, the name of the current one
    sawBoard, hasMsg, messageIDSet,
    msgDesc, sigDesc,
    added       \* what CANBus::addMessage was called with

parseVars   == <<msgDesc, sigDesc>>
boardVars   == <<sawBoard, hasMsg, messageIDSet, added>>
optionVars  == <<opts, option>>
builderVars == <<sourceVars, pos, pc, result, optionVars, boardVars, parseVars>>

MAX_ID == 2047

fieldTypes ==
    [startBit |-> {"TT_INT"}, length |-> {"TT_INT"},
     factor |-> {"TT_FLOAT", "TT_INT"}, offset |-> {"TT_FLOAT", "TT_INT"}]

After == [startBit |-> "length", length |-> "factor", factor |-> "offset",
          offset |-> "signedness"]

(* d.floatValue: of an integer literal these are the bits of the integer *)
DoubleOf(w) ==
    [exact |-> w.form = "real" \/ w.n = 0, n |-> w.n]

FieldOf(field, w) ==
    IF field \in {"startBit", "length"} THEN w.n % 256 ELSE DoubleOf(w)

NewSignal ==
    [startBit |-> 0, length |-> 0, factor |-> DoubleOf(Dec(0)), offset |-> DoubleOf(Dec(0)),
     isSigned |-> FALSE, endianness |-> "little"]

NewMessage == [id |-> 0, length |-> 0, signals |-> <<>>]

Points ==
    {"start", "options", "optionName", "optionValue", "boards", "boardName", "messages",
     "messageName", "messageId", "messageLength", "signals", "signalName", "dataType",
     "signedness", "endianness", "add", "end", "done"} \cup DOMAIN fieldTypes

DoubleType == [exact : BOOLEAN, n : Int]

SignalType ==
    [startBit : 0..255, length : 0..255, factor : DoubleType, offset : DoubleType,
     isSigned : BOOLEAN, endianness : {"little", "big"}]

MessageType == [id : 0..(UINT32 - 1), length : 0..255, signals : Seq(SignalType)]

TypeOK ==
    /\ text \in Seq(Symbol) /\ pos \in 0..Len(text) /\ readable \in BOOLEAN /\ reader \in Readers
    /\ pc \in Points /\ result \in {"none", "ok", "error"}
    /\ opts \in [{"logPeriodMs", "wirelessPeriodMs"} -> 0..(UINT16 - 1)]
    /\ sawBoard \in BOOLEAN /\ hasMsg \in BOOLEAN
    /\ messageIDSet \subseteq 0..MAX_ID
    /\ sigDesc \in SignalType /\ msgDesc \in MessageType
    /\ added \in Seq(MessageType)

Init ==
    /\ text \in Texts /\ reader \in Readers /\ readable \in BOOLEAN
    /\ Reading
    /\ pc = "start" /\ result = "none"
    /\ opts = [o \in {"logPeriodMs", "wirelessPeriodMs"} |-> 100] /\ option = "none"
    /\ sawBoard = FALSE /\ hasMsg = FALSE /\ messageIDSet = {}
    /\ msgDesc = NewMessage /\ sigDesc = NewSignal /\ added = <<>>

-----------------------------------------------------------------------------
Goto(point) == pc' = point /\ UNCHANGED result
Refuse      == pc' = "end" /\ result' = "error"

At(point) == pc = point /\ ~AtComment

(* next(): the word is read whatever it is *)
Consume == pos' = Moved /\ UNCHANGED sourceVars
Stay    == UNCHANGED <<sourceVars, pos>>

(* a word that has to be there and is otherwise not used *)
Expect(type, point) == IF Peek = type THEN Goto(point) ELSE Refuse

(* Tokenizer::start of both readers succeeds *)
Start ==
    /\ pc = "start" /\ Goto("options")
    /\ Stay /\ UNCHANGED <<optionVars, boardVars, parseVars>>

(* every peek and next skips comments first *)
SkipComment ==
    /\ pc \notin {"start", "add", "end", "done"}
    /\ EatComment
    /\ UNCHANGED <<pc, result, optionVars, boardVars, parseVars>>

(* lines 63-76 *)
Options ==
    /\ At("options")
    /\ IF Peek = "TT_OPTION_PREFIX"
       THEN Consume /\ Goto("optionName") /\ UNCHANGED messageIDSet
       ELSE Stay /\ Goto("boards") /\ messageIDSet' = {}
    /\ UNCHANGED <<optionVars, sawBoard, hasMsg, added, parseVars>>

(* lines 112-117: both words are read before either is looked at *)
OptionName ==
    /\ At("optionName") /\ Consume /\ Goto("optionValue")
    /\ option' = IF Peek = "TT_IDENTIFIER" THEN Word.s ELSE "none"
    /\ UNCHANGED <<opts, boardVars, parseVars>>

(* mutant: the value is not cut to the width of its field *)
OptionValueWide ==
    /\ At("optionValue") /\ Consume
    /\ IF Peek = "TT_INT" /\ option \in DOMAIN opts
       THEN opts' = [opts EXCEPT ![option] = Word.n] /\ Goto("options")
       ELSE Refuse /\ UNCHANGED opts
    /\ UNCHANGED <<option, boardVars, parseVars>>

(* mutant: an option that is set already keeps its value *)
OptionValueFirst ==
    /\ At("optionValue") /\ Consume
    /\ IF Peek = "TT_INT" /\ option \in DOMAIN opts
       THEN /\ opts' = [opts EXCEPT ![option] = IF @ = 100 THEN Word.n % UINT16 ELSE @]
            /\ Goto("options")
       ELSE Refuse /\ UNCHANGED opts
    /\ UNCHANGED <<option, boardVars, parseVars>>

OptionValue ==
    /\ At("optionValue") /\ Consume
    /\ IF Peek = "TT_INT" /\ option \in DOMAIN opts
       THEN opts' = [opts EXCEPT ![option] = Word.n % UINT16] /\ Goto("options")
       ELSE Refuse /\ UNCHANGED opts
    /\ UNCHANGED <<option, boardVars, parseVars>>

(* mutant: what does not start a board may still be a message of the last one *)
BoardsOrMessages ==
    /\ At("boards")
    /\ \/ /\ Peek = "TT_BOARD_PREFIX" /\ Consume
          /\ sawBoard' = TRUE /\ hasMsg' = FALSE /\ Goto("boardName")
       \/ /\ Peek = "none" /\ Stay
          /\ pc' = "end" /\ result' = IF sawBoard THEN "ok" ELSE "error"
          /\ UNCHANGED <<sawBoard, hasMsg>>
       \/ /\ Peek \notin {"TT_BOARD_PREFIX", "none"} /\ Stay
          /\ Goto("messages") /\ UNCHANGED <<sawBoard, hasMsg>>
    /\ UNCHANGED <<optionVars, messageIDSet, added, parseVars>>

(* lines 79-107 *)
Boards ==
    /\ At("boards")
    /\ \/ /\ Peek = "TT_BOARD_PREFIX" /\ Consume
          /\ sawBoard' = TRUE /\ hasMsg' = FALSE /\ Goto("boardName")
       \/ /\ Peek = "none" /\ Stay
          /\ pc' = "end" /\ result' = IF sawBoard THEN "ok" ELSE "error"
          /\ UNCHANGED <<sawBoard, hasMsg>>
       \/ /\ Peek \notin {"TT_BOARD_PREFIX", "none"} /\ Stay
          /\ Refuse /\ UNCHANGED <<sawBoard, hasMsg>>
    /\ UNCHANGED <<optionVars, messageIDSet, added, parseVars>>

(* next() and eatUntil, as after the length of a message *)
ConsumeLine ==
    /\ pos' = IF pc' = "end" THEN Moved ELSE Eaten(Moved)
    /\ UNCHANGED sourceVars

BoardName ==
    /\ At("boardName") /\ Expect("TT_IDENTIFIER", "messages") /\ ConsumeLine
    /\ UNCHANGED <<optionVars, boardVars, parseVars>>

(* mutant: the signals of the message before are not cleared *)
MessagesUncleared ==
    /\ At("messages")
    /\ IF Peek = "TT_MESSAGE_PREFIX"
       THEN Consume /\ hasMsg' = TRUE /\ Goto("messageName") /\ UNCHANGED msgDesc
       ELSE /\ Stay /\ UNCHANGED <<hasMsg, msgDesc>>
            /\ IF hasMsg THEN Goto("boards") ELSE Refuse
    /\ UNCHANGED <<optionVars, sawBoard, messageIDSet, added, sigDesc>>

(* lines 153-160, 181-184 *)
Messages ==
    /\ At("messages")
    /\ IF Peek = "TT_MESSAGE_PREFIX"
       THEN Consume /\ hasMsg' = TRUE /\ msgDesc' = NewMessage /\ Goto("messageName")
       ELSE /\ Stay /\ UNCHANGED <<hasMsg, msgDesc>>
            /\ IF hasMsg THEN Goto("boards") ELSE Refuse
    /\ UNCHANGED <<optionVars, sawBoard, messageIDSet, added, sigDesc>>

MessageName ==
    /\ At("messageName") /\ Consume /\ Expect("TT_IDENTIFIER", "messageId")
    /\ UNCHANGED <<optionVars, boardVars, parseVars>>

MessageId ==
    /\ At("messageId") /\ Consume
    /\ IF Peek = "TT_HEX_INT"
       THEN Goto("messageLength") /\ msgDesc' = [msgDesc EXCEPT !.id = Word.n % UINT32]
       ELSE Refuse /\ UNCHANGED msgDesc
    /\ UNCHANGED <<optionVars, boardVars, sigDesc>>

MessageLength ==
    /\ At("messageLength")
    /\ IF Peek = "TT_INT"
       THEN Goto("signals") /\ msgDesc' = [msgDesc EXCEPT !.length = Word.n % 256]
       ELSE Refuse /\ UNCHANGED msgDesc
    /\ ConsumeLine
    /\ UNCHANGED <<optionVars, boardVars, sigDesc>>

(* lines 225-232, 248-251 *)
Signals ==
    /\ At("signals")
    /\ IF Peek = "TT_SIGNAL_PREFIX"
       THEN Consume /\ sigDesc' = NewSignal /\ Goto("signalName")
       ELSE /\ Stay /\ UNCHANGED sigDesc
            /\ IF msgDesc.signals # <<>> THEN Goto("add") ELSE Refuse
    /\ UNCHANGED <<optionVars, boardVars, msgDesc>>

SignalName ==
    /\ At("signalName") /\ Consume /\ Expect("TT_IDENTIFIER", "dataType")
    /\ UNCHANGED <<optionVars, boardVars, parseVars>>

DataType ==
    /\ At("dataType") /\ Consume /\ Expect("TT_IDENTIFIER", "startBit")
    /\ UNCHANGED <<optionVars, boardVars, parseVars>>

SignalField ==
    /\ pc \in DOMAIN fieldTypes /\ At(pc) /\ Consume
    /\ IF Peek \in fieldTypes[pc]
       THEN Goto(After[pc]) /\ sigDesc' = [sigDesc EXCEPT ![pc] = FieldOf(pc, Word)]
       ELSE Refuse /\ UNCHANGED sigDesc
    /\ UNCHANGED <<optionVars, boardVars, msgDesc>>

PeekKeyword(keywords) == Peek = "TT_IDENTIFIER" /\ Word.s \in keywords

Signedness ==
    /\ At("signedness") /\ Goto("endianness")
    /\ IF PeekKeyword({"signed", "unsigned"})
       THEN Consume /\ sigDesc' = [sigDesc EXCEPT !.isSigned = (Word.s = "signed")]
       ELSE Stay /\ UNCHANGED sigDesc
    /\ UNCHANGED <<optionVars, boardVars, msgDesc>>

(* _validateSignal: the sum is a size_t and does not wrap *)
ValidateSignal(sig) == sig.startBit + sig.length <= 8 * msgDesc.length

(* the last override, then the signal is complete, lines 296-306, 240-245 *)
EndianSignal ==
    /\ At("endianness")
    /\ IF PeekKeyword({"big", "little"})
       THEN Consume /\ sigDesc' = [sigDesc EXCEPT !.endianness = Word.s]
       ELSE Stay /\ UNCHANGED sigDesc
    /\ IF ValidateSignal(sigDesc')
       THEN /\ Goto("signals")
            /\ msgDesc' = [msgDesc EXCEPT !.signals = Append(@, sigDesc')]
       ELSE Refuse /\ UNCHANGED msgDesc
    /\ UNCHANGED <<optionVars, boardVars>>

(* the orders std::sort may leave the signals in *)
Sorted(signals) ==
    {[k \in DOMAIN signals |-> signals[p[k]]] :
       p \in {q \in Bijection(DOMAIN signals, DOMAIN signals) :
                \A k \in 1..(Len(signals) - 1) :
                  signals[q[k]].startBit <= signals[q[k + 1]].startBit}}

(* mutant: a signal that starts at the last bit of another one passes *)
NoOverlapOffByOne(sorted) ==
    LET topBit(k) == (sorted[k].startBit + sorted[k].length) % 256
    IN  /\ \A k \in 2..Len(sorted) : sorted[k].startBit + 1 >= topBit(k - 1)
        /\ topBit(Len(sorted)) <= 64

(* lines 331-342; topBit is eight bits wide *)
NoOverlap(sorted) ==
    LET topBit(k) == (sorted[k].startBit + sorted[k].length) % 256
    IN  /\ \A k \in 2..Len(sorted) : sorted[k].startBit >= topBit(k - 1)
        /\ topBit(Len(sorted)) <= 64

(* lines 168-178: the bus has the message before its id is looked for *)
AddMessage ==
    /\ pc = "add" /\ Stay
    /\ \E sorted \in Sorted(msgDesc.signals) :
         IF msgDesc.id <= MAX_ID /\ NoOverlap(sorted)
         THEN /\ added' = Append(added, msgDesc)
              /\ messageIDSet' = messageIDSet \cup {msgDesc.id}
              /\ IF msgDesc.id \in messageIDSet THEN Refuse ELSE Goto("messages")
         ELSE Refuse /\ UNCHANGED <<added, messageIDSet>>
    /\ UNCHANGED <<optionVars, sawBoard, hasMsg, parseVars>>

End ==
    /\ pc = "end" /\ pc' = "done"
    /\ EndReading
    /\ UNCHANGED <<result, optionVars, boardVars, parseVars>>

Next ==
    \/ Start \/ SkipComment \/ Options \/ OptionName \/ OptionValue
    \/ Boards \/ BoardName \/ Messages \/ MessageName \/ MessageId \/ MessageLength
    \/ Signals \/ SignalName \/ DataType \/ SignalField \/ Signedness \/ EndianSignal
    \/ AddMessage \/ End

(* setup() does nothing else until build() returns *)
Spec == Init /\ [][Next]_builderVars /\ WF_builderVars(Next)
-----------------------------------------------------------------------------
(* build() knows words and no lines, and yet it takes a configuration just  *)
(* when it is valid in the language of language_spec.md, but for what       *)
(* RefusesMore and TakenAnyway list: the prefix tokens alone keep it from   *)
(* running over the end of a line, and the sort finds every overlap.        *)
(* Said of files with prefixes where lines start, of literals that fit      *)
(* their fields, of signals of one bit or more and of messages below 32     *)
(* bytes, where topBit cannot wrap (telem_builder.cpp:55-107, 318-345).     *)
AgreesWithLanguage ==
    pc = "done" /\ InScope(text, UINT32) =>
      /\ result = "ok" => readable /\ ValidButFor(text) /\ ~RefusesMore(text)
      /\ readable /\ Valid(text) /\ ~RefusesMore(text) => result = "ok"

(* What reaches the bus is what the file says, message by message and in    *)
(* its order, also when the build fails later on (telem_builder.hpp:57-58). *)
(* A scale written as an integer is not looked at, nor is a message with a  *)
(* broken line: one with words too many at the end of its last signal is    *)
(* on the bus before they are found.                                        *)
AddedAsDescribed ==
    InScope(text, UINT32) =>
      LET heads == Heads(text)
      IN  /\ Len(added) <= Cardinality(heads)
          /\ result = "ok" => Len(added) = Cardinality(heads)
          /\ \A h \in heads :
               Rank(h, heads) <= Len(added) /\ Whole(text, h) =>
                 Describes(text, h, added[Rank(h, heads)])

(* ... and then the last line for an option decides (language_spec.md:59),  *)
(* 100 ms when there is none (telem_builder.hpp:19-20).                     *)
LastOptionCounts ==
    result = "ok" /\ InScope(text, UINT32) =>
      \A o \in DOMAIN opts :
        LET lines == {h \in OptionLines(text) : Statement(text, h)[2] = Txt(o)}
        IN  opts[o] = IF lines = {} THEN 100 ELSE Statement(text, Max(lines))[3].n

(* The firmware's build always ends, whatever comments and blank lines the  *)
(* file has: each turn of the loop in peek gets past a newline.             *)
BuildEndsOnCard == (reader = "sd") ~> (pc = "done")

(* A bound on the turns build() has left: eight for each symbol it has not  *)
(* read yet, and those from one point of the descent to the next without a  *)
(* word being read.                                                         *)
TurnsInPlace ==
    [p \in Points |->
       CASE p = "done" -> 0 [] p = "end" -> 1 [] p = "boards" -> 2 [] p = "messages" -> 3
         [] p = "add" -> 4 [] p = "signals" -> 5 [] p = "endianness" -> 6
         [] p = "signedness" -> 7 [] p = "options" -> 3 [] p = "optionName" -> 3
         [] p = "start" -> 4 [] OTHER -> 2]

TurnsLeft == 8 * (Len(text) - pos) + TurnsInPlace[pc]

(* ... and why it ends: of the loops in build(), in the lists of options,   *)
(* boards, messages and signals and in peek (telem_builder.cpp:63-107,      *)
(* 153-184, 225-251, tokenizer.cpp:63-70), none comes round without having  *)
(* read a word or a line, so that every step takes away from the bound, and *)
(* the firmware's reader never stays where a comment is.                    *)
EveryTurnGetsOn ==
    /\ [](reader = "sd" /\ AtComment => pos # Eaten(pos))
    /\ [][TurnsLeft' \in 0..(TurnsLeft - 1)]_builderVars

(* A comment is ignored and blank lines may appear anywhere                 *)
(* (language_spec.md:39-40), so build() comes to an end.                    *)
BuildEnds == <>(pc = "done")

(* A signal has the factor its line has: test_telem_builder.cpp:58, 81      *)
(* writes 2 and expects 2.0.                                                *)
FactorAsWritten ==
    InScope(text, UINT32) =>
      LET heads == Heads(text)
      IN  \A h \in heads :
            Rank(h, heads) <= Len(added) => ScaleExact(text, h, added[Rank(h, heads)])
=============================================================================
