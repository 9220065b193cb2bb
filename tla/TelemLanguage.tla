--------------------------- MODULE TelemLanguage ---------------------------
(***************************************************************************)
(* The language of configurations as lib/can/builder/language_spec.md has  *)
(* it, line by line and without a parser: the reference the builder is     *)
(* compared with; and the lines build() has other rules for.  A statement  *)
(* is a line without its comment; lines of nothing else have none.  It is  *)
(* named by the position of its first word.                                *)
(***************************************************************************)
EXTENDS TelemWords

Statements(text) ==
    {h \in DOMAIN text : /\ text[h] \notin {Comment, Newline}
                         /\ h = 1 \/ text[h - 1] = Newline}

(* the words of the line from h on *)
EndOf(text, h) ==
    Min({i \in h..(Len(text) + 1) : i \in DOMAIN text => text[i] \in {Comment, Newline}})

Statement(text, h) == SubSeq(text, h, EndOf(text, h) - 1)

Kind(text, h) == InterpWord(text[h])

LinePrefixes == {"TT_OPTION_PREFIX", "TT_BOARD_PREFIX", "TT_MESSAGE_PREFIX", "TT_SIGNAL_PREFIX"}

IsName(w)    == InterpWord(w) = "TT_IDENTIFIER"
IsNumeric(w) == w.form \in {"dec", "real"}

(* the words behind the seventh of a signal *)
Overrides(s) == SubSeq(s, 8, Len(s))

LegalOverrides ==
    {<<>>} \cup {<<Txt(e)>> : e \in {"big", "little", "signed", "unsigned"}}
           \cup {<<Txt(s), Txt(e)>> : s \in {"signed", "unsigned"}, e \in {"big", "little"}}

(* a line as build() wants it: integers are decimal, and behind a board's   *)
(* name and a message's size anything goes                                  *)
Complete(s) ==
    \/ /\ InterpWord(s[1]) = "TT_OPTION_PREFIX"
       /\ Len(s) = 3 /\ IsName(s[2]) /\ s[3].form = "dec"
    \/ /\ InterpWord(s[1]) = "TT_BOARD_PREFIX"
       /\ Len(s) >= 2 /\ IsName(s[2])
    \/ /\ InterpWord(s[1]) = "TT_MESSAGE_PREFIX"
       /\ Len(s) >= 4 /\ IsName(s[2]) /\ s[3].form = "hex" /\ s[4].form = "dec"
    \/ /\ InterpWord(s[1]) = "TT_SIGNAL_PREFIX"
       /\ Len(s) >= 7 /\ IsName(s[2]) /\ IsName(s[3])
       /\ s[4].form = "dec" /\ s[5].form = "dec"
       /\ IsNumeric(s[6]) /\ IsNumeric(s[7])
       /\ Overrides(s) \in LegalOverrides

KindBefore(text, h) ==
    LET earlier == {g \in Statements(text) : g < h}
    IN  IF earlier = {} THEN "none" ELSE Kind(text, Max(earlier))

(* the lines of the messages, and the signals that follow one *)
Heads(text) == {h \in Statements(text) : Kind(text, h) = "TT_MESSAGE_PREFIX"}

SignalLines(text, head) ==
    {k \in Statements(text) :
       /\ k > head
       /\ \A j \in Statements(text) : j \in (head + 1)..k => Kind(text, j) = "TT_SIGNAL_PREFIX"}

(* the lines of a message and its signals are whole *)
Whole(text, head) ==
    \A k \in {head} \cup SignalLines(text, head) : Complete(Statement(text, k))

Bits(s) == {s[4].n + i : i \in 0..(s[5].n - 1)}

OptionLines(text) == {h \in Statements(text) : Kind(text, h) = "TT_OPTION_PREFIX"}

-----------------------------------------------------------------------------
(* The language of language_spec.md.  Words that are not literals or        *)
(* prefixes count as identifiers, whatever their characters.                *)
OptionNames == {"logPeriodMs", "wirelessPeriodMs"}

Unsigned  == {Txt(t) : t \in {"uint8", "uint16", "uint32", "uint64"}}
Signed    == {Txt(t) : t \in {"int8", "int16", "int32", "int64"}}
DataTypes == Unsigned \cup Signed \cup {Txt(t) : t \in {"float", "double", "bool"}}

IsInteger(w) == w.form \in {"dec", "hex"}

(* sections 4 to 7 and the grammar, :130-136, for one line *)
Legal(s) ==
    \/ /\ InterpWord(s[1]) = "TT_OPTION_PREFIX"
       /\ Len(s) = 3 /\ IsName(s[2]) /\ (IsNumeric(s[3]) \/ IsInteger(s[3]))
       /\ s[2].s \in OptionNames => IsInteger(s[3]) /\ s[3].n > 0
    \/ /\ InterpWord(s[1]) = "TT_BOARD_PREFIX"
       /\ Len(s) >= 2 /\ IsName(s[2])
    \/ /\ InterpWord(s[1]) = "TT_MESSAGE_PREFIX"
       /\ Len(s) = 4 /\ IsName(s[2])
       /\ s[3].form = "hex" /\ s[3].n <= 2047
       /\ IsInteger(s[4]) /\ s[4].n \in 0..64
    \/ /\ InterpWord(s[1]) = "TT_SIGNAL_PREFIX"
       /\ Len(s) >= 7 /\ IsName(s[2]) /\ s[3] \in DataTypes
       /\ IsInteger(s[4]) /\ IsInteger(s[5]) /\ s[5].n \in 1..64
       /\ IsNumeric(s[6]) /\ IsNumeric(s[7])
       /\ Overrides(s) \in LegalOverrides

(* :129-136: boards of messages of signals, one at least of each; options   *)
(* before and between boards; "none" is the start of the file               *)
MayComeAfter ==
    LET between == {"none", "TT_OPTION_PREFIX", "TT_SIGNAL_PREFIX"}
    IN  [kind \in LinePrefixes |->
           CASE kind \in {"TT_OPTION_PREFIX", "TT_BOARD_PREFIX"} -> between
             [] kind = "TT_MESSAGE_PREFIX" -> {"TT_BOARD_PREFIX", "TT_SIGNAL_PREFIX"}
             [] kind = "TT_SIGNAL_PREFIX"  -> {"TT_MESSAGE_PREFIX", "TT_SIGNAL_PREFIX"}]

Hierarchy(text) ==
    /\ KindBefore(text, Len(text) + 1) \in MayComeAfter["TT_BOARD_PREFIX"]
    /\ \A h \in Statements(text) : KindBefore(text, h) \in MayComeAfter[Kind(text, h)]

(* :115-116 *)
FitsAndApart(text, head) ==
    LET s(k) == Statement(text, k)
    IN  /\ \A k \in SignalLines(text, head) : Bits(s(k)) \subseteq 0..(8 * s(head)[4].n - 1)
        /\ \A j, k \in SignalLines(text, head) : j # k => Bits(s(j)) \cap Bits(s(k)) = {}

(* :70, :83, :99, :118: the kinds of lines a name is unique within *)
Scopes ==
    [kind \in LinePrefixes \ {"TT_OPTION_PREFIX"} |->
       CASE kind = "TT_BOARD_PREFIX"   -> {}
         [] kind = "TT_MESSAGE_PREFIX" -> {"TT_BOARD_PREFIX"}
         [] kind = "TT_SIGNAL_PREFIX"  -> {"TT_BOARD_PREFIX", "TT_MESSAGE_PREFIX"}]

SameScope(text, g, h) ==
    /\ Kind(text, g) = Kind(text, h) /\ Kind(text, h) \in DOMAIN Scopes
    /\ \A k \in Statements(text) : g < k /\ k < h => Kind(text, k) \notin Scopes[Kind(text, h)]

NamesDiffer(text) ==
    \A g, h \in Statements(text) :
      g < h /\ SameScope(text, g, h) => Statement(text, g)[2] # Statement(text, h)[2]

(* the one rule from elsewhere, test_telem_builder.cpp:142-155; the ids of all *)
(* boards share one bus                                                        *)
IdsDiffer(text) ==
    \A g, h \in Heads(text) : g # h => Statement(text, g)[3] # Statement(text, h)[3]

Consistent(text) ==
    /\ Hierarchy(text) /\ IdsDiffer(text)
    /\ \A h \in Heads(text) : FitsAndApart(text, h)

Valid(text) ==
    /\ \A h \in Statements(text) : Legal(Statement(text, h))
    /\ Consistent(text) /\ NamesDiffer(text)

-----------------------------------------------------------------------------
(* Where build() keeps to another language.                                 *)

(* It refuses files without a board (telem_builder.cpp:100-103), options    *)
(* behind the first lines (:63-72, 92-97) or of another name (:133),        *)
(* hexadecimal integers but for ids (:114-115, 208-211, 276-278) and bits   *)
(* beyond the eighth byte (:340-342), all allowed in language_spec.md:129,  *)
(* 60, 43 and 85.                                                           *)
IntegerFields ==
    [kind \in LinePrefixes |->
       CASE kind = "TT_OPTION_PREFIX"  -> {3}
         [] kind = "TT_BOARD_PREFIX"   -> {}
         [] kind = "TT_MESSAGE_PREFIX" -> {4}
         [] kind = "TT_SIGNAL_PREFIX"  -> {4, 5}]

RefusesMore(text) ==
    \/ \A h \in Statements(text) : Kind(text, h) # "TT_BOARD_PREFIX"
    \/ \E h \in OptionLines(text), g \in Statements(text) :
         g < h /\ Kind(text, g) # "TT_OPTION_PREFIX"
    \/ \E h \in OptionLines(text) : Statement(text, h)[2].s \notin OptionNames
    \/ \E h \in Statements(text) : \E i \in IntegerFields[Kind(text, h)] :
         Statement(text, h)[i].form = "hex"
    \/ \E h \in Heads(text) : \E k \in SignalLines(text, h) :
         ~(Bits(Statement(text, k)) \subseteq 0..63)

(* It takes names twice (:145, 197, 257), and these lines: options that are *)
(* zero (:21, 25), messages with words behind the size (:220) and signals   *)
(* of any type (:262-265), against language_spec.md:118, 56-57, 133 and 100 *)
TakenAnyway(s) ==
    /\ Complete(s)
    /\ \/ InterpWord(s[1]) = "TT_OPTION_PREFIX" /\ s[3].n = 0
       \/ InterpWord(s[1]) = "TT_MESSAGE_PREFIX" /\ Len(s) > 4 /\ s[3].n <= 2047
       \/ InterpWord(s[1]) = "TT_SIGNAL_PREFIX" /\ s[3] \notin DataTypes

ValidButFor(text) ==
    /\ \A h \in Statements(text) :
         Legal(Statement(text, h)) \/ TakenAnyway(Statement(text, h))
    /\ Consistent(text)

-----------------------------------------------------------------------------
(* literals that fit where they go, signals of at least a bit, messages *)
(* whose bits can be counted in eight bits                              *)
InWidth(s, idLimit) ==
    /\ InterpWord(s[1]) = "TT_OPTION_PREFIX"  => s[3].n \in 0..(UINT16 - 1)
    /\ InterpWord(s[1]) = "TT_MESSAGE_PREFIX" => s[3].n < idLimit /\ s[4].n \in 0..31
    /\ InterpWord(s[1]) = "TT_SIGNAL_PREFIX"  => s[4].n \in 0..255 /\ s[5].n \in 1..255

(* ... and a prefix at the start of every line, but none further on in the  *)
(* lines of options and signals: to the builder a line that has no prefix   *)
(* goes on with the one before, and a prefix starts another one             *)
InScope(text, idLimit) ==
    \A h \in Statements(text) :
      LET s == Statement(text, h)
      IN  /\ Kind(text, h) \in LinePrefixes
          /\ Kind(text, h) \in {"TT_OPTION_PREFIX", "TT_SIGNAL_PREFIX"} =>
               \A i \in 2..Len(s) : InterpWord(s[i]) \notin LinePrefixes
          /\ Complete(s) => InWidth(s, idLimit)

(* how many of the lines there are up to h *)
Rank(h, lines) == Cardinality({g \in lines : g <= h})

(* a signal of a signed type without a word for it is unsigned to build(),  *)
(* against language_spec.md:100; of floats and bools that says nothing      *)
SaysSign(s) == s[3] \in Unsigned \/ {Txt("signed"), Txt("unsigned")} \cap Range(Overrides(s)) # {}

DescribesSignal(s, sig) ==
    /\ sig.startBit = s[4].n /\ sig.length = s[5].n
    /\ s[6].form = "real" => sig.factor.n = s[6].n
    /\ s[7].form = "real" => sig.offset.n = s[7].n
    /\ SaysSign(s) => sig.isSigned = (Txt("signed") \in Range(Overrides(s)))
    /\ (sig.endianness = "big") = (Txt("big") \in Range(Overrides(s)))

Describes(text, head, msg) ==
    LET lines == SignalLines(text, head)
        s     == Statement(text, head)
    IN  /\ msg.id = s[3].n /\ msg.length = s[4].n
        /\ Len(msg.signals) = Cardinality(lines)
        /\ \A k \in lines :
             DescribesSignal(Statement(text, k), msg.signals[Rank(k, lines)])

ScaleExact(text, head, msg) ==
    LET lines == SignalLines(text, head)
    IN  \A k \in lines :
          LET s == Statement(text, k)
              i == Rank(k, lines)
          IN  /\ msg.signals[i].factor = [exact |-> TRUE, n |-> s[6].n]
              /\ msg.signals[i].offset = [exact |-> TRUE, n |-> s[7].n]
=============================================================================
