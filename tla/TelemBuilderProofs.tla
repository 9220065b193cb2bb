------------------------- MODULE TelemBuilderProofs -------------------------
(***************************************************************************)
(* For every configuration, of any length: the builder, which knows words  *)
(* and no lines, keeps to the language of the reference and adds what its  *)
(* lines say.                                                              *)
(***************************************************************************)
EXTENDS TelemBuilder, FiniteSetTheorems, SequenceTheorems, WellFoundedInduction, TLAPS

-----------------------------------------------------------------------------
(* The language of build(): what it takes for legal, line by line.          *)
MayFollow ==
    [kind \in LinePrefixes |->
       CASE kind = "TT_OPTION_PREFIX"  -> {"none", "TT_OPTION_PREFIX"}
         [] kind = "TT_BOARD_PREFIX"   -> {"none", "TT_OPTION_PREFIX", "TT_SIGNAL_PREFIX"}
         [] kind = "TT_MESSAGE_PREFIX" -> {"TT_BOARD_PREFIX", "TT_SIGNAL_PREFIX"}
         [] kind = "TT_SIGNAL_PREFIX"  -> {"TT_MESSAGE_PREFIX", "TT_SIGNAL_PREFIX"}]

Nested(t) ==
    /\ KindBefore(t, Len(t) + 1) = "TT_SIGNAL_PREFIX"
    /\ \A h \in Statements(t) : KindBefore(t, h) \in MayFollow[Kind(t, h)]

ValidMessage(t, head, maxId) ==
    LET lines == SignalLines(t, head)
        s(k)  == Statement(t, k)
    IN  /\ s(head)[3].n <= maxId
        /\ \A k \in lines : Bits(s(k)) \subseteq 0..(8 * s(head)[4].n - 1) \cap 0..63
        /\ \A j, k \in lines : j # k => Bits(s(j)) \cap Bits(s(k)) = {}

Accepted(t, optionNames, maxId) ==
    /\ \A h \in Statements(t) : Complete(Statement(t, h))
    /\ Nested(t)
    /\ \A h \in OptionLines(t) : Statement(t, h)[2].s \in optionNames
    /\ \A h \in Heads(t) : ValidMessage(t, h, maxId)
    /\ \A g, h \in Heads(t) : g # h => Statement(t, g)[3] # Statement(t, h)[3]

-----------------------------------------------------------------------------
(* What the builder has yet to see: the words outside of comments behind    *)
(* its position.                                                            *)
Live(t, i) ==
    /\ t[i] \notin {Comment, Newline}
    /\ \A j \in 1..i : t[j] = Comment => \E k \in j..i : t[k] = Newline

From(t, p) == {i \in DOMAIN t : i >= p /\ Live(t, i)}

OutsideComments(t, p) ==
    \A j \in 1..p : t[j] = Comment => p = Len(t) \/ \E k \in j..(p + 1) : t[k] = Newline

Ahead == From(text, pos + 1)

Upcoming == IF Ahead = {} THEN "none" ELSE InterpWord(text[Min(Ahead)])

(* Line 0 stands for the start of the file. *)
KindAt(t, h) == IF h = 0 THEN "none" ELSE Kind(t, h)
AfterLine(t, h) == IF h = 0 THEN 1 ELSE EndOf(t, h)

-----------------------------------------------------------------------------
(* What is known of the lines before q, and what was made of them.          *)
LineOK(t, h) ==
    /\ Complete(Statement(t, h))
    /\ Kind(t, h) = "TT_OPTION_PREFIX" => Statement(t, h)[2].s \in OptionNames

Follows(t, h) == KindBefore(t, h) \in MayFollow[Kind(t, h)]

LinesFine(t, q) ==
    \A g \in Statements(t) : g < q => LineOK(t, g) /\ Follows(t, g)

LinesFor(t, q, o) == {h \in OptionLines(t) : h < q /\ Statement(t, h)[2] = Txt(o)}

OptsAre(t, q) ==
    \A o \in OptionNames :
      opts[o] = IF LinesFor(t, q, o) = {} THEN 100 ELSE Statement(t, Max(LinesFor(t, q, o)))[3].n

Past(q) == LinesFine(text, q) /\ OptsAre(text, q)

HeadsBefore(t, q) == {m \in Heads(t) : m < q}

IdOf(t, m) == Statement(t, m)[3].n

MessagesFine(t, q) ==
    \A m \in HeadsBefore(t, q) :
      /\ ValidMessage(t, m, MAX_ID)
      /\ \A g \in HeadsBefore(t, q) : g # m => IdOf(t, g) # IdOf(t, m)

Finished(q) ==
    /\ MessagesFine(text, q)
    /\ messageIDSet = {IdOf(text, m) : m \in HeadsBefore(text, q)}
    /\ Len(added) = Cardinality(HeadsBefore(text, q))

(* The message in hand, with its signals before q.                          *)
SignalsBefore(t, m, q) == {k \in SignalLines(t, m) : k < q}

Fits(sig, length) == sig.startBit + sig.length <= 8 * length

Described(t, m, q) ==
    /\ msgDesc.id = Statement(t, m)[3].n
    /\ msgDesc.length = Statement(t, m)[4].n
    /\ Len(msgDesc.signals) = Cardinality(SignalsBefore(t, m, q))
    /\ \A k \in SignalsBefore(t, m, q) :
         LET sig == msgDesc.signals[Rank(k, SignalLines(t, m))]
         IN  /\ Fits(sig, msgDesc.length)
             /\ Complete(Statement(t, k)) => DescribesSignal(Statement(t, k), sig)

(* m is the head of the last message up to line h *)
Under(t, m, h) ==
    /\ m \in Heads(t) /\ h \in Statements(t) /\ m <= h
    /\ \A k \in Statements(t) : m < k /\ k <= h => Kind(t, k) = "TT_SIGNAL_PREFIX"

(* The signal in hand, w words of whose line are read.                      *)
SignalRead(s, w) ==
    /\ w >= 2 => IsName(s[2])
    /\ w >= 3 => IsName(s[3])
    /\ w >= 4 => s[4].form = "dec" /\ sigDesc.startBit = s[4].n % 256
    /\ w >= 5 => s[5].form = "dec" /\ sigDesc.length = s[5].n % 256
    /\ w >= 6 => IsNumeric(s[6]) /\ sigDesc.factor = DoubleOf(s[6])
    /\ w >= 7 => IsNumeric(s[7]) /\ sigDesc.offset = DoubleOf(s[7])
    /\ sigDesc.endianness = "little"

-----------------------------------------------------------------------------
(* Where the builder is.  At the end of a line; in a line, where the words  *)
(* in front of it are right; or in front of a word it cannot do anything    *)
(* with, which it finds out later.                                          *)
AtEnd(h) == Ahead = From(text, AfterLine(text, h)) /\ Past(h + 1)

InLine(h, w) ==
    /\ w \in 1..Len(Statement(text, h)) /\ Ahead = From(text, h + w)
    /\ Past(h) /\ Follows(text, h)

Doomed ==
    /\ Ahead # {} /\ Upcoming \notin LinePrefixes
    /\ ~Accepted(text, OptionNames, MAX_ID)

OptionsAt(h) ==
    /\ h \in {0} \cup Statements(text) /\ KindAt(text, h) \in {"none", "TT_OPTION_PREFIX"}
    /\ AtEnd(h) /\ Finished(h + 1)

OptionsInv ==
    pc \in {"start", "options"} =>
      /\ ~sawBoard /\ messageIDSet = {}
      /\ Doomed \/ \E h \in {0} \cup Statements(text) : OptionsAt(h)

InOption(h) ==
    /\ h \in OptionLines(text) /\ Finished(h)
    /\ pc = "optionName" => InLine(h, 1)
    /\ pc = "optionValue" =>
         \/ (InLine(h, 2) /\ IsName(Statement(text, h)[2]) /\ option = Statement(text, h)[2].s)
         \/ (option \notin OptionNames /\ ~LineOK(text, h))

OptionInv ==
    pc \in {"optionName", "optionValue"} =>
      ~sawBoard /\ messageIDSet = {} /\ \E h \in OptionLines(text) : InOption(h)

BoardsAt(h) ==
    /\ h \in {0} \cup Statements(text)
    /\ KindAt(text, h) \in {"none", "TT_OPTION_PREFIX", "TT_SIGNAL_PREFIX"}
    /\ AtEnd(h) /\ Finished(h + 1)
    /\ sawBoard = (KindAt(text, h) = "TT_SIGNAL_PREFIX")
    /\ Upcoming \notin (IF sawBoard THEN {"TT_MESSAGE_PREFIX", "TT_SIGNAL_PREFIX"}
                        ELSE {"TT_OPTION_PREFIX"})

BoardsInv ==
    pc = "boards" => Doomed \/ \E h \in {0} \cup Statements(text) : BoardsAt(h)

BoardNameInv ==
    pc = "boardName" =>
      /\ sawBoard /\ ~hasMsg
      /\ \E h \in Statements(text) :
           Kind(text, h) = "TT_BOARD_PREFIX" /\ InLine(h, 1) /\ Finished(h)

MessagesAt(h) ==
    /\ h \in Statements(text) /\ Kind(text, h) \in {"TT_BOARD_PREFIX", "TT_SIGNAL_PREFIX"}
    /\ AtEnd(h) /\ Finished(h + 1)
    /\ hasMsg = (Kind(text, h) = "TT_SIGNAL_PREFIX")
    /\ hasMsg => Upcoming # "TT_SIGNAL_PREFIX"

MessagesInv ==
    pc = "messages" => sawBoard /\ (Doomed \/ \E h \in Statements(text) : MessagesAt(h))

HeaderWords == [messageName |-> 1, messageId |-> 2, messageLength |-> 3]

InHeader(h, w) ==
    LET s == Statement(text, h)
    IN  /\ h \in Heads(text) /\ InLine(h, w) /\ Finished(h)
        /\ msgDesc.signals = <<>>
        /\ w >= 2 => IsName(s[2])
        /\ w >= 3 => s[3].form = "hex" /\ msgDesc.id = s[3].n % UINT32

HeaderInv ==
    pc \in DOMAIN HeaderWords =>
      sawBoard /\ hasMsg /\ \E h \in Heads(text) : InHeader(h, HeaderWords[pc])

SignalsAt(m, h) ==
    /\ Under(text, m, h) /\ Finished(m) /\ Described(text, m, h + 1)
    /\ AtEnd(h) \/ (Doomed /\ m # h /\ ~Complete(Statement(text, h)))
    /\ pc = "add" => m # h /\ Upcoming # "TT_SIGNAL_PREFIX"

SignalsInv ==
    pc \in {"signals", "add"} =>
      sawBoard /\ hasMsg /\ \E m, h \in Statements(text) : SignalsAt(m, h)

SignalWords ==
    [signalName |-> 1, dataType |-> 2, startBit |-> 3, length |-> 4, factor |-> 5,
     offset |-> 6, signedness |-> 7]

(* the word for the sign, or none of the two *)
SignRead(s, w) ==
    \/ w = 7 /\ ~sigDesc.isSigned
       /\ (Len(s) >= 8 => s[8] \notin {Txt("signed"), Txt("unsigned")})
    \/ w = 8 /\ s[8] \in {Txt("signed"), Txt("unsigned")}
       /\ sigDesc.isSigned = (s[8] = Txt("signed"))

InSignal(m, h, w) ==
    LET s == Statement(text, h)
    IN  /\ Under(text, m, h) /\ m # h /\ InLine(h, w)
        /\ Finished(m) /\ Described(text, m, h)
        /\ SignalRead(s, w)

SignalInv ==
    /\ pc \in DOMAIN SignalWords =>
         /\ sawBoard /\ hasMsg /\ ~sigDesc.isSigned
         /\ \E m, h \in Statements(text) : InSignal(m, h, SignalWords[pc])
    /\ pc = "endianness" =>
         /\ sawBoard /\ hasMsg
         /\ \E m, h \in Statements(text), w \in {7, 8} :
              InSignal(m, h, w) /\ SignRead(Statement(text, h), w)

EndInv ==
    pc \in {"end", "done"} =>
      \/ result = "error" /\ ~Accepted(text, OptionNames, MAX_ID)
      \/ /\ result = "ok" /\ Accepted(text, OptionNames, MAX_ID)
         /\ Len(added) = Cardinality(Heads(text)) /\ OptsAre(text, Len(text) + 1)

AddedInv ==
    /\ Len(added) <= Cardinality(Heads(text))
    /\ \A h \in Heads(text) :
         Rank(h, Heads(text)) <= Len(added) /\ Whole(text, h) =>
           Describes(text, h, added[Rank(h, Heads(text))])

ParseInv ==
    /\ OptionsInv /\ OptionInv /\ BoardsInv /\ BoardNameInv /\ MessagesInv
    /\ HeaderInv /\ SignalsInv /\ SignalInv /\ EndInv /\ AddedInv

UnreadableInv ==
    /\ pc \in {"start", "options", "boards", "end", "done"}
    /\ ~sawBoard /\ added = <<>> /\ result # "ok"

ResultInv == pc \notin {"end", "done"} => result = "none"

BuilderInv ==
    /\ TypeOK /\ ResultInv
    /\ readable => OutsideComments(text, pos)
    /\ readable /\ InScope(text, UINT32) => ParseInv
    /\ ~readable => UnreadableInv

-----------------------------------------------------------------------------
(* Least and greatest elements.                                             *)
LEMMA LeastElement ==
    ASSUME NEW S \in SUBSET Nat, S # {}
    PROVE  Min(S) \in S /\ \A y \in S : Min(S) <= y
<1>1. PICK m \in S : TRUE
  OBVIOUS
<1> DEFINE B == {0..k : k \in {n \in S : n <= m}}
<1>2. m \in Nat /\ B # {} /\ B \subseteq SUBSET (0..m)
  BY <1>1
<1>3. IsFiniteSet(0..m)
  BY <1>2, FS_Interval
<1>4. IsWellFoundedOn(StrictSubsetOrdering(0..m), SUBSET (0..m))
  BY <1>3, FS_FiniteSubsetsOfFinite, FS_StrictSubsetOrderingWellFounded
<1>5. \E b \in B : \A y \in B : ~(<<y, b>> \in StrictSubsetOrdering(0..m))
  <2> HIDE DEF B
  <2> QED BY <1>2, <1>4, WFMin
<1>6. PICK n \in S : n <= m /\ \A y \in B : ~(<<y, 0..n>> \in StrictSubsetOrdering(0..m))
  BY <1>5
<1>7. ASSUME NEW y \in S, y < n PROVE FALSE
  <2>1. 0..y \in B /\ y \in Nat /\ n \in Nat
    BY <1>2, <1>6, <1>7
  <2>2. 0..y \subseteq 0..n /\ n \in 0..n /\ n \notin 0..y /\ 0..n \subseteq 0..m
    BY <1>2, <1>6, <1>7, <2>1
  <2>3. <<0..y, 0..n>> \in StrictSubsetOrdering(0..m)
    BY <2>2 DEF StrictSubsetOrdering
  <2>4. QED
    BY <1>6, <2>1, <2>3
<1>8. \A y \in S : n =< y
  BY <1>6, <1>7
<1>9. QED
  BY <1>8 DEF Min

LEMMA GreatestElement ==
    ASSUME NEW S \in SUBSET Nat, S # {}, NEW b \in Nat, \A s \in S : s <= b
    PROVE  Max(S) \in S /\ \A y \in S : y <= Max(S)
<1> DEFINE R == {n \in Nat : n <= b /\ b - n \in S}
<1>1. R # {} /\ R \in SUBSET Nat
  <2>1. PICK s \in S : TRUE
    OBVIOUS
  <2>2. s \in Nat /\ s <= b /\ b - s \in Nat /\ b - (b - s) = s
    BY <2>1
  <2>3. b - s \in R
    BY <2>2
  <2>4. QED
    BY <2>3
<1>2. Min(R) \in R /\ \A y \in R : Min(R) <= y
  <2> HIDE DEF R
  <2> QED BY <1>1, LeastElement
<1> DEFINE x == b - Min(R)
<1>3. x \in S
  BY <1>2
<1>4. \A y \in S : x >= y
  <2> SUFFICES ASSUME NEW y \in S PROVE x >= y
    OBVIOUS
  <2>1. b - y \in R
    OBVIOUS
  <2>2. QED
    BY <1>2, <2>1
<1>5. QED
  <2> HIDE DEF x
  <2> QED BY <1>3, <1>4 DEF Max

LEMMA LeastIs ==
    ASSUME NEW S \in SUBSET Nat, NEW x \in S, \A y \in S : x <= y
    PROVE  Min(S) = x
<1>1. Min(S) \in S /\ Min(S) <= x /\ x <= Min(S)
  BY LeastElement
<1>2. Min(S) \in Nat /\ x \in Nat
  BY <1>1
<1>3. QED
  BY <1>1, <1>2

LEMMA GreatestIs ==
    ASSUME NEW S \in SUBSET Nat, NEW x \in S, \A y \in S : y <= x
    PROVE  Max(S) = x
<1>1. Max(S) \in S /\ Max(S) <= x /\ x <= Max(S)
  BY GreatestElement
<1>2. Max(S) \in Nat /\ x \in Nat
  BY <1>1
<1>3. QED
  BY <1>1, <1>2

-----------------------------------------------------------------------------
(* Words and tokens.                                                        *)
LEMMA SymbolFacts ==
    /\ Comment # Newline /\ Comment \notin AnyWord /\ Newline \notin AnyWord
    /\ \A w \in Symbol : w \notin {Comment, Newline} => w \in AnyWord
BY DEF AnyWord, Symbol, Comment, Newline

LEMMA TokenFacts ==
    ASSUME NEW w \in AnyWord
    PROVE  /\ InterpWord(w) \in LinePrefixes \cup {"TT_INT", "TT_HEX_INT", "TT_FLOAT", "TT_IDENTIFIER"}
           /\ InterpWord(w) = "TT_INT" <=> w.form = "dec"
           /\ InterpWord(w) = "TT_HEX_INT" <=> w.form = "hex"
           /\ InterpWord(w) = "TT_FLOAT" <=> w.form = "real"
           /\ InterpWord(w) = "TT_IDENTIFIER" => w.form = "text"
           /\ w.n \in Int /\ (w.form = "hex" => w.n \in Nat)
           /\ w.form = "text" => w = Txt(w.s)
           /\ w.form \in {"dec", "hex", "real"} => w = [form |-> w.form, s |-> "", n |-> w.n]
           /\ InterpWord(w) # "none"
<1>1. /\ w.form \in {"text", "dec", "hex", "real"}
      /\ w.n \in Int /\ (w.form = "hex" => w.n \in Nat)
      /\ w.form = "text" => w = Txt(w.s)
      /\ w.form \in {"dec", "hex", "real"} => w = [form |-> w.form, s |-> "", n |-> w.n]
  <2>1. CASE w \in [form : {"text"}, s : STRING, n : {0}]
    <3>1. w.form = "text" /\ w.s \in STRING /\ w.n = 0
      BY <2>1
    <3>2. w = [form |-> w.form, s |-> w.s, n |-> w.n]
      BY <2>1
    <3>3. w = Txt(w.s)
      BY <3>1, <3>2 DEF Txt
    <3>4. QED
      BY <3>1, <3>3
  <2>2. CASE w \in [form : {"dec", "real"}, s : {""}, n : Int]
    <3>1. w.form \in {"dec", "real"} /\ w.s = "" /\ w.n \in Int
      BY <2>2
    <3>2. w = [form |-> w.form, s |-> w.s, n |-> w.n]
      BY <2>2
    <3>3. w = [form |-> w.form, s |-> "", n |-> w.n]
      BY <3>1, <3>2, Zenon
    <3>4. QED
      BY <3>1, <3>3
  <2>3. CASE w \in [form : {"hex"}, s : {""}, n : Nat]
    <3>1. w.form = "hex" /\ w.s = "" /\ w.n \in Nat
      BY <2>3
    <3>2. w = [form |-> w.form, s |-> w.s, n |-> w.n]
      BY <2>3
    <3>3. w = [form |-> w.form, s |-> "", n |-> w.n]
      BY <3>1, <3>2, Zenon
    <3>a. \A n \in Nat : n \in Int
      OBVIOUS
    <3>b. w.n \in Int
      BY <3>1, <3>a, Zenon
    <3>c. "hex" # "text"
      OBVIOUS
    <3>4. w.n \in Int /\ w.form # "text"
      BY <3>1, <3>b, <3>c, Zenon
    <3>5. QED
      BY <3>1, <3>3, <3>4
  <2>4. QED
    BY <2>1, <2>2, <2>3 DEF AnyWord
<1>2. CASE w.form = "dec"
  BY <1>1, <1>2 DEF InterpWord, LinePrefixes
<1>3. CASE w.form = "hex"
  BY <1>1, <1>3 DEF InterpWord, LinePrefixes
<1>4. CASE w.form = "real"
  BY <1>1, <1>4 DEF InterpWord, LinePrefixes
<1>5. CASE w.form = "text" /\ w.s \in DOMAIN prefixLUT
  <2>1. w.s \in {">>>", "!!", ">>", ">"} /\ InterpWord(w) = prefixLUT[w.s]
    BY <1>5 DEF InterpWord, prefixLUT
  <2>2. prefixLUT[w.s] \in LinePrefixes
    BY <2>1 DEF prefixLUT, LinePrefixes
  <2>3. QED
    BY <1>1, <1>5, <2>1, <2>2 DEF LinePrefixes
<1>6. CASE w.form = "text" /\ w.s \notin DOMAIN prefixLUT
  <2>1. InterpWord(w) = "TT_IDENTIFIER"
    BY <1>6 DEF InterpWord
  <2>2. QED
    BY <1>1, <1>6, <2>1 DEF LinePrefixes
<1>7. QED
  BY <1>1, <1>2, <1>3, <1>4, <1>5, <1>6

-----------------------------------------------------------------------------
(* Lines.                                                                   *)
LEMMA LineShape ==
    ASSUME NEW t \in Seq(Symbol), NEW h \in Statements(t)
    PROVE  /\ h \in 1..Len(t) /\ EndOf(t, h) \in (h + 1)..(Len(t) + 1)
           /\ \A i \in h..(EndOf(t, h) - 1) :
                i \in 1..Len(t) /\ t[i] \in AnyWord /\ t[i] \notin {Comment, Newline}
           /\ EndOf(t, h) <= Len(t) => t[EndOf(t, h)] \in {Comment, Newline}
           /\ Len(Statement(t, h)) = EndOf(t, h) - h
           /\ Statement(t, h) \in Seq(AnyWord)
           /\ \A w \in 1..Len(Statement(t, h)) : Statement(t, h)[w] = t[h + w - 1]
           /\ Kind(t, h) = InterpWord(Statement(t, h)[1])
<1> DEFINE E == {i \in h..(Len(t) + 1) : i \in DOMAIN t => t[i] \in {Comment, Newline}}
           e == EndOf(t, h)
<1>1. h \in 1..Len(t) /\ DOMAIN t = 1..Len(t) /\ Len(t) \in Nat
  BY DEF Statements
<1>2. E \in SUBSET Nat /\ Len(t) + 1 \in E /\ h \notin E
  BY <1>1 DEF Statements
<1>3. e = Min(E)
  BY DEF EndOf
<1>4. e \in E /\ \A y \in E : e <= y
  <2> HIDE DEF E, e
  <2>1. E # {}
    BY <1>2
  <2>2. QED
    BY <1>2, <1>3, <2>1, LeastElement
<1>5. e \in (h + 1)..(Len(t) + 1)
  <2>1. e # h
    BY <1>2, <1>4
  <2>2. QED
    BY <1>1, <1>4, <2>1
<1> HIDE DEF e
<1>6. ASSUME NEW i \in h..(e - 1)
      PROVE  i \in 1..Len(t) /\ t[i] \in AnyWord /\ t[i] \notin {Comment, Newline}
  <2>1. i \in 1..Len(t) /\ i < e /\ i \in h..(Len(t) + 1)
    BY <1>1, <1>5
  <2>2. i \notin E
    BY <1>4, <1>5, <2>1
  <2>3. t[i] \notin {Comment, Newline} /\ t[i] \in Symbol
    BY <1>1, <2>1, <2>2
  <2>4. QED
    BY <2>1, <2>3, SymbolFacts
<1>7. e <= Len(t) => t[e] \in {Comment, Newline}
  BY <1>1, <1>4, <1>5
<1>8. Statement(t, h) = SubSeq(t, h, e - 1)
  BY DEF Statement, e
<1>9. Len(Statement(t, h)) = e - h /\ \A w \in 1..(e - h) : Statement(t, h)[w] = t[h + w - 1]
  BY <1>1, <1>5, <1>8
<1>10. Statement(t, h) \in Seq(AnyWord)
  <2>1. \A w \in 1..(e - h) : h + w - 1 \in h..(e - 1)
    BY <1>1, <1>5
  <2>2. \A w \in 1..(e - h) : Statement(t, h)[w] \in AnyWord
    BY <1>6, <1>9, <2>1
  <2>3. Statement(t, h) \in Seq(Symbol)
    BY <1>1, <1>5, <1>8
  <2>4. QED
    BY <1>9, <2>2, <2>3
<1>11. Kind(t, h) = InterpWord(Statement(t, h)[1])
  <2>1. 1 \in 1..(e - h) /\ h + 1 - 1 = h
    BY <1>1, <1>5
  <2>2. QED
    BY <1>9, <2>1 DEF Kind
<1>12. QED
  BY <1>1, <1>5, <1>6, <1>7, <1>9, <1>10, <1>11 DEF e

LEMMA LineLive ==
    ASSUME NEW t \in Seq(Symbol), NEW h \in Statements(t)
    PROVE  \A i \in h..(EndOf(t, h) - 1) : Live(t, i)
<1> SUFFICES ASSUME NEW i \in h..(EndOf(t, h) - 1) PROVE Live(t, i)
  OBVIOUS
<1>1. /\ h \in 1..Len(t) /\ EndOf(t, h) \in (h + 1)..(Len(t) + 1)
      /\ \A k \in h..(EndOf(t, h) - 1) : t[k] \notin {Comment, Newline}
  BY LineShape
<1>2. h = 1 \/ t[h - 1] = Newline
  BY DEF Statements
<1>3. ASSUME NEW j \in 1..i, t[j] = Comment PROVE \E k \in j..i : t[k] = Newline
  <2>1. ~(j \in h..(EndOf(t, h) - 1))
    BY <1>1, <1>3
  <2>2. j < h
    BY <1>1, <2>1
  <2>3. h - 1 \in j..i /\ t[h - 1] = Newline
    BY <1>1, <1>2, <2>2
  <2>4. QED
    BY <2>3
<1>4. QED
  BY <1>1, <1>3 DEF Live

LEMMA FromFacts ==
    ASSUME NEW t \in Seq(Symbol), NEW p \in Nat
    PROVE  /\ From(t, p) \in SUBSET Nat
           /\ \A i \in From(t, p) : i \in 1..Len(t) /\ i >= p /\ Live(t, i) /\ t[i] \in AnyWord
           /\ From(t, p) # {} => Min(From(t, p)) \in From(t, p)
           /\ \A i \in From(t, p) : Min(From(t, p)) <= i
<1>1. From(t, p) \in SUBSET Nat
  BY DEF From
<1>2. ASSUME NEW i \in From(t, p)
      PROVE  i \in 1..Len(t) /\ i >= p /\ Live(t, i) /\ t[i] \in AnyWord
  <2>1. i \in 1..Len(t) /\ i >= p /\ Live(t, i)
    BY DEF From
  <2>2. t[i] \in Symbol /\ t[i] \notin {Comment, Newline}
    BY <2>1 DEF Live
  <2>3. QED
    BY <2>1, <2>2, SymbolFacts
<1>3. QED
  BY <1>1, <1>2, LeastElement

(* The words outside of comments that come after the end of a line begin    *)
(* with the next line.                                                      *)
LEMMA NextLine ==
    ASSUME NEW t \in Seq(Symbol), NEW q \in 1..(Len(t) + 1),
           q = 1 \/ (q <= Len(t) => t[q] \in {Comment, Newline})
    PROVE  /\ From(t, q) = {} => \A g \in Statements(t) : g < q
           /\ From(t, q) # {} =>
                /\ Min(From(t, q)) \in Statements(t) /\ Min(From(t, q)) >= q
                /\ \A g \in Statements(t) : g < q \/ g >= Min(From(t, q))
                /\ From(t, q) = From(t, Min(From(t, q)))
<1>1. Len(t) \in Nat /\ q \in Nat /\ DOMAIN t = 1..Len(t)
  OBVIOUS
<1>2. ASSUME NEW g \in Statements(t), g >= q PROVE g \in From(t, q)
  <2>1. g \in 1..Len(t) /\ EndOf(t, g) \in (g + 1)..(Len(t) + 1)
    BY LineShape
  <2>2. Live(t, g)
    BY <2>1, LineLive
  <2>3. QED
    BY <1>1, <1>2, <2>1, <2>2 DEF From
<1>3. ASSUME NEW g \in Statements(t) PROVE g \in Nat
  BY LineShape
<1>4. ASSUME From(t, q) # {}
      PROVE  /\ Min(From(t, q)) \in Statements(t) /\ Min(From(t, q)) >= q
             /\ From(t, q) = From(t, Min(From(t, q)))
  <2> DEFINE m == Min(From(t, q))
  <2>1. /\ m \in From(t, q) /\ m \in 1..Len(t) /\ m >= q /\ Live(t, m)
        /\ \A i \in From(t, q) : m <= i
    BY <1>1, <1>4, FromFacts
  <2> HIDE DEF m
  <2>2. t[m] \notin {Comment, Newline}
    BY <2>1 DEF Live
  <2>3. ASSUME m # 1 PROVE t[m - 1] = Newline
    <3> SUFFICES ASSUME t[m - 1] # Newline PROVE FALSE
      OBVIOUS
    <3>1. m - 1 \in 1..Len(t) /\ m - 1 \in Nat
      BY <1>1, <2>1, <2>3
    <3>2. t[m - 1] # Comment
      <4>1. ASSUME t[m - 1] = Comment PROVE FALSE
        <5>1. PICK k \in (m - 1)..m : t[k] = Newline
          BY <3>1, <2>1, <4>1 DEF Live
        <5>2. k = m - 1 \/ k = m
          BY <2>1, <3>1
        <5>3. QED
          BY <2>2, <5>1, <5>2
      <4>2. QED
        BY <4>1
    <3>3. Live(t, m - 1)
      <4>1. ASSUME NEW j \in 1..(m - 1), t[j] = Comment
            PROVE  \E k \in j..(m - 1) : t[k] = Newline
        <5>1. j \in 1..m
          BY <2>1
        <5>2. PICK k \in j..m : t[k] = Newline
          BY <2>1, <4>1, <5>1 DEF Live
        <5>3. k # m
          BY <2>2, <5>2
        <5>4. k \in j..(m - 1)
          BY <2>1, <5>2, <5>3
        <5>5. QED
          BY <5>2, <5>4
      <4>2. QED
        BY <3>2, <4>1 DEF Live
    <3>4. m - 1 < q
      <4>1. ASSUME m - 1 >= q PROVE FALSE
        <5>1. m - 1 \in From(t, q)
          BY <1>1, <3>1, <3>3, <4>1 DEF From
        <5>2. m <= m - 1
          BY <2>1, <5>1
        <5>3. QED
          BY <2>1, <5>2
      <4>2. QED
        BY <1>1, <2>1, <4>1
    <3>5. m = q
      BY <1>1, <2>1, <3>4
    <3>6. QED
      BY <2>1, <2>2, <2>3, <3>5
  <2>4. m \in Statements(t)
    BY <1>1, <2>1, <2>2, <2>3 DEF Statements
  <2>5. From(t, q) = From(t, m)
    BY <1>1, <2>1 DEF From
  <2>6. QED
    BY <2>1, <2>4, <2>5 DEF m
<1>5. ASSUME From(t, q) # {}, NEW g \in Statements(t)
      PROVE  g < q \/ g >= Min(From(t, q))
  <2>1. CASE g < q
    BY <2>1
  <2>2. CASE g >= q
    BY <1>1, <1>2, <2>2, FromFacts
  <2>3. QED
    BY <1>1, <1>3, <2>1, <2>2
<1>6. ASSUME From(t, q) = {}, NEW g \in Statements(t) PROVE g < q
  BY <1>1, <1>2, <1>3, <1>6
<1>7. QED
  BY <1>4, <1>5, <1>6

-----------------------------------------------------------------------------
(* The tokens, as a queue of the live words.                                *)
LEMMA NotLive ==
    ASSUME NEW t \in Seq(Symbol), NEW c \in 1..Len(t), t[c] = Comment,
           NEW i \in 1..Len(t), Live(t, i), c <= i
    PROVE  c # i /\ \E k \in (c + 1)..i : t[k] = Newline
<1>1. c # i
  BY DEF Live
<1>2. PICK k \in c..i : t[k] = Newline
  BY DEF Live
<1>3. k # c
  BY <1>2, SymbolFacts
<1>4. k \in (c + 1)..i
  BY <1>2, <1>3
<1>5. QED
  BY <1>1, <1>2, <1>4

LEMMA TextFacts ==
    ASSUME TypeOK
    PROVE  /\ text \in Seq(Symbol) /\ Len(text) \in Nat /\ DOMAIN text = 1..Len(text)
           /\ pos \in 0..Len(text) /\ pos \in Nat
<1>1. text \in Seq(Symbol) /\ pos \in 0..Len(text)
  BY Zenon DEF TypeOK
<1>2. QED
  BY <1>1

LEMMA QueueHead ==
    ASSUME TypeOK, readable, OutsideComments(text, pos), ~AtComment
    PROVE  /\ WordsAhead = {} <=> Ahead = {}
           /\ Ahead # {} => Min(WordsAhead) = Min(Ahead)
<1>1. text \in Seq(Symbol) /\ pos \in 0..Len(text) /\ Len(text) \in Nat
  BY TextFacts
<1>2. WordsAhead \in SUBSET Nat /\ \A i \in WordsAhead : i \in 1..Len(text)
  BY <1>1 DEF WordsAhead
<1>3. Ahead \subseteq WordsAhead
  BY <1>1 DEF Ahead, From, WordsAhead, Live
<1>4. ASSUME WordsAhead # {} PROVE Min(WordsAhead) \in Ahead
  <2> DEFINE m == Min(WordsAhead)
  <2>1. m \in WordsAhead /\ \A i \in WordsAhead : m <= i
    BY <1>2, <1>4, LeastElement
  <2>2. text[m] # Comment
    BY <1>4 DEF AtComment, Word
  <2> HIDE DEF m
  <2>3. m \in (pos + 1)..Len(text) /\ text[m] # Newline
    BY <2>1 DEF WordsAhead
  <2>4. ASSUME NEW j \in 1..m, text[j] = Comment PROVE \E k \in j..m : text[k] = Newline
    <3>1. CASE j <= pos
      <4>1. pos # Len(text)
        BY <1>1, <2>3
      <4>2. j \in 1..pos
        BY <1>1, <2>3, <3>1
      <4>3. PICK k \in j..(pos + 1) : text[k] = Newline
        BY <2>4, <4>1, <4>2 DEF OutsideComments
      <4>4. k \in j..m
        BY <1>1, <2>3, <4>3
      <4>5. QED
        BY <4>3, <4>4
    <3>2. CASE j > pos
      <4>1. j \in WordsAhead
        BY <1>1, <2>3, <2>4, <3>2, SymbolFacts DEF WordsAhead
      <4>2. j = m
        BY <1>1, <2>1, <2>3, <4>1
      <4>3. QED
        BY <2>2, <2>4, <4>2
    <3>3. QED
      BY <1>1, <2>3, <3>1, <3>2
  <2>5. Live(text, m)
    BY <2>2, <2>3, <2>4 DEF Live
  <2>6. m \in Ahead
    BY <1>1, <2>3, <2>5 DEF Ahead, From
  <2>7. QED
    BY <2>6 DEF m
<1>5. ASSUME Ahead # {} PROVE Min(WordsAhead) = Min(Ahead)
  <2> DEFINE m == Min(WordsAhead)
  <2>1. WordsAhead # {}
    BY <1>3, <1>5
  <2>2. m \in Ahead /\ \A i \in WordsAhead : m <= i
    BY <1>2, <1>4, <2>1, LeastElement
  <2>3. Ahead \in SUBSET Nat /\ \A i \in Ahead : m <= i
    BY <1>2, <1>3, <2>2
  <2> HIDE DEF m
  <2>4. Min(Ahead) = m
    BY <2>2, <2>3, LeastIs
  <2>5. QED
    BY <2>4 DEF m
<1>6. QED
  BY <1>3, <1>4, <1>5

LEMMA Queue ==
    ASSUME TypeOK, readable, OutsideComments(text, pos), ~AtComment
    PROVE  /\ Peek = Upcoming
           /\ Ahead # {} => Word = text[Min(Ahead)] /\ Word \in AnyWord
           /\ Peek # "none" <=> Ahead # {}
           /\ Ahead # {} => Moved = Min(Ahead)
           /\ Ahead = {} => Moved = Len(text)
<1>1. (WordsAhead = {} <=> Ahead = {}) /\ (Ahead # {} => Min(WordsAhead) = Min(Ahead))
  BY QueueHead
<1>2. Ahead # {} => text[Min(Ahead)] \in AnyWord /\ InterpWord(text[Min(Ahead)]) # "none"
  <2>1. text \in Seq(Symbol) /\ pos + 1 \in Nat
    BY TextFacts
  <2>2. Ahead # {} => text[Min(Ahead)] \in AnyWord
    BY <2>1, FromFacts DEF Ahead
  <2>3. QED
    BY <2>2, TokenFacts
<1>3. QED
  BY <1>1, <1>2 DEF Peek, Upcoming, Word, Moved

LEMMA AfterWord ==
    ASSUME TypeOK, readable, OutsideComments(text, pos), ~AtComment, pos' = Moved, text' = text
    PROVE  /\ OutsideComments(text, pos)'
           /\ Ahead # {} => Ahead' = From(text, Min(Ahead) + 1)
<1>1. text \in Seq(Symbol) /\ pos \in 0..Len(text) /\ Len(text) \in Nat
  BY TextFacts
<1>2. CASE Ahead = {}
  <2>1. pos' = Len(text)
    BY <1>2, Queue
  <2>2. QED
    BY <1>2, <2>1 DEF OutsideComments
<1>3. CASE Ahead # {}
  <2> DEFINE m == Min(Ahead)
  <2>1. pos' = m
    BY <1>3, Queue
  <2>2. m \in 1..Len(text) /\ Live(text, m)
    BY <1>1, <1>3, FromFacts DEF Ahead
  <2> HIDE DEF m
  <2>3. OutsideComments(text, m)
    <3>1. ASSUME NEW j \in 1..m, text[j] = Comment
          PROVE  \E k \in j..(m + 1) : text[k] = Newline
      <4>1. PICK k \in j..m : text[k] = Newline
        BY <2>2, <3>1 DEF Live
      <4>2. k \in j..(m + 1)
        BY <2>2, <4>1
      <4>3. QED
        BY <4>1, <4>2
    <3>2. QED
      BY <3>1 DEF OutsideComments
  <2>4. QED
    BY <1>3, <2>1, <2>3 DEF Ahead, m
<1>4. QED
  BY <1>2, <1>3

(* eatUntil reads the words that have no newline in front of them.          *)
LEMMA EatenFacts ==
    ASSUME TypeOK, readable, NEW p \in 0..Len(text), OutsideComments(text, p)
    PROVE  /\ Eaten(p) \in p..Len(text)
           /\ OutsideComments(text, Eaten(p))
           /\ From(text, Eaten(p) + 1) =
                {i \in From(text, p + 1) : \E k \in (p + 1)..i : text[k] = Newline}
<1> DEFINE N == {i \in (p + 1)..Len(text) : text[i] = Newline}
           n == Min(N)
<1>1. text \in Seq(Symbol) /\ Len(text) \in Nat /\ DOMAIN text = 1..Len(text) /\ p \in Nat
  BY TextFacts
<1>2. N \in SUBSET Nat
  BY <1>1
<1>3. CASE N = {}
  <2>1. Eaten(p) = Len(text)
    BY <1>3 DEF Eaten
  <2>2. From(text, Len(text) + 1) = {}
    BY <1>1 DEF From
  <2>3. ASSUME NEW i \in From(text, p + 1), NEW k \in (p + 1)..i, text[k] = Newline PROVE FALSE
    <3>1. i \in 1..Len(text)
      BY <1>1 DEF From
    <3>2. k \in N
      BY <1>1, <2>3, <3>1
    <3>3. QED
      BY <1>3, <3>2
  <2>4. OutsideComments(text, Eaten(p)) /\ Eaten(p) \in p..Len(text)
    <3>1. OutsideComments(text, Len(text))
      BY DEF OutsideComments
    <3>2. QED
      BY <1>1, <2>1, <3>1
  <2>5. QED
    BY <2>1, <2>2, <2>3, <2>4
<1>4. CASE N # {}
  <2>1. n \in N /\ \A i \in N : n <= i
    BY <1>2, <1>4, LeastElement
  <2>2. Eaten(p) = n \/ Eaten(p) = n - 1
    BY <1>4 DEF Eaten
  <2> HIDE DEF n
  <2>3. n \in (p + 1)..Len(text) /\ text[n] = Newline
    BY <2>1
  <2>4. Eaten(p) \in p..Len(text)
    BY <1>1, <2>2, <2>3
  <2>5. ASSUME NEW j \in 1..n, text[j] = Comment
        PROVE  j <= n - 1 /\ \E k \in j..n : text[k] = Newline
    <3>1. j # n
      BY <2>3, <2>5, SymbolFacts
    <3>2. n \in j..n /\ j <= n - 1
      BY <1>1, <2>3, <3>1
    <3>3. QED
      BY <2>3, <3>2
  <2>6. OutsideComments(text, Eaten(p))
    <3>1. ASSUME NEW j \in 1..Eaten(p), text[j] = Comment
          PROVE  \E k \in j..(Eaten(p) + 1) : text[k] = Newline
      <4>1. j \in 1..n /\ n \in j..(Eaten(p) + 1)
        BY <1>1, <2>2, <2>3
      <4>2. QED
        BY <2>3, <4>1
    <3>2. QED
      BY <3>1 DEF OutsideComments
  <2>7. From(text, Eaten(p) + 1) = From(text, n + 1)
    <3>1. ~Live(text, n)
      BY <2>3 DEF Live
    <3>2. QED
      BY <1>1, <2>2, <2>3, <3>1 DEF From
  <2>8. ASSUME NEW i \in From(text, n + 1)
        PROVE  i \in From(text, p + 1) /\ n \in (p + 1)..i
    BY <1>1, <2>3 DEF From
  <2>9. ASSUME NEW i \in From(text, p + 1), NEW k \in (p + 1)..i, text[k] = Newline
        PROVE  i \in From(text, n + 1)
    <3>1. i \in 1..Len(text) /\ Live(text, i) /\ i >= p + 1
      BY <1>1 DEF From
    <3>2. k \in N
      BY <1>1, <2>9, <3>1
    <3>3. n <= k /\ k \in Nat /\ k <= i
      BY <1>1, <2>1, <3>1, <3>2
    <3>4. i # n
      BY <2>3, <3>1 DEF Live
    <3>5. i >= n + 1
      BY <2>3, <3>1, <3>3, <3>4
    <3>6. QED
      BY <1>1, <3>1, <3>5 DEF From
  <2>10. QED
    BY <2>3, <2>4, <2>6, <2>7, <2>8, <2>9
<1>5. QED
  BY <1>3, <1>4

LEMMA CommentEaten ==
    ASSUME TypeOK, readable, OutsideComments(text, pos), EatComment
    PROVE  OutsideComments(text, pos)' /\ Ahead' = Ahead
<1>1. text \in Seq(Symbol) /\ pos \in 0..Len(text) /\ Len(text) \in Nat /\ text' = text
  BY TextFacts DEF EatComment, sourceVars
<1> DEFINE c == Min(WordsAhead)
<1>2. c \in WordsAhead /\ (\A i \in WordsAhead : c <= i) /\ text[c] = Comment
  <2>1. WordsAhead \in SUBSET Nat /\ WordsAhead # {} /\ Word = Comment
    BY <1>1 DEF WordsAhead, EatComment, AtComment
  <2>2. QED
    BY <2>1, LeastElement DEF Word
<1> HIDE DEF c
<1>3. c \in (pos + 1)..Len(text)
  BY <1>1, <1>2 DEF WordsAhead
<1>4. ASSUME NEW i \in Ahead PROVE \E k \in (pos + 1)..i : text[k] = Newline
  <2>1. i \in 1..Len(text) /\ i >= pos + 1 /\ Live(text, i)
    BY <1>1 DEF Ahead, From
  <2>2. i \in WordsAhead
    BY <1>1, <2>1 DEF WordsAhead, Live
  <2>3. c <= i
    BY <1>2, <2>2
  <2>4. PICK k \in (c + 1)..i : text[k] = Newline
    BY <1>1, <1>2, <1>3, <2>1, <2>3, NotLive
  <2>5. k \in (pos + 1)..i
    BY <1>1, <1>3, <2>1, <2>4
  <2>6. QED
    BY <2>4, <2>5
<1>5. /\ pos' = Eaten(pos) /\ OutsideComments(text, Eaten(pos))
      /\ From(text, Eaten(pos) + 1) = {i \in Ahead : \E k \in (pos + 1)..i : text[k] = Newline}
  BY <1>1, EatenFacts DEF EatComment, Ahead
<1>6. From(text, Eaten(pos) + 1) = Ahead
  BY <1>4, <1>5
<1>7. QED
  BY <1>1, <1>5, <1>6 DEF Ahead

-----------------------------------------------------------------------------
(* One line after the other.                                                *)
Succ(t, h, g) ==
    g \in Statements(t) /\ h < g /\ \A k \in Statements(t) : k <= h \/ g <= k

LEMMA StatementFacts ==
    ASSUME NEW t \in Seq(Symbol)
    PROVE  /\ Statements(t) \in SUBSET Nat /\ Statements(t) \subseteq 1..Len(t)
           /\ Len(t) \in Nat /\ Heads(t) \subseteq Statements(t)
           /\ OptionLines(t) \subseteq Statements(t)
           /\ \A m : SignalLines(t, m) \subseteq Statements(t)
BY DEF Statements, Heads, OptionLines, SignalLines

LEMMA LineAfter ==
    ASSUME NEW t \in Seq(Symbol), NEW h \in {0} \cup Statements(t)
    PROVE  /\ h \in Nat /\ AfterLine(t, h) \in (h + 1)..(Len(t) + 1)
           /\ From(t, AfterLine(t, h)) = {} => \A g \in Statements(t) : g <= h
           /\ From(t, AfterLine(t, h)) # {} => Succ(t, h, Min(From(t, AfterLine(t, h))))
           /\ From(t, AfterLine(t, h)) # {} =>
                From(t, AfterLine(t, h)) = From(t, Min(From(t, AfterLine(t, h))))
<1> DEFINE q == AfterLine(t, h)
<1>1. Len(t) \in Nat /\ h \in Nat /\ Statements(t) \in SUBSET Nat
  BY StatementFacts
<1>2. q \in (h + 1)..(Len(t) + 1) /\ (q = 1 \/ (q <= Len(t) => t[q] \in {Comment, Newline}))
  <2>1. CASE h = 0
    BY <1>1, <2>1 DEF AfterLine
  <2>2. CASE h # 0
    <3>1. h \in Statements(t) /\ q = EndOf(t, h)
      BY <2>2 DEF AfterLine
    <3>2. QED
      BY <3>1, LineShape
  <2>3. QED
    BY <2>1, <2>2
<1>3. ASSUME NEW g \in Statements(t), g < q PROVE g <= h
  <2>1. CASE h = 0
    BY <1>1, <1>3, <2>1 DEF AfterLine
  <2>2. CASE h # 0
    <3>1. /\ h \in Statements(t) /\ q = EndOf(t, h) /\ h \in 1..Len(t)
          /\ \A i \in h..(q - 1) : t[i] \notin {Comment, Newline}
      BY <2>2, LineShape DEF AfterLine
    <3>2. SUFFICES ASSUME h < g PROVE FALSE
      BY <1>1
    <3>3. g - 1 \in h..(q - 1) /\ g # 1
      BY <1>1, <1>2, <1>3, <3>1, <3>2
    <3>4. t[g - 1] = Newline
      BY <3>3 DEF Statements
    <3>5. QED
      BY <3>1, <3>3, <3>4
  <2>3. QED
    BY <2>1, <2>2
<1>4. q \in 1..(Len(t) + 1)
  BY <1>1, <1>2
<1> HIDE DEF q
<1>5. ASSUME From(t, q) = {}, NEW g \in Statements(t) PROVE g <= h
  BY <1>2, <1>3, <1>4, <1>5, NextLine
<1>6. ASSUME From(t, q) # {}
      PROVE  Succ(t, h, Min(From(t, q))) /\ From(t, q) = From(t, Min(From(t, q)))
  <2> DEFINE m == Min(From(t, q))
  <2>1. /\ m \in Statements(t) /\ m >= q /\ From(t, q) = From(t, m)
        /\ \A g \in Statements(t) : g < q \/ g >= m
    BY <1>2, <1>4, <1>6, NextLine
  <2> HIDE DEF m
  <2>2. h < m
    BY <1>1, <1>2, <2>1
  <2>3. ASSUME NEW k \in Statements(t) PROVE k <= h \/ m <= k
    BY <1>1, <1>3, <2>1
  <2>4. QED
    BY <2>1, <2>2, <2>3 DEF Succ, m
<1>7. QED
  BY <1>1, <1>2, <1>5, <1>6 DEF q

LEMMA KindOfLast ==
    ASSUME NEW t \in Seq(Symbol), NEW h \in {0} \cup Statements(t), NEW x \in Nat, h < x,
           \A k \in Statements(t) : k <= h \/ x <= k
    PROVE  KindBefore(t, x) = KindAt(t, h)
<1> DEFINE E == {g \in Statements(t) : g < x}
<1>1. Statements(t) \in SUBSET Nat /\ E \in SUBSET Nat /\ Statements(t) \subseteq 1..Len(t)
  BY StatementFacts
<1>2. CASE h = 0
  <2>1. E = {}
    BY <1>1, <1>2
  <2>2. QED
    BY <1>2, <2>1 DEF KindBefore, KindAt
<1>3. CASE h # 0
  <2>1. h \in E /\ \A y \in E : y <= h
    BY <1>1, <1>3
  <2>2. E # {} /\ KindBefore(t, x) = IF E = {} THEN "none" ELSE Kind(t, Max(E))
    BY <2>1 DEF KindBefore
  <2> HIDE DEF E
  <2>3. Max(E) = h
    BY <1>1, <2>1, GreatestIs
  <2>4. QED
    BY <1>3, <2>2, <2>3 DEF KindAt
<1>4. QED
  BY <1>2, <1>3

(* What is said of the lines before p and before q, when they are the same. *)
LEMMA SameLines ==
    ASSUME NEW p \in Nat, NEW q \in Nat, text \in Seq(Symbol),
           \A k \in Statements(text) : k < p <=> k < q
    PROVE  /\ Past(p) <=> Past(q)
           /\ Finished(p) <=> Finished(q)
           /\ \A m : Described(text, m, p) <=> Described(text, m, q)
<1>1. LinesFine(text, p) <=> LinesFine(text, q)
  BY DEF LinesFine
<1>2. \A o : LinesFor(text, p, o) = LinesFor(text, q, o)
  BY StatementFacts DEF LinesFor
<1>3. OptsAre(text, p) <=> OptsAre(text, q)
  BY <1>2 DEF OptsAre
<1>4. HeadsBefore(text, p) = HeadsBefore(text, q)
  BY StatementFacts DEF HeadsBefore
<1>5. \A m : SignalsBefore(text, m, p) = SignalsBefore(text, m, q)
  BY StatementFacts DEF SignalsBefore
<1>6. MessagesFine(text, p) <=> MessagesFine(text, q)
  BY <1>4 DEF MessagesFine
<1>7. Finished(p) <=> Finished(q)
  BY <1>4, <1>6 DEF Finished
<1>8. \A m : Described(text, m, p) <=> Described(text, m, q)
  BY <1>5 DEF Described
<1>9. QED
  BY <1>1, <1>3, <1>7, <1>8 DEF Past

LEMMA NotWhole ==
    ASSUME NEW t, NEW h \in Statements(t), ~LineOK(t, h) \/ ~Follows(t, h)
    PROVE  ~Accepted(t, OptionNames, MAX_ID)
<1>1. CASE ~LineOK(t, h)
  BY <1>1 DEF LineOK, Accepted, OptionLines
<1>2. CASE ~Follows(t, h)
  BY <1>2 DEF Follows, Accepted, Nested
<1>3. QED
  BY <1>1, <1>2

(* The token behind the end of a line.                                      *)
NextIs(h, g) ==
    /\ Succ(text, h, g) /\ Min(Ahead) = g /\ Ahead # {}
    /\ Upcoming = Kind(text, g) /\ Upcoming \in LinePrefixes
    /\ KindBefore(text, g) = KindAt(text, h)

LastIs(h) ==
    /\ Upcoming = "none" /\ Ahead = {}
    /\ \A k \in Statements(text) : k <= h
    /\ KindBefore(text, Len(text) + 1) = KindAt(text, h)

LEMMA BehindLine ==
    ASSUME TypeOK, InScope(text, UINT32), NEW h \in {0} \cup Statements(text),
           Ahead = From(text, AfterLine(text, h))
    PROVE  LastIs(h) \/ \E g \in Statements(text) : NextIs(h, g)
<1>1. text \in Seq(Symbol) /\ Len(text) \in Nat
  BY TextFacts
<1>2. h \in Nat /\ Statements(text) \subseteq 1..Len(text) /\ Statements(text) \in SUBSET Nat
  BY <1>1, StatementFacts
<1>3. CASE Ahead = {}
  <2>1. \A k \in Statements(text) : k <= h
    BY <1>1, <1>3, LineAfter
  <2>2. h < Len(text) + 1 /\ Len(text) + 1 \in Nat
    BY <1>1, <1>2
  <2>3. KindBefore(text, Len(text) + 1) = KindAt(text, h)
    BY <1>1, <2>1, <2>2, KindOfLast
  <2>4. QED
    BY <1>3, <2>1, <2>3 DEF LastIs, Upcoming
<1>4. CASE Ahead # {}
  <2> DEFINE g == Min(Ahead)
  <2>1. Succ(text, h, g)
    BY <1>1, <1>4, LineAfter
  <2>2. g \in Statements(text) /\ h < g /\ \A k \in Statements(text) : k <= h \/ g <= k
    BY <2>1 DEF Succ
  <2>3. Upcoming = Kind(text, g)
    BY <1>4 DEF Upcoming, Kind
  <2> HIDE DEF g
  <2>4. g \in Nat
    BY <1>2, <2>2
  <2>5. KindBefore(text, g) = KindAt(text, h)
    BY <1>1, <2>2, <2>4, KindOfLast
  <2>6. Kind(text, g) \in LinePrefixes
    BY <2>2 DEF InScope
  <2>7. NextIs(h, g)
    BY <1>4, <2>1, <2>3, <2>5, <2>6 DEF NextIs, g
  <2>8. QED
    BY <2>2, <2>7
<1>5. QED
  BY <1>3, <1>4

LEMMA SameNext ==
    ASSUME text \in Seq(Symbol), NEW h \in {0} \cup Statements(text),
           NEW g \in Statements(text), NextIs(h, g)
    PROVE  /\ Past(h + 1) <=> Past(g)
           /\ Finished(h + 1) <=> Finished(g)
           /\ \A m : Described(text, m, h + 1) <=> Described(text, m, g)
<1>1. /\ h < g /\ h \in Nat /\ g \in Nat /\ Statements(text) \in SUBSET Nat
      /\ \A k \in Statements(text) : k <= h \/ g <= k
  BY StatementFacts DEF NextIs, Succ
<1>2. \A k \in Statements(text) : k < h + 1 <=> k < g
  BY <1>1
<1>3. QED
  BY <1>1, <1>2, SameLines

LEMMA EnterLine ==
    ASSUME TypeOK, readable, OutsideComments(text, pos), ~AtComment, Consume,
           UNCHANGED opts, NEW h \in {0} \cup Statements(text), AtEnd(h),
           NEW g \in Statements(text), NextIs(h, g), Follows(text, g)
    PROVE  InLine(g, 1)'
<1>1. text \in Seq(Symbol) /\ text' = text /\ pos' = Moved
  BY TextFacts DEF Consume, sourceVars
<1>2. Ahead' = From(text, g + 1)
  BY <1>1, AfterWord DEF NextIs
<1>3. Past(g)
  BY <1>1, SameNext DEF AtEnd
<1>4. Past(g)'
  BY <1>1, <1>3 DEF Past, OptsAre
<1>5. 1 \in 1..Len(Statement(text, g))
  BY <1>1, LineShape
<1>6. QED
  BY <1>1, <1>2, <1>4, <1>5 DEF InLine

(* The token in front of a line's next word, or behind its last one.        *)
LEMMA LineWord ==
    ASSUME TypeOK, InScope(text, UINT32), readable, OutsideComments(text, pos), ~AtComment,
           NEW h \in Statements(text), NEW w, InLine(h, w)
    PROVE  /\ w \in Nat /\ w <= Len(Statement(text, h))
           /\ w < Len(Statement(text, h)) =>
                /\ Ahead # {} /\ Min(Ahead) = h + w
                /\ Word = Statement(text, h)[w + 1] /\ Word \in AnyWord
                /\ Peek = InterpWord(Word)
           /\ w = Len(Statement(text, h)) =>
                /\ Peek \in {"none"} \cup LinePrefixes
                /\ Ahead = From(text, AfterLine(text, h))
<1> DEFINE n == Len(Statement(text, h))
<1>1. text \in Seq(Symbol) /\ Len(text) \in Nat
  BY TextFacts
<1>2. /\ h \in 1..Len(text) /\ EndOf(text, h) \in (h + 1)..(Len(text) + 1)
      /\ n = EndOf(text, h) - h
      /\ \A v \in 1..n : Statement(text, h)[v] = text[h + v - 1]
  BY <1>1, LineShape
<1>3. w \in 1..n /\ Ahead = From(text, h + w)
  BY DEF InLine
<1> HIDE DEF n
<1>4. n \in Nat /\ w \in Nat /\ w <= n
  BY <1>2, <1>3
<1>5. ASSUME w < n
      PROVE  /\ Ahead # {} /\ Min(Ahead) = h + w
             /\ Word = Statement(text, h)[w + 1] /\ Word \in AnyWord
             /\ Peek = InterpWord(Word)
  <2>1. h + w \in h..(EndOf(text, h) - 1) /\ h + w \in 1..Len(text)
    BY <1>2, <1>4, <1>5
  <2>2. Live(text, h + w)
    BY <1>1, <2>1, LineLive
  <2>3. h + w \in Ahead /\ Ahead \in SUBSET Nat /\ \A y \in Ahead : h + w <= y
    BY <1>1, <1>3, <2>1, <2>2 DEF From
  <2>4. Min(Ahead) = h + w
    BY <2>3, LeastIs
  <2>5. Word = text[h + w] /\ Word \in AnyWord
    BY <2>3, <2>4, Queue
  <2>6. w + 1 \in 1..n /\ h + (w + 1) - 1 = h + w
    BY <1>2, <1>4, <1>5
  <2>7. Word = Statement(text, h)[w + 1]
    BY <1>2, <2>5, <2>6
  <2>8. Peek = InterpWord(Word)
    BY <2>3, <2>4, <2>5, Queue DEF Upcoming
  <2>9. QED
    BY <2>3, <2>4, <2>5, <2>7, <2>8
<1>6. ASSUME w = n
      PROVE  Peek \in {"none"} \cup LinePrefixes /\ Ahead = From(text, AfterLine(text, h))
  <2>1. Ahead = From(text, AfterLine(text, h))
    BY <1>2, <1>3, <1>6 DEF AfterLine
  <2>2. Upcoming \in {"none"} \cup LinePrefixes
    BY <2>1, BehindLine DEF LastIs, NextIs
  <2>3. QED
    BY <2>1, <2>2, Queue
<1>7. QED
  BY <1>4, <1>5, <1>6 DEF n

LEMMA NextWord ==
    ASSUME TypeOK, InScope(text, UINT32), readable, OutsideComments(text, pos), ~AtComment,
           Consume, UNCHANGED opts,
           NEW h \in Statements(text), NEW w, InLine(h, w), w < Len(Statement(text, h))
    PROVE  InLine(h, w + 1)'
<1>1. text' = text /\ pos' = Moved /\ text \in Seq(Symbol)
  BY TextFacts DEF Consume, sourceVars
<1>2. w \in Nat /\ Ahead # {} /\ Min(Ahead) = h + w
  BY LineWord
<1>3. Ahead' = From(text, (h + w) + 1)
  BY <1>1, <1>2, AfterWord
<1>4. h \in Nat /\ (h + w) + 1 = h + (w + 1) /\ w + 1 \in 1..Len(Statement(text, h))
  BY <1>1, <1>2, LineShape
<1>5. Past(h)'
  BY <1>1 DEF InLine, Past, OptsAre
<1>6. Follows(text, h)
  BY DEF InLine
<1>7. QED
  BY <1>1, <1>3, <1>4, <1>5, <1>6 DEF InLine

LEMMA RestOfLine ==
    ASSUME TypeOK, InScope(text, UINT32), readable, OutsideComments(text, pos), ~AtComment,
           pos' = Eaten(Moved), text' = text,
           NEW h \in Statements(text), NEW w, InLine(h, w), w < Len(Statement(text, h))
    PROVE  Ahead' = From(text, AfterLine(text, h))
<1>1. text \in Seq(Symbol) /\ Len(text) \in Nat /\ DOMAIN text = 1..Len(text) /\ pos \in Nat
  BY TextFacts
<1>2. w \in Nat /\ w >= 1 /\ Ahead # {} /\ Min(Ahead) = h + w
  BY LineWord DEF InLine
<1> DEFINE p == h + w
           e == EndOf(text, h)
<1>3. /\ h \in 1..Len(text) /\ e \in (h + 1)..(Len(text) + 1) /\ h # 0 /\ h \in Nat
      /\ Len(Statement(text, h)) = e - h
      /\ \A i \in h..(e - 1) : text[i] \notin {Comment, Newline}
      /\ e <= Len(text) => text[e] \in {Comment, Newline}
  BY <1>1, LineShape
<1> HIDE DEF e
<1>4. p \in 0..Len(text) /\ h <= p /\ p < e /\ p \in Nat
  BY <1>1, <1>2, <1>3
<1>5. Moved = p /\ OutsideComments(text, p)
  <2>1. Moved = p
    BY <1>2, Queue
  <2>2. Live(text, p)
    BY <1>1, <1>3, <1>4, LineLive DEF e
  <2> HIDE DEF p
  <2>3. ASSUME NEW j \in 1..p, text[j] = Comment PROVE \E k \in j..(p + 1) : text[k] = Newline
    <3>1. PICK k \in j..p : text[k] = Newline
      BY <2>2, <2>3 DEF Live
    <3>2. k \in j..(p + 1)
      BY <1>4, <3>1
    <3>3. QED
      BY <3>1, <3>2
  <2>4. QED
    BY <2>1, <2>3 DEF OutsideComments
<1> HIDE DEF p
<1>6. Ahead' = {i \in From(text, p + 1) : \E k \in (p + 1)..i : text[k] = Newline}
  BY <1>4, <1>5, EatenFacts DEF Ahead
<1>7. ASSUME NEW i \in From(text, p + 1), NEW k \in (p + 1)..i, text[k] = Newline
      PROVE  i \in From(text, e)
  <2>1. i \in 1..Len(text) /\ Live(text, i) /\ i >= p + 1
    BY <1>1, <1>4 DEF From
  <2>2. ~(k \in h..(e - 1))
    BY <1>3, <1>7
  <2>3. k >= e
    BY <1>3, <1>4, <2>1, <2>2
  <2>4. i >= e
    BY <1>3, <2>1, <2>3
  <2>5. QED
    BY <1>1, <2>1, <2>4 DEF From
<1>8. ASSUME NEW i \in From(text, e)
      PROVE  i \in From(text, p + 1) /\ \E k \in (p + 1)..i : text[k] = Newline
  <2>1. i \in 1..Len(text) /\ Live(text, i) /\ i >= e
    BY <1>1 DEF From
  <2>2. i \in From(text, p + 1)
    BY <1>1, <1>3, <1>4, <2>1 DEF From
  <2>3. e \in 1..Len(text) /\ e # i
    <3>1. e \in 1..Len(text)
      BY <1>1, <1>3, <2>1
    <3>2. text[e] \in {Comment, Newline}
      BY <1>3, <3>1
    <3>3. QED
      BY <2>1, <3>1, <3>2 DEF Live
  <2>4. CASE text[e] = Newline
    <3>1. e \in (p + 1)..i
      BY <1>3, <1>4, <2>1
    <3>2. QED
      BY <2>2, <2>4, <3>1
  <2>5. CASE text[e] = Comment
    <3>1. PICK k \in (e + 1)..i : text[k] = Newline
      BY <1>1, <1>3, <2>1, <2>3, <2>5, NotLive
    <3>2. k \in (p + 1)..i
      BY <1>3, <1>4, <2>1, <3>1
    <3>3. QED
      BY <2>2, <3>1, <3>2
  <2>6. QED
    BY <1>3, <2>3, <2>4, <2>5
<1>9. Ahead' = From(text, e)
  BY <1>6, <1>7, <1>8
<1>10. QED
  BY <1>3, <1>9 DEF AfterLine, e

-----------------------------------------------------------------------------
(* Types.                                                                   *)
LEMMA Modulo ==
    ASSUME NEW n \in Int, NEW m \in Nat \ {0}
    PROVE  n % m \in 0..(m - 1) /\ (n \in Nat /\ n < m => n % m = n)
<1>1. n % m \in 0..(m - 1)
  OBVIOUS
<1>2. ASSUME n \in Nat, n < m PROVE n % m = n
  BY <1>2
<1>3. QED
  BY <1>1, <1>2

LEMMA WordFacts ==
    ASSUME TypeOK, WordsAhead # {}
    PROVE  Word \in Symbol /\ Word.n \in Int /\ Min(WordsAhead) \in 1..Len(text)
<1>1. text \in Seq(Symbol) /\ pos \in 0..Len(text) /\ Len(text) \in Nat /\ pos \in Nat
  BY TextFacts
<1>2. WordsAhead \in SUBSET Nat /\ \A i \in WordsAhead : i \in 1..Len(text)
  BY <1>1 DEF WordsAhead
<1>3. Min(WordsAhead) \in WordsAhead
  BY <1>2, LeastElement
<1>4. Min(WordsAhead) \in 1..Len(text)
  BY <1>2, <1>3
<1>5. Word \in Symbol
  BY <1>1, <1>4 DEF Word
<1>6. \A w \in Symbol : w.n \in Int
  <2>1. Comment.n = 0 /\ Newline.n = 0
    BY DEF Comment, Newline
  <2>2. SUFFICES ASSUME NEW w \in Symbol PROVE w.n \in Int
    OBVIOUS
  <2>3. w \in AnyWord \/ w = Comment \/ w = Newline
    BY DEF Symbol
  <2>4. w \in AnyWord => w.n \in Int
    BY TokenFacts
  <2>5. w = Comment \/ w = Newline => w.n = 0
    BY <2>1
  <2>6. QED
    BY <2>3, <2>4, <2>5
<1>7. QED
  BY <1>4, <1>5, <1>6

LEMMA EatenRange ==
    ASSUME TypeOK, NEW p \in 0..Len(text)
    PROVE  Eaten(p) \in 0..Len(text)
<1> DEFINE N == {i \in (p + 1)..Len(text) : text[i] = Newline}
<1>1. Len(text) \in Nat /\ p \in Nat /\ N \in SUBSET Nat
  BY TextFacts
<1>2. CASE N = {} \/ ~readable
  BY <1>1, <1>2 DEF Eaten
<1>3. CASE N # {} /\ readable
  <2>1. Min(N) \in N
    BY <1>1, <1>3, LeastElement
  <2>2. Eaten(p) \in {Min(N), Min(N) - 1}
    BY <1>3 DEF Eaten
  <2> HIDE DEF N
  <2>3. Min(N) \in (p + 1)..Len(text)
    BY <2>1 DEF N
  <2>4. QED
    BY <1>1, <2>2, <2>3
<1>4. QED
  BY <1>2, <1>3

LEMMA MovedRange ==
    ASSUME TypeOK
    PROVE  Moved \in 0..Len(text)
<1>1. Len(text) \in Nat /\ pos \in 0..Len(text)
  BY TextFacts
<1>2. CASE WordsAhead # {}
  <2>1. Moved = Min(WordsAhead) /\ Min(WordsAhead) \in 1..Len(text)
    BY <1>2, WordFacts DEF Moved
  <2>2. QED
    BY <1>1, <2>1
<1>3. CASE WordsAhead = {}
  BY <1>1, <1>3 DEF Moved
<1>4. QED
  BY <1>2, <1>3

LEMMA SourceStep ==
    ASSUME TypeOK, [Next]_builderVars
    PROVE  text' = text /\ readable' = readable /\ reader' = reader /\ pos' \in 0..Len(text)
<1>1. Len(text) \in Nat /\ pos \in 0..Len(text) /\ Len(text) \in 0..Len(text)
  BY TextFacts
<1>2. Moved \in 0..Len(text) /\ Eaten(pos) \in 0..Len(text) /\ Eaten(Moved) \in 0..Len(text)
  BY <1>1, MovedRange, EatenRange
<1>3. ASSUME Stay PROVE UNCHANGED sourceVars /\ pos' \in 0..Len(text)
  BY <1>1, <1>3 DEF Stay
<1>4. ASSUME Consume PROVE UNCHANGED sourceVars /\ pos' \in 0..Len(text)
  BY <1>2, <1>4 DEF Consume
<1>5. ASSUME ConsumeLine PROVE UNCHANGED sourceVars /\ pos' \in 0..Len(text)
  BY <1>2, <1>5 DEF ConsumeLine
<1>6. ASSUME SkipComment PROVE UNCHANGED sourceVars /\ pos' \in 0..Len(text)
  BY <1>2, <1>6 DEF SkipComment, EatComment
<1>7. ASSUME End PROVE UNCHANGED sourceVars /\ pos' \in 0..Len(text)
  BY <1>1, <1>7 DEF End, EndReading
<1>8. ASSUME Options \/ Boards \/ Messages \/ Signals PROVE Stay \/ Consume
  BY <1>8 DEF Options, Boards, Messages, Signals
<1>9. ASSUME Signedness \/ EndianSignal PROVE Stay \/ Consume
  BY <1>9 DEF Signedness, EndianSignal
<1>10. ASSUME \/ OptionName \/ OptionValue \/ MessageName \/ MessageId
              \/ SignalName \/ DataType \/ SignalField
       PROVE Consume
  BY <1>10 DEF OptionName, OptionValue, MessageName, MessageId, SignalName, DataType, SignalField
<1>11. ASSUME BoardName \/ MessageLength PROVE ConsumeLine
  BY <1>11 DEF BoardName, MessageLength
<1>12. ASSUME Start \/ AddMessage PROVE Stay
  BY <1>12 DEF Start, AddMessage
<1>13. UNCHANGED sourceVars /\ pos' \in 0..Len(text)
  <2>1. CASE Next
    BY <2>1, <1>3, <1>4, <1>5, <1>6, <1>7, <1>8, <1>9, <1>10, <1>11, <1>12 DEF Next
  <2>2. CASE UNCHANGED builderVars
    BY <2>2, <1>1 DEF builderVars
  <2>3. QED
    BY <2>1, <2>2
<1>14. QED
  BY <1>13 DEF sourceVars

LEMMA FieldType ==
    ASSUME TypeOK, WordsAhead # {}, pc \in DOMAIN fieldTypes
    PROVE  [sigDesc EXCEPT ![pc] = FieldOf(pc, Word)] \in SignalType
<1>1. Word.n \in Int /\ sigDesc \in SignalType
  BY WordFacts DEF TypeOK
<1>2. Word.n % 256 \in 0..255
  BY <1>1
<1>3. DoubleOf(Word) \in DoubleType
  BY <1>1 DEF DoubleOf, DoubleType
<1>4. pc \in {"startBit", "length", "factor", "offset"}
  BY DEF fieldTypes
<1>5. CASE pc = "startBit" \/ pc = "length"
  BY <1>1, <1>2, <1>5 DEF FieldOf, SignalType
<1>6. CASE pc = "factor" \/ pc = "offset"
  BY <1>1, <1>3, <1>6 DEF FieldOf, SignalType
<1>7. QED
  BY <1>4, <1>5, <1>6

LEMMA WordThere ==
    ASSUME Peek # "none"
    PROVE  WordsAhead # {}
BY DEF Peek

LEMMA SignalStep ==
    ASSUME TypeOK, [Next]_builderVars
    PROVE  sigDesc' \in SignalType
<1>1. sigDesc \in SignalType
  BY DEF TypeOK
<1>2. CASE Signals
  <2>1. NewSignal \in SignalType
    BY DEF NewSignal, SignalType, DoubleOf, DoubleType, Dec
  <2>2. QED
    BY <1>1, <1>2, <2>1 DEF Signals
<1>3. CASE SignalField
  <2>1. fieldTypes[pc] \subseteq {"TT_INT", "TT_FLOAT"} /\ pc \in DOMAIN fieldTypes
    BY <1>3 DEF SignalField, fieldTypes
  <2>2. CASE Peek \in fieldTypes[pc]
    <3>1. WordsAhead # {}
      BY <2>1, <2>2, WordThere
    <3>2. QED
      BY <1>3, <2>1, <2>2, <3>1, FieldType DEF SignalField
  <2>3. CASE Peek \notin fieldTypes[pc]
    BY <1>1, <1>3, <2>3 DEF SignalField
  <2>4. QED
    BY <2>2, <2>3
<1>4. CASE Signedness
  <2>1. \A b \in BOOLEAN : [sigDesc EXCEPT !.isSigned = b] \in SignalType
    BY <1>1 DEF SignalType
  <2>2. (Word.s = "signed") \in BOOLEAN
    OBVIOUS
  <2>3. QED
    BY <1>1, <1>4, <2>1, <2>2, Zenon DEF Signedness
<1>5. CASE EndianSignal
  <2>1. \A e \in {"big", "little"} : [sigDesc EXCEPT !.endianness = e] \in SignalType
    BY <1>1 DEF SignalType
  <2>2. \/ UNCHANGED sigDesc
        \/ Word.s \in {"big", "little"} /\ sigDesc' = [sigDesc EXCEPT !.endianness = Word.s]
    BY <1>5 DEF EndianSignal, PeekKeyword
  <2>3. QED
    BY <1>1, <2>1, <2>2
<1>6. ASSUME ~Signals, ~SignalField, ~Signedness, ~EndianSignal PROVE UNCHANGED sigDesc
  <2>1. ASSUME Start \/ SkipComment \/ Options \/ OptionName \/ OptionValue \/ Boards \/ BoardName
        PROVE  UNCHANGED sigDesc
    BY <2>1 DEF Start, SkipComment, Options, OptionName, OptionValue, Boards, BoardName, parseVars
  <2>2. ASSUME \/ Messages \/ MessageName \/ MessageId \/ MessageLength
               \/ SignalName \/ DataType \/ AddMessage \/ End
        PROVE  UNCHANGED sigDesc
    BY <2>2 DEF Messages, MessageName, MessageId, MessageLength, SignalName, DataType,
         AddMessage, End, parseVars
  <2>3. QED
    BY <1>6, <2>1, <2>2 DEF Next, builderVars, parseVars
<1>7. QED
  BY <1>1, <1>2, <1>3, <1>4, <1>5, <1>6

LEMMA MessageStep ==
    ASSUME TypeOK, [Next]_builderVars
    PROVE  msgDesc' \in MessageType
<1>1. msgDesc \in MessageType /\ UINT32 \in Nat \ {0}
  BY BuilderAssumption DEF TypeOK
<1>2. CASE Messages
  <2>1. NewMessage \in MessageType
    BY <1>1 DEF NewMessage, MessageType
  <2>2. QED
    BY <1>1, <1>2, <2>1 DEF Messages
<1>3. CASE MessageId
  <2>1. CASE Peek = "TT_HEX_INT"
    <3>1. Word.n \in Int
      BY <2>1, WordThere, WordFacts
    <3>2. Word.n % UINT32 \in 0..(UINT32 - 1)
      BY <1>1, <3>1, Modulo
    <3>3. QED
      BY <1>1, <1>3, <2>1, <3>2 DEF MessageId, MessageType
  <2>2. CASE Peek # "TT_HEX_INT"
    BY <1>1, <1>3, <2>2 DEF MessageId
  <2>3. QED
    BY <2>1, <2>2
<1>4. CASE MessageLength
  <2>1. CASE Peek = "TT_INT"
    <3>1. Word.n \in Int
      BY <2>1, WordThere, WordFacts
    <3>2. Word.n % 256 \in 0..255
      BY <3>1
    <3>3. QED
      BY <1>1, <1>4, <2>1, <3>2 DEF MessageLength, MessageType
  <2>2. CASE Peek # "TT_INT"
    BY <1>1, <1>4, <2>2 DEF MessageLength
  <2>3. QED
    BY <2>1, <2>2
<1>5. CASE EndianSignal
  <2>1. sigDesc' \in SignalType
    BY SignalStep
  <2>2. Append(msgDesc.signals, sigDesc') \in Seq(SignalType)
    BY <1>1, <2>1 DEF MessageType
  <2>3. [msgDesc EXCEPT !.signals = Append(@, sigDesc')] \in MessageType
    BY <1>1, <2>2 DEF MessageType
  <2>4. QED
    BY <1>1, <1>5, <2>3 DEF EndianSignal
<1>6. ASSUME ~Messages, ~MessageId, ~MessageLength, ~EndianSignal PROVE UNCHANGED msgDesc
  <2>1. ASSUME Start \/ SkipComment \/ Options \/ OptionName \/ OptionValue \/ Boards \/ BoardName
        PROVE  UNCHANGED msgDesc
    BY <2>1 DEF Start, SkipComment, Options, OptionName, OptionValue, Boards, BoardName, parseVars
  <2>2. ASSUME \/ MessageName \/ Signals \/ SignalField \/ Signedness
               \/ SignalName \/ DataType \/ AddMessage \/ End
        PROVE  UNCHANGED msgDesc
    BY <2>2 DEF MessageName, Signals, SignalField, Signedness, SignalName, DataType,
         AddMessage, End, parseVars
  <2>3. QED
    BY <1>6, <2>1, <2>2 DEF Next, builderVars, parseVars
<1>7. QED
  BY <1>1, <1>2, <1>3, <1>4, <1>5, <1>6

LEMMA OptionStep ==
    ASSUME TypeOK, [Next]_builderVars
    PROVE  opts' \in [OptionNames -> 0..(UINT16 - 1)]
<1>1. opts \in [OptionNames -> 0..(UINT16 - 1)]
  BY DEF TypeOK, OptionNames
<1>2. CASE OptionValue
  <2>1. CASE Peek = "TT_INT" /\ option \in DOMAIN opts
    <3>1. Word.n \in Int
      BY <2>1, WordThere, WordFacts
    <3>2. Word.n % UINT16 \in 0..(UINT16 - 1)
      <4>1. UINT16 \in Nat \ {0}
        BY DEF UINT16
      <4>2. QED
        BY <3>1, <4>1, Modulo
    <3>3. QED
      BY <1>1, <1>2, <2>1, <3>2 DEF OptionValue
  <2>2. CASE ~(Peek = "TT_INT" /\ option \in DOMAIN opts)
    BY <1>1, <1>2, <2>2 DEF OptionValue
  <2>3. QED
    BY <2>1, <2>2
<1>3. ASSUME ~OptionValue PROVE UNCHANGED opts
  <2>1. ASSUME Start \/ SkipComment \/ Options \/ OptionName \/ Boards \/ BoardName \/ Messages
        PROVE  UNCHANGED opts
    BY <2>1 DEF Start, SkipComment, Options, OptionName, Boards, BoardName, Messages, optionVars
  <2>2. ASSUME \/ MessageName \/ Signals \/ SignalField \/ Signedness \/ MessageId \/ MessageLength
               \/ SignalName \/ DataType \/ EndianSignal \/ AddMessage \/ End
        PROVE  UNCHANGED opts
    BY <2>2 DEF MessageName, Signals, SignalField, Signedness, MessageId, MessageLength,
         SignalName, DataType, EndianSignal, AddMessage, End, optionVars
  <2>3. QED
    BY <1>3, <2>1, <2>2 DEF Next, builderVars, optionVars
<1>4. QED
  BY <1>1, <1>2, <1>3

LEMMA BoardStep ==
    ASSUME TypeOK, [Next]_builderVars
    PROVE  /\ sawBoard' \in BOOLEAN /\ hasMsg' \in BOOLEAN
           /\ messageIDSet' \subseteq 0..MAX_ID /\ added' \in Seq(MessageType)
<1>1. /\ sawBoard \in BOOLEAN /\ hasMsg \in BOOLEAN
      /\ messageIDSet \subseteq 0..MAX_ID /\ added \in Seq(MessageType)
      /\ msgDesc \in MessageType
  BY DEF TypeOK
<1>2. CASE Options
  BY <1>1, <1>2 DEF Options
<1>3. CASE Boards
  BY <1>1, <1>3 DEF Boards
<1>4. CASE Messages
  BY <1>1, <1>4 DEF Messages
<1>5. CASE AddMessage
  <2>1. msgDesc.id \in Nat
    <3>1. UINT32 \in Nat
      BY BuilderAssumption
    <3>2. QED
      BY <1>1, <3>1 DEF MessageType
  <2>2. \/ UNCHANGED <<added, messageIDSet>>
        \/ /\ msgDesc.id <= MAX_ID /\ added' = Append(added, msgDesc)
           /\ messageIDSet' = messageIDSet \cup {msgDesc.id}
    BY <1>5 DEF AddMessage
  <2>3. CASE UNCHANGED <<added, messageIDSet>>
    BY <1>1, <1>5, <2>3 DEF AddMessage
  <2>4. CASE /\ msgDesc.id <= MAX_ID /\ added' = Append(added, msgDesc)
             /\ messageIDSet' = messageIDSet \cup {msgDesc.id}
    <3>1. msgDesc.id \in 0..MAX_ID
      <4>1. MAX_ID \in Nat
        BY DEF MAX_ID
      <4>2. QED
        BY <2>1, <2>4, <4>1
    <3>2. added' \in Seq(MessageType)
      BY <1>1, <2>4
    <3>3. messageIDSet' \subseteq 0..MAX_ID
      BY <1>1, <2>4, <3>1
    <3>4. QED
      BY <1>1, <1>5, <3>2, <3>3 DEF AddMessage
  <2>5. QED
    BY <2>2, <2>3, <2>4
<1>6. ASSUME ~Options, ~Boards, ~Messages, ~AddMessage PROVE UNCHANGED boardVars
  <2>1. ASSUME Start \/ SkipComment \/ OptionName \/ OptionValue \/ BoardName
        PROVE  UNCHANGED boardVars
    BY <2>1 DEF Start, SkipComment, OptionName, OptionValue, BoardName
  <2>2. ASSUME \/ MessageName \/ Signals \/ SignalField \/ Signedness \/ MessageId \/ MessageLength
               \/ SignalName \/ DataType \/ EndianSignal \/ End
        PROVE  UNCHANGED boardVars
    BY <2>2 DEF MessageName, Signals, SignalField, Signedness, MessageId, MessageLength,
         SignalName, DataType, EndianSignal, End
  <2>3. QED
    BY <1>6, <2>1, <2>2 DEF Next, builderVars
<1>7. QED
  BY <1>1, <1>2, <1>3, <1>4, <1>5, <1>6 DEF boardVars

LEMMA PointStep ==
    ASSUME TypeOK, ResultInv, [Next]_builderVars
    PROVE  /\ pc' \in Points /\ result' \in {"none", "ok", "error"}
           /\ ResultInv'
<1>1. pc \in Points /\ result \in {"none", "ok", "error"} /\ sawBoard \in BOOLEAN
  BY DEF TypeOK
<1>2. ASSUME NEW p \in Points, p \notin {"end", "done"}, Goto(p), pc \notin {"end", "done"}
      PROVE  /\ pc' \in Points /\ result' \in {"none", "ok", "error"}
             /\ ResultInv'
  BY <1>1, <1>2 DEF Goto, ResultInv
<1>3. ASSUME Refuse
      PROVE  /\ pc' \in Points /\ result' \in {"none", "ok", "error"}
             /\ ResultInv'
  BY <1>3 DEF Refuse, ResultInv, Points
<1>4. ASSUME NEW p \in Points, p \notin {"end", "done"}, NEW type, Expect(type, p),
             pc \notin {"end", "done"}
      PROVE  Goto(p) \/ Refuse
  BY <1>4 DEF Expect
<1>5. {"options", "optionName", "optionValue", "boards", "boardName", "messages",
       "messageName", "messageId", "messageLength", "signals", "signalName", "dataType",
       "signedness", "endianness", "add", "startBit", "length", "factor", "offset"}
        \subseteq Points \ {"end", "done"}
  BY DEF Points, fieldTypes
<1>6. CASE Start \/ Options \/ OptionName \/ OptionValue \/ BoardName
  BY <1>2, <1>3, <1>4, <1>5, <1>6
     DEF Start, Options, OptionName, OptionValue, BoardName, At
<1>7. CASE Boards
  BY <1>1, <1>2, <1>3, <1>5, <1>7 DEF Boards, At, ResultInv, Points
<1>8. CASE Messages \/ MessageName \/ MessageId \/ MessageLength
  BY <1>2, <1>3, <1>4, <1>5, <1>8 DEF Messages, MessageName, MessageId, MessageLength, At
<1>9. CASE Signals \/ SignalName \/ DataType
  BY <1>2, <1>3, <1>4, <1>5, <1>9 DEF Signals, SignalName, DataType, At
<1>10. CASE SignalField
  <2>1. After[pc] \in {"length", "factor", "offset", "signedness"} /\ pc \notin {"end", "done"}
    BY <1>10 DEF SignalField, fieldTypes, After
  <2>2. QED
    BY <1>2, <1>3, <1>5, <1>10, <2>1 DEF SignalField
<1>11. CASE Signedness \/ EndianSignal
  BY <1>2, <1>3, <1>5, <1>11 DEF Signedness, EndianSignal, At
<1>12. CASE AddMessage
  BY <1>2, <1>3, <1>5, <1>12 DEF AddMessage
<1>13. CASE SkipComment \/ UNCHANGED builderVars
  BY <1>1, <1>13 DEF SkipComment, builderVars, ResultInv
<1>14. CASE End
  BY <1>1, <1>14 DEF End, ResultInv, Points
<1>15. QED
  BY <1>6, <1>7, <1>8, <1>9, <1>10, <1>11, <1>12, <1>13, <1>14 DEF Next

LEMMA TypeStep ==
    ASSUME TypeOK, ResultInv, [Next]_builderVars
    PROVE  TypeOK' /\ ResultInv'
<1>1. text \in Seq(Symbol) /\ readable \in BOOLEAN /\ reader \in Readers
  BY DEF TypeOK
<1>2. text' = text /\ readable' = readable /\ reader' = reader /\ pos' \in 0..Len(text)
  BY SourceStep
<1>3. pc' \in Points /\ result' \in {"none", "ok", "error"} /\ ResultInv'
  BY PointStep
<1>4. sigDesc' \in SignalType /\ msgDesc' \in MessageType
  BY SignalStep, MessageStep
<1>5. opts' \in [{"logPeriodMs", "wirelessPeriodMs"} -> 0..(UINT16 - 1)]
  BY OptionStep DEF OptionNames
<1>6. /\ sawBoard' \in BOOLEAN /\ hasMsg' \in BOOLEAN
      /\ messageIDSet' \subseteq 0..MAX_ID /\ added' \in Seq(MessageType)
  BY BoardStep
<1>7. QED
  BY <1>1, <1>2, <1>3, <1>4, <1>5, <1>6 DEF TypeOK

(* A file that cannot be read has no board.                                 *)
LEMMA UnreadableStep ==
    ASSUME TypeOK, ~readable, UnreadableInv, [Next]_builderVars
    PROVE  UnreadableInv'
<1>1. Peek = "none"
  BY DEF Peek, WordsAhead
<1>2. CASE Start
  BY <1>2 DEF Start, Goto, UnreadableInv, boardVars
<1>3. CASE SkipComment \/ UNCHANGED builderVars
  BY <1>3 DEF SkipComment, builderVars, boardVars, UnreadableInv
<1>4. CASE Options
  BY <1>1, <1>4 DEF Options, Goto, UnreadableInv
<1>5. CASE Boards
  BY <1>1, <1>5 DEF Boards, UnreadableInv
<1>6. CASE End
  BY <1>6 DEF End, UnreadableInv, boardVars
<1>7. ASSUME \/ OptionName \/ OptionValue \/ BoardName \/ Messages \/ MessageName \/ MessageId
             \/ MessageLength \/ Signals \/ SignalName \/ DataType \/ Signedness
             \/ EndianSignal \/ AddMessage
      PROVE  FALSE
  BY <1>7 DEF OptionName, OptionValue, BoardName, Messages, MessageName, MessageId,
       MessageLength, Signals, SignalName, DataType, Signedness, EndianSignal,
       AddMessage, At, UnreadableInv
<1>8. ASSUME SignalField PROVE FALSE
  BY <1>8 DEF SignalField, fieldTypes, UnreadableInv
<1>9. QED
  BY <1>2, <1>3, <1>4, <1>5, <1>6, <1>7, <1>8 DEF Next

-----------------------------------------------------------------------------
(* What steps leave alone.                                                  *)
Parsing ==
    /\ TypeOK /\ ResultInv /\ readable /\ OutsideComments(text, pos)
    /\ InScope(text, UINT32) /\ ParseInv

LEMMA Frames ==
    ASSUME text' = text
    PROVE  /\ UNCHANGED opts => \A q : Past(q)' <=> Past(q)
           /\ UNCHANGED <<messageIDSet, added>> => \A q : Finished(q)' <=> Finished(q)
           /\ UNCHANGED msgDesc => \A m, q : Described(text, m, q)' <=> Described(text, m, q)
           /\ UNCHANGED sigDesc => \A s, w : SignalRead(s, w)' <=> SignalRead(s, w)
           /\ UNCHANGED sigDesc => \A s, w : SignRead(s, w)' <=> SignRead(s, w)
           /\ UNCHANGED added /\ AddedInv => AddedInv'
<1>1. ASSUME UNCHANGED opts, NEW q PROVE Past(q)' <=> Past(q)
  BY <1>1 DEF Past, OptsAre
<1>2. ASSUME UNCHANGED <<messageIDSet, added>>, NEW q PROVE Finished(q)' <=> Finished(q)
  BY <1>2 DEF Finished
<1>3. ASSUME UNCHANGED msgDesc, NEW m, NEW q
      PROVE  Described(text, m, q)' <=> Described(text, m, q)
  BY <1>3 DEF Described
<1>4. ASSUME UNCHANGED sigDesc, NEW s, NEW w PROVE SignalRead(s, w)' <=> SignalRead(s, w)
  BY <1>4 DEF SignalRead
<1>5. ASSUME UNCHANGED sigDesc, NEW s, NEW w PROVE SignRead(s, w)' <=> SignRead(s, w)
  BY <1>5 DEF SignRead
<1>6. ASSUME UNCHANGED added, AddedInv PROVE AddedInv'
  BY <1>6 DEF AddedInv
<1>7. QED
  BY <1>1, <1>2, <1>3, <1>4, <1>5, <1>6

LEMMA SamePlace ==
    ASSUME text' = text, Ahead' = Ahead
    PROVE  /\ Doomed' <=> Doomed
           /\ Upcoming' = Upcoming
           /\ UNCHANGED opts => \A h : AtEnd(h)' <=> AtEnd(h)
           /\ UNCHANGED opts => \A h, w : InLine(h, w)' <=> InLine(h, w)
<1>1. Upcoming' = Upcoming
  BY DEF Upcoming
<1>2. Doomed' <=> Doomed
  BY <1>1 DEF Doomed
<1>3. ASSUME UNCHANGED opts, NEW h PROVE AtEnd(h)' <=> AtEnd(h)
  BY <1>3, Frames DEF AtEnd
<1>4. ASSUME UNCHANGED opts, NEW h, NEW w PROVE InLine(h, w)' <=> InLine(h, w)
  BY <1>4, Frames DEF InLine
<1>5. QED
  BY <1>1, <1>2, <1>3, <1>4

LEMMA StayFacts ==
    ASSUME Stay
    PROVE  text' = text /\ Ahead' = Ahead
BY DEF Stay, sourceVars, Ahead

LEMMA OnlyHere ==
    ASSUME AddedInv'
    PROVE  /\ pc' = "options" /\ OptionsInv' => ParseInv'
           /\ pc' \in {"optionName", "optionValue"} /\ OptionInv' => ParseInv'
           /\ pc' = "boards" /\ BoardsInv' => ParseInv'
           /\ pc' = "boardName" /\ BoardNameInv' => ParseInv'
           /\ pc' = "messages" /\ MessagesInv' => ParseInv'
           /\ pc' \in {"messageName", "messageId", "messageLength"} /\ HeaderInv' => ParseInv'
           /\ pc' \in {"signals", "add"} /\ SignalsInv' => ParseInv'
           /\ pc' \in {"signalName", "dataType", "startBit", "length", "factor", "offset",
                       "signedness", "endianness"} /\ SignalInv' => ParseInv'
           /\ pc' = "end" /\ EndInv' => ParseInv'
<1>1. pc' \notin {"start", "options"} => OptionsInv'
  BY DEF OptionsInv
<1>2. pc' \notin {"optionName", "optionValue"} => OptionInv'
  BY DEF OptionInv
<1>3. pc' # "boards" => BoardsInv'
  BY DEF BoardsInv
<1>4. pc' # "boardName" => BoardNameInv'
  BY DEF BoardNameInv
<1>5. pc' # "messages" => MessagesInv'
  BY DEF MessagesInv
<1>6. pc' \notin {"messageName", "messageId", "messageLength"} => HeaderInv'
  BY DEF HeaderInv, HeaderWords
<1>7. pc' \notin {"signals", "add"} => SignalsInv'
  BY DEF SignalsInv
<1>8. pc' \notin {"signalName", "dataType", "startBit", "length", "factor", "offset",
                  "signedness", "endianness"} => SignalInv'
  BY DEF SignalInv, SignalWords
<1>9. pc' \notin {"end", "done"} => EndInv'
  BY DEF EndInv
<1>10. QED
  BY <1>1, <1>2, <1>3, <1>4, <1>5, <1>6, <1>7, <1>8, <1>9 DEF ParseInv

LEMMA Refused ==
    ASSUME ParseInv, text' = text, UNCHANGED added, Refuse, ~Accepted(text, OptionNames, MAX_ID)
    PROVE  ParseInv'
<1>1. AddedInv'
  BY Frames DEF ParseInv
<1>2. pc' = "end" /\ EndInv'
  BY DEF Refuse, EndInv
<1>3. QED
  BY <1>1, <1>2, OnlyHere

LEMMA Following ==
    /\ MayFollow["TT_OPTION_PREFIX"] = {"none", "TT_OPTION_PREFIX"}
    /\ MayFollow["TT_BOARD_PREFIX"] = {"none", "TT_OPTION_PREFIX", "TT_SIGNAL_PREFIX"}
    /\ MayFollow["TT_MESSAGE_PREFIX"] = {"TT_BOARD_PREFIX", "TT_SIGNAL_PREFIX"}
    /\ MayFollow["TT_SIGNAL_PREFIX"] = {"TT_MESSAGE_PREFIX", "TT_SIGNAL_PREFIX"}
BY DEF MayFollow, LinePrefixes

(* Steps that only change where the reader stands.                          *)
LEMMA SameView ==
    ASSUME ParseInv, text' = text, Ahead' = Ahead,
           UNCHANGED <<pc, result, optionVars, boardVars, parseVars>>
    PROVE  ParseInv'
<1>1. /\ UNCHANGED pc /\ UNCHANGED result /\ UNCHANGED opts /\ UNCHANGED option
      /\ UNCHANGED sawBoard /\ UNCHANGED hasMsg /\ UNCHANGED messageIDSet
      /\ UNCHANGED added /\ UNCHANGED msgDesc /\ UNCHANGED sigDesc
      /\ UNCHANGED <<messageIDSet, added>>
  BY DEF optionVars, boardVars, parseVars
<1>2. /\ Doomed' <=> Doomed
      /\ Upcoming' = Upcoming
      /\ \A h : AtEnd(h)' <=> AtEnd(h)
      /\ \A h, w : InLine(h, w)' <=> InLine(h, w)
  BY <1>1, SamePlace
<1>3. /\ \A q : Past(q)' <=> Past(q)
      /\ \A q : Finished(q)' <=> Finished(q)
      /\ \A m, q : Described(text, m, q)' <=> Described(text, m, q)
      /\ \A s, w : SignalRead(s, w)' <=> SignalRead(s, w)
      /\ \A s, w : SignRead(s, w)' <=> SignRead(s, w)
      /\ AddedInv'
  BY <1>1, Frames DEF ParseInv
<1>4. OptionsInv'
  <2>1. \A h : OptionsAt(h)' <=> OptionsAt(h)
    BY <1>1, <1>2, <1>3 DEF OptionsAt
  <2>2. QED
    BY <1>1, <1>2, <2>1 DEF ParseInv, OptionsInv
<1>5. OptionInv'
  <2>1. \A h : InOption(h)' <=> InOption(h)
    BY <1>1, <1>2, <1>3 DEF InOption
  <2>2. QED
    BY <1>1, <2>1 DEF ParseInv, OptionInv
<1>6. BoardsInv'
  <2>1. \A h : BoardsAt(h)' <=> BoardsAt(h)
    BY <1>1, <1>2, <1>3 DEF BoardsAt
  <2>2. QED
    BY <1>1, <1>2, <2>1 DEF ParseInv, BoardsInv
<1>7. BoardNameInv'
  BY <1>1, <1>2, <1>3 DEF ParseInv, BoardNameInv
<1>8. MessagesInv'
  <2>1. \A h : MessagesAt(h)' <=> MessagesAt(h)
    BY <1>1, <1>2, <1>3 DEF MessagesAt
  <2>2. QED
    BY <1>1, <1>2, <2>1 DEF ParseInv, MessagesInv
<1>9. HeaderInv'
  <2>1. \A h, w : InHeader(h, w)' <=> InHeader(h, w)
    BY <1>1, <1>2, <1>3 DEF InHeader
  <2>2. QED
    BY <1>1, <2>1 DEF ParseInv, HeaderInv
<1>10. SignalsInv'
  <2>1. \A m, h : SignalsAt(m, h)' <=> SignalsAt(m, h)
    BY <1>1, <1>2, <1>3 DEF SignalsAt
  <2>2. QED
    BY <1>1, <2>1 DEF ParseInv, SignalsInv
<1>11. SignalInv'
  <2>1. \A m, h, w : InSignal(m, h, w)' <=> InSignal(m, h, w)
    BY <1>1, <1>2, <1>3 DEF InSignal
  <2>2. QED
    BY <1>1, <1>3, <2>1 DEF ParseInv, SignalInv
<1>12. EndInv'
  BY <1>1 DEF ParseInv, EndInv, OptsAre
<1>13. QED
  BY <1>3, <1>4, <1>5, <1>6, <1>7, <1>8, <1>9, <1>10, <1>11, <1>12 DEF ParseInv

LEMMA SkipCommentStep ==
    ASSUME Parsing, SkipComment
    PROVE  ParseInv'
<1>1. EatComment /\ UNCHANGED <<pc, result, optionVars, boardVars, parseVars>>
  BY DEF SkipComment
<1>2. text' = text /\ Ahead' = Ahead
  BY <1>1, CommentEaten DEF Parsing, EatComment, sourceVars
<1>3. QED
  BY <1>1, <1>2, SameView DEF Parsing

LEMMA StutterStep ==
    ASSUME Parsing, UNCHANGED builderVars
    PROVE  ParseInv'
<1>1. Stay /\ UNCHANGED <<pc, result, optionVars, boardVars, parseVars>>
  BY DEF builderVars, Stay
<1>2. QED
  BY <1>1, StayFacts, SameView DEF Parsing

LEMMA StartStep ==
    ASSUME Parsing, Start
    PROVE  ParseInv'
<1>1. /\ pc = "start" /\ pc' = "options" /\ Stay /\ UNCHANGED opts /\ UNCHANGED added
      /\ UNCHANGED sawBoard /\ UNCHANGED <<messageIDSet, added>> /\ UNCHANGED messageIDSet
  BY DEF Start, Goto, optionVars, boardVars
<1>2. text' = text /\ Ahead' = Ahead
  BY <1>1, StayFacts
<1>3. \A h : OptionsAt(h)' <=> OptionsAt(h)
  BY <1>1, <1>2, SamePlace, Frames DEF OptionsAt
<1>4. OptionsInv' /\ AddedInv'
  BY <1>1, <1>2, <1>3, SamePlace, Frames DEF Parsing, ParseInv, OptionsInv
<1>5. QED
  BY <1>1, <1>4, OnlyHere

-----------------------------------------------------------------------------
(* Options.                                                                 *)
LEMMA OptionsStep ==
    ASSUME Parsing, Options
    PROVE  ParseInv'
<1>1. /\ TypeOK /\ readable /\ OutsideComments(text, pos) /\ InScope(text, UINT32)
      /\ ~AtComment /\ text \in Seq(Symbol) /\ ParseInv
  BY TextFacts DEF Parsing, Options, At
<1>2. /\ pc = "options" /\ UNCHANGED opts /\ UNCHANGED added /\ UNCHANGED sawBoard
      /\ ~sawBoard /\ messageIDSet = {}
      /\ Doomed \/ \E h \in {0} \cup Statements(text) : OptionsAt(h)
  BY <1>1 DEF Options, At, optionVars, ParseInv, OptionsInv
<1>3. Peek = Upcoming
  BY <1>1, Queue
<1>4. text' = text /\ AddedInv'
  <2>1. text' = text
    BY DEF Options, Consume, Stay, sourceVars
  <2>2. QED
    BY <1>1, <1>2, <2>1, Frames DEF ParseInv
<1>5. CASE Peek = "TT_OPTION_PREFIX"
  <2>1. Consume /\ pc' = "optionName" /\ UNCHANGED messageIDSet
    BY <1>5 DEF Options, Goto
  <2>2. PICK h \in {0} \cup Statements(text) : OptionsAt(h)
    BY <1>2, <1>3, <1>5 DEF Doomed, LinePrefixes
  <2>3. /\ KindAt(text, h) \in {"none", "TT_OPTION_PREFIX"} /\ AtEnd(h) /\ Finished(h + 1)
        /\ Ahead = From(text, AfterLine(text, h))
    BY <2>2 DEF OptionsAt, AtEnd
  <2>4. PICK g \in Statements(text) : NextIs(h, g)
    BY <1>1, <1>3, <1>5, <2>3, BehindLine DEF LastIs
  <2>5. Kind(text, g) = "TT_OPTION_PREFIX" /\ Follows(text, g)
    BY <1>3, <1>5, <2>3, <2>4, Following DEF NextIs, Follows
  <2>6. InLine(g, 1)'
    BY <1>1, <1>2, <2>1, <2>3, <2>4, <2>5, EnterLine
  <2>7. Finished(g)'
    BY <1>1, <1>2, <1>4, <2>1, <2>3, <2>4, SameNext, Frames
  <2>8. g \in OptionLines(text')
    BY <1>4, <2>5 DEF OptionLines
  <2>9. InOption(g)'
    BY <2>1, <2>6, <2>7, <2>8 DEF InOption
  <2>10. OptionInv'
    BY <1>2, <2>1, <2>8, <2>9 DEF OptionInv
  <2>11. QED
    BY <1>4, <2>1, <2>10, OnlyHere
<1>6. CASE Peek # "TT_OPTION_PREFIX"
  <2>1. Stay /\ pc' = "boards" /\ messageIDSet' = {}
    BY <1>6 DEF Options, Goto
  <2>2. Ahead' = Ahead /\ UNCHANGED <<messageIDSet, added>>
    BY <1>2, <2>1, StayFacts
  <2>3. CASE Doomed
    BY <1>4, <2>1, <2>2, <2>3, SamePlace, OnlyHere DEF BoardsInv
  <2>4. CASE \E h \in {0} \cup Statements(text) : OptionsAt(h)
    <3>1. PICK h \in {0} \cup Statements(text) : OptionsAt(h)
      BY <2>4
    <3>2. KindAt(text, h) \in {"none", "TT_OPTION_PREFIX"} /\ AtEnd(h) /\ Finished(h + 1)
      BY <3>1 DEF OptionsAt
    <3>3. AtEnd(h)' /\ Finished(h + 1)' /\ Upcoming' = Upcoming
      BY <1>2, <1>4, <2>2, <3>2, SamePlace, Frames
    <3>4. KindAt(text', h) \in {"none", "TT_OPTION_PREFIX"} /\ h \in {0} \cup Statements(text')
      BY <1>4, <3>2
    <3>5. sawBoard' = FALSE
      BY <1>1, <1>2 DEF TypeOK
    <3>6. BoardsAt(h)'
      BY <1>3, <1>6, <3>3, <3>4, <3>5 DEF BoardsAt
    <3>7. BoardsInv'
      BY <3>4, <3>6 DEF BoardsInv
    <3>8. QED
      BY <1>4, <2>1, <3>7, OnlyHere
  <2>5. QED
    BY <1>2, <2>3, <2>4
<1>7. QED
  BY <1>5, <1>6

LEMMA OptionNameStep ==
    ASSUME Parsing, OptionName
    PROVE  ParseInv'
<1>1. /\ TypeOK /\ readable /\ OutsideComments(text, pos) /\ InScope(text, UINT32)
      /\ ~AtComment /\ text \in Seq(Symbol) /\ ParseInv
  BY TextFacts DEF Parsing, OptionName, At
<1>2. /\ pc = "optionName" /\ pc' = "optionValue" /\ UNCHANGED opts /\ Consume
      /\ UNCHANGED <<messageIDSet, added>> /\ UNCHANGED added
      /\ option' = IF Peek = "TT_IDENTIFIER" THEN Word.s ELSE "none"
      /\ ~sawBoard' /\ messageIDSet' = {}
  BY <1>1 DEF OptionName, At, Goto, boardVars, ParseInv, OptionInv
<1>3. PICK h \in OptionLines(text) : InOption(h)
  BY <1>1, <1>2 DEF ParseInv, OptionInv
<1> DEFINE s == Statement(text, h)
<1>4. /\ h \in Statements(text) /\ Kind(text, h) = "TT_OPTION_PREFIX"
      /\ InLine(h, 1) /\ Finished(h)
  BY <1>2, <1>3 DEF InOption, OptionLines
<1>5. text' = text /\ AddedInv'
  <2>1. text' = text
    BY <1>2 DEF Consume, sourceVars
  <2>2. QED
    BY <1>1, <1>2, <2>1, Frames DEF ParseInv
<1>6. Finished(h)'
  BY <1>2, <1>4, <1>5, Frames
<1>7. Len(s) \in Nat /\ s[1] \in AnyWord /\ InterpWord(s[1]) = "TT_OPTION_PREFIX"
  <2>1. s \in Seq(AnyWord) /\ Len(s) = EndOf(text, h) - h /\ EndOf(text, h) > h
        /\ h \in Nat /\ EndOf(text, h) \in Nat
    BY <1>1, <1>4, LineShape
  <2>2. Kind(text, h) = InterpWord(s[1])
    BY <1>1, <1>4, LineShape
  <2> HIDE DEF s
  <2>3. Len(s) \in Nat /\ 1 \in 1..Len(s)
    BY <2>1
  <2>4. QED
    BY <1>4, <2>1, <2>2, <2>3
<1>8. CASE 1 < Len(s) /\ IsName(s[2])
  <2>1. InLine(h, 2)'
    BY <1>1, <1>2, <1>4, <1>8, NextWord
  <2>2. option' = s[2].s
    <3>1. Word = s[1 + 1] /\ Peek = InterpWord(Word)
      BY <1>1, <1>4, <1>8, LineWord
    <3>2. QED
      BY <1>2, <1>8, <3>1 DEF IsName
  <2>3. InOption(h)'
    BY <1>2, <1>3, <1>5, <1>6, <1>8, <2>1, <2>2 DEF InOption
  <2>4. QED
    BY <1>2, <1>3, <1>5, <2>3, OnlyHere DEF OptionInv
<1>9. CASE ~(1 < Len(s) /\ IsName(s[2]))
  <2>1. ~LineOK(text, h)
    <3>1. ~Complete(s)
      <4>1. ASSUME Complete(s) PROVE Len(s) = 3 /\ IsName(s[2])
        BY <1>7, <4>1 DEF Complete
      <4>2. QED
        BY <1>9, <4>1
    <3>2. QED
      BY <3>1 DEF LineOK
  <2>2. Peek # "TT_IDENTIFIER"
    <3>1. CASE 1 < Len(s)
      <4>1. Word = s[1 + 1] /\ Peek = InterpWord(Word)
        BY <1>1, <1>4, <3>1, LineWord
      <4>2. QED
        BY <1>9, <3>1, <4>1 DEF IsName
    <3>2. CASE ~(1 < Len(s))
      <4>1. 1 = Len(s)
        <5>1. 1 <= Len(s)
          BY <1>1, <1>4, LineWord
        <5> HIDE DEF s
        <5>2. QED
          BY <1>7, <3>2, <5>1
      <4>2. Peek \in {"none"} \cup LinePrefixes
        BY <1>1, <1>4, <4>1, LineWord
      <4>3. QED
        BY <4>2 DEF LinePrefixes
    <3>3. QED
      BY <3>1, <3>2
  <2>3. option' \notin OptionNames
    BY <1>2, <2>2 DEF OptionNames
  <2>4. InOption(h)'
    BY <1>2, <1>3, <1>5, <1>6, <2>1, <2>3 DEF InOption
  <2>5. QED
    BY <1>2, <1>3, <1>5, <2>4, OnlyHere DEF OptionInv
<1>10. QED
  BY <1>8, <1>9

(* The line for an option is read: it is the last one so far.               *)
LEMMA OptionSet ==
    ASSUME text \in Seq(Symbol), NEW h \in OptionLines(text), NEW o \in OptionNames,
           Statement(text, h)[2] = Txt(o), OptsAre(text, h), opts \in [OptionNames -> Nat],
           text' = text, opts' = [opts EXCEPT ![o] = Statement(text, h)[3].n]
    PROVE  OptsAre(text, h + 1)'
<1>1. /\ Statements(text) \in SUBSET Nat /\ OptionLines(text) \subseteq Statements(text)
      /\ h \in Nat /\ h \in Statements(text)
  BY StatementFacts
<1>2. \A g \in Statements(text) : g < h + 1 <=> g < h \/ g = h
  BY <1>1
<1>3. SUFFICES ASSUME NEW p \in OptionNames
               PROVE  opts'[p] = IF LinesFor(text, h + 1, p) = {} THEN 100
                                 ELSE Statement(text, Max(LinesFor(text, h + 1, p)))[3].n
  BY DEF OptsAre
<1>4. CASE p = o
  <2> DEFINE L == LinesFor(text, h + 1, p)
  <2>1. h \in L /\ L \in SUBSET Nat /\ \A y \in L : y <= h
    BY <1>1, <1>2, <1>4 DEF LinesFor
  <2>2. L # {}
    BY <2>1
  <2> HIDE DEF L
  <2>3. Max(L) = h
    BY <2>1, GreatestIs
  <2>4. opts'[p] = Statement(text, h)[3].n
    BY <1>4
  <2>5. QED
    BY <2>2, <2>3, <2>4 DEF L
<1>5. CASE p # o
  <2>1. Statement(text, h)[2] # Txt(p)
    BY <1>5 DEF Txt
  <2>2. LinesFor(text, h + 1, p) = LinesFor(text, h, p)
    BY <1>1, <1>2, <2>1 DEF LinesFor
  <2>3. opts'[p] = opts[p]
    BY <1>5
  <2>4. opts[p] = IF LinesFor(text, h, p) = {} THEN 100
                  ELSE Statement(text, Max(LinesFor(text, h, p)))[3].n
    BY DEF OptsAre
  <2>5. QED
    BY <2>2, <2>3, <2>4
<1>6. QED
  BY <1>4, <1>5

LEMMA OtherLine ==
    ASSUME text \in Seq(Symbol), NEW h \in Statements(text), h \notin OptionLines(text),
           OptsAre(text, h)
    PROVE  OptsAre(text, h + 1)
<1>1. /\ Statements(text) \in SUBSET Nat /\ OptionLines(text) \subseteq Statements(text)
      /\ h \in Nat
  BY StatementFacts
<1>2. \A g \in Statements(text) : g < h + 1 <=> g < h \/ g = h
  BY <1>1
<1>3. \A o : LinesFor(text, h + 1, o) = LinesFor(text, h, o)
  BY <1>1, <1>2 DEF LinesFor
<1>4. QED
  BY <1>3 DEF OptsAre

LEMMA LineRead ==
    ASSUME NEW t \in Seq(Symbol), NEW h \in Statements(t), LinesFine(t, h), LineOK(t, h), Follows(t, h)
    PROVE  LinesFine(t, h + 1)
<1>1. Statements(t) \in SUBSET Nat /\ h \in Nat
  BY StatementFacts
<1>2. \A g \in Statements(t) : g < h + 1 <=> g < h \/ g = h
  BY <1>1
<1>3. QED
  BY <1>2 DEF LinesFine

LEMMA NoHead ==
    ASSUME text \in Seq(Symbol), NEW h \in Statements(text), h \notin Heads(text), Finished(h)
    PROVE  Finished(h + 1)
<1>1. /\ Statements(text) \in SUBSET Nat /\ Heads(text) \subseteq Statements(text)
      /\ h \in Nat
  BY StatementFacts
<1>2. \A g \in Statements(text) : g < h + 1 <=> g < h \/ g = h
  BY <1>1
<1>3. HeadsBefore(text, h + 1) = HeadsBefore(text, h)
  BY <1>1, <1>2 DEF HeadsBefore
<1>4. QED
  BY <1>3 DEF Finished, MessagesFine

LEMMA OptionValueStep ==
    ASSUME Parsing, OptionValue
    PROVE  ParseInv'
<1>1. /\ TypeOK /\ readable /\ OutsideComments(text, pos) /\ InScope(text, UINT32)
      /\ ~AtComment /\ text \in Seq(Symbol) /\ ParseInv
  BY TextFacts DEF Parsing, OptionValue, At
<1>2. /\ pc = "optionValue" /\ Consume
      /\ UNCHANGED <<messageIDSet, added>> /\ UNCHANGED added
      /\ ~sawBoard' /\ messageIDSet' = {}
  BY <1>1 DEF OptionValue, At, boardVars, ParseInv, OptionInv
<1>3. PICK h \in OptionLines(text) : InOption(h)
  BY <1>1, <1>2 DEF ParseInv, OptionInv
<1> DEFINE s == Statement(text, h)
<1>4. h \in Statements(text) /\ Kind(text, h) = "TT_OPTION_PREFIX" /\ Finished(h)
  BY <1>2, <1>3 DEF InOption, OptionLines
<1>5. /\ text' = text /\ AddedInv' /\ pos' = Moved
      /\ opts \in [OptionNames -> 0..(UINT16 - 1)] /\ opts \in [OptionNames -> Nat]
  <2>1. text' = text /\ pos' = Moved
    BY <1>2 DEF Consume, sourceVars
  <2>2. opts \in [OptionNames -> 0..(UINT16 - 1)]
    BY <1>1 DEF TypeOK, OptionNames
  <2>3. opts \in [OptionNames -> Nat]
    <3>1. UINT16 \in Nat
      BY DEF UINT16
    <3>2. QED
      BY <2>2, <3>1
  <2>4. QED
    BY <1>1, <1>2, <2>1, <2>2, <2>3, Frames DEF ParseInv
<1>6. /\ s \in Seq(AnyWord) /\ Len(s) \in Nat /\ Len(s) >= 1
      /\ InterpWord(s[1]) = "TT_OPTION_PREFIX"
  <2>1. s \in Seq(AnyWord) /\ Len(s) = EndOf(text, h) - h /\ EndOf(text, h) \in (h + 1)..(Len(text) + 1)
        /\ h \in 1..Len(text) /\ Kind(text, h) = InterpWord(s[1])
    BY <1>1, <1>4, LineShape
  <2> HIDE DEF s
  <2>2. QED
    BY <1>4, <2>1
<1>7. CASE ~LineOK(text, h) /\ option \notin OptionNames
  <2>1. Refuse
    BY <1>5, <1>7 DEF OptionValue
  <2>2. QED
    BY <1>1, <1>2, <1>4, <1>5, <1>7, <2>1, NotWhole, Refused
<1>8. CASE InLine(h, 2) /\ IsName(s[2]) /\ option = s[2].s
  <2>1. /\ 2 < Len(s) => Word = s[2 + 1] /\ Word \in AnyWord /\ Peek = InterpWord(Word)
        /\ 2 <= Len(s)
        /\ 2 = Len(s) => Peek \in {"none"} \cup LinePrefixes
    BY <1>1, <1>4, <1>8, LineWord
  <2>2. Peek = "TT_INT" => 2 < Len(s)
    <3> DEFINE n == Len(s)
    <3>1. Peek = "TT_INT" => n # 2
      BY <2>1 DEF LinePrefixes
    <3>2. 2 <= n /\ n \in Nat
      BY <1>6, <2>1
    <3> HIDE DEF n
    <3>3. Peek = "TT_INT" => 2 < n
      BY <3>1, <3>2
    <3>4. QED
      BY <3>3 DEF n
  <2>3. CASE Peek = "TT_INT" /\ option \in OptionNames
    <3>1. /\ 2 < Len(s) /\ Word = s[3] /\ s[3] \in AnyWord /\ s[3].form = "dec" /\ s[3].n \in Int
      <4>1. 2 < Len(s) /\ 2 + 1 = 3
        BY <2>2, <2>3
      <4>2. Word = s[3] /\ Word \in AnyWord /\ InterpWord(Word) = "TT_INT"
        BY <2>1, <2>3, <4>1
      <4>3. Word.form = "dec" /\ Word.n \in Int
        BY <4>2, TokenFacts
      <4>4. QED
        BY <4>1, <4>2, <4>3
    <3>2. opts' = [opts EXCEPT ![option] = s[3].n % UINT16] /\ pc' = "options"
      BY <1>5, <2>3, <3>1 DEF OptionValue, Goto
    <3>3. Ahead' = From(text, (h + 2) + 1)
      <4>1. Ahead # {} /\ Min(Ahead) = h + 2
        BY <1>1, <1>4, <1>8, <3>1, LineWord
      <4>2. QED
        BY <1>1, <1>5, <4>1, AfterWord
    <3>4. s[2] = Txt(option)
      <4>1. s[2] \in AnyWord
        <5> HIDE DEF s
        <5>1. 2 \in 1..Len(s)
          BY <1>6, <3>1
        <5>2. QED
          BY <1>6, <5>1
      <4>2. QED
        BY <1>8, <4>1, TokenFacts DEF IsName
    <3>5. LinesFine(text, h) /\ OptsAre(text, h) /\ Follows(text, h)
      BY <1>8 DEF InLine, Past
    <3>6. h \notin Heads(text)
      BY <1>4 DEF Heads
    <3>7. Finished(h + 1)'
      <4>1. Finished(h + 1)
        BY <1>1, <1>4, <3>6, NoHead
      <4>2. QED
        BY <1>2, <1>5, <4>1, Frames
    <3>8. CASE Len(s) = 3
      <4>1. Complete(s)
        BY <1>6, <1>8, <3>1, <3>8 DEF Complete
      <4>2. LineOK(text, h)
        BY <1>8, <2>3, <4>1 DEF LineOK
      <4>3. s[3].n \in Nat /\ s[3].n < UINT16
        <5>1. s[3].n \in 0..(UINT16 - 1)
          BY <1>1, <1>4, <1>6, <4>1 DEF InScope, InWidth
        <5>2. UINT16 \in Nat
          BY DEF UINT16
        <5>3. QED
          BY <5>1, <5>2
      <4>4. s[3].n % UINT16 = s[3].n
        <5>1. UINT16 \in Nat \ {0}
          BY DEF UINT16
        <5>2. QED
          BY <3>1, <4>3, <5>1, Modulo
      <4>5. OptsAre(text, h + 1)'
        BY <1>1, <1>5, <2>3, <3>2, <3>4, <3>5, <4>4, OptionSet
      <4>6. LinesFine(text, h + 1)
        BY <1>1, <1>4, <3>5, <4>2, LineRead
      <4>7. Past(h + 1)'
        BY <1>5, <4>5, <4>6 DEF Past
      <4>8. AfterLine(text, h) = (h + 2) + 1
        <5>1. Len(s) = EndOf(text, h) - h /\ EndOf(text, h) \in Nat /\ h \in Nat /\ h # 0
          <6>1. Len(s) = EndOf(text, h) - h /\ h \in 1..Len(text)
                /\ EndOf(text, h) \in (h + 1)..(Len(text) + 1)
            BY <1>1, <1>4, LineShape
          <6> HIDE DEF s
          <6>2. QED
            BY <6>1
        <5>2. 3 = EndOf(text, h) - h
          BY <3>8, <5>1
        <5>3. AfterLine(text, h) = EndOf(text, h)
          BY <5>1 DEF AfterLine
        <5>4. QED
          BY <5>1, <5>2, <5>3
      <4>9. AtEnd(h)'
        BY <1>5, <3>3, <4>7, <4>8 DEF AtEnd
      <4>10. KindAt(text', h) = "TT_OPTION_PREFIX" /\ h \in {0} \cup Statements(text')
        BY <1>1, <1>4, <1>5, LineShape DEF KindAt
      <4>11. OptionsAt(h)'
        BY <3>7, <4>9, <4>10 DEF OptionsAt
      <4>12. OptionsInv'
        BY <1>2, <4>10, <4>11 DEF OptionsInv
      <4>13. QED
        BY <1>5, <3>2, <4>12, OnlyHere
    <3>9. CASE Len(s) # 3
      <4>1. ~Complete(s)
        BY <1>6, <3>9 DEF Complete
      <4>2. ~Accepted(text, OptionNames, MAX_ID)
        BY <1>4, <4>1, NotWhole DEF LineOK
      <4>3. 3 < Len(s) /\ 4 \in 1..Len(s) /\ 4 \in 2..Len(s)
        <5> DEFINE n == Len(s)
        <5>1. 2 < n /\ n \in Nat /\ n # 3
          BY <1>6, <3>1, <3>9
        <5> HIDE DEF n
        <5>2. 3 < n /\ 4 \in 1..n /\ 4 \in 2..n
          BY <5>1
        <5>3. QED
          BY <5>2 DEF n
      <4>4. InterpWord(s[4]) \notin LinePrefixes
        BY <1>1, <1>4, <4>3 DEF InScope
      <4>5. Ahead' # {} /\ Min(Ahead') = h + 3 /\ text[h + 3] = s[4]
        <5>1. /\ h \in 1..Len(text) /\ EndOf(text, h) \in (h + 1)..(Len(text) + 1)
              /\ Len(s) = EndOf(text, h) - h /\ Len(text) \in Nat
              /\ \A w \in 1..Len(s) : s[w] = text[h + w - 1]
          BY <1>1, <1>4, LineShape, TextFacts
        <5>2. s[4] = text[h + 4 - 1]
          BY <4>3, <5>1
        <5> HIDE DEF s
        <5>3. h + 3 \in h..(EndOf(text, h) - 1) /\ h + 4 - 1 = h + 3 /\ (h + 2) + 1 = h + 3
              /\ h + 3 \in Nat /\ h + 3 \in 1..Len(text)
          BY <4>3, <5>1
        <5>4. Live(text, h + 3)
          BY <1>1, <1>4, <5>3, LineLive
        <5>5. h + 3 \in From(text, h + 3) /\ From(text, h + 3) \in SUBSET Nat
              /\ \A y \in From(text, h + 3) : h + 3 <= y
          BY <1>1, <5>3, <5>4 DEF From
        <5>6. Min(From(text, h + 3)) = h + 3
          BY <5>5, LeastIs
        <5>7. QED
          BY <3>3, <5>2, <5>3, <5>5, <5>6
      <4>6. Doomed'
        BY <1>5, <4>2, <4>4, <4>5 DEF Doomed, Upcoming
      <4>7. OptionsInv'
        BY <1>2, <4>6 DEF OptionsInv
      <4>8. QED
        BY <1>5, <3>2, <4>7, OnlyHere
    <3>10. QED
      BY <3>8, <3>9
  <2>4. CASE ~(Peek = "TT_INT" /\ option \in OptionNames)
    <3>1. Refuse
      BY <1>5, <2>4 DEF OptionValue
    <3>2. ~LineOK(text, h)
      <4>1. SUFFICES ASSUME LineOK(text, h) PROVE FALSE
        OBVIOUS
      <4>2. Complete(s) /\ s[2].s \in OptionNames
        BY <1>4, <4>1 DEF LineOK
      <4>3. Len(s) = 3 /\ s[3].form = "dec"
        BY <1>6, <4>2 DEF Complete
      <4>4. 2 < Len(s)
        BY <4>3
      <4>5. Word = s[3] /\ Word \in AnyWord /\ Peek = InterpWord(Word)
        BY <2>1, <4>4
      <4>6. Peek = "TT_INT"
        BY <4>3, <4>5, TokenFacts
      <4>7. QED
        BY <1>8, <2>4, <4>2, <4>6
    <3>3. QED
      BY <1>1, <1>2, <1>4, <1>5, <3>1, <3>2, NotWhole, Refused
  <2>5. QED
    BY <2>3, <2>4
<1>9. QED
  BY <1>2, <1>3, <1>7, <1>8 DEF InOption

-----------------------------------------------------------------------------
(* Boards and the heads of messages.                                        *)
LEMMA FirstWord ==
    ASSUME NEW t \in Seq(Symbol), NEW h \in Statements(t)
    PROVE  /\ Statement(t, h) \in Seq(AnyWord) /\ Len(Statement(t, h)) \in Nat
           /\ Len(Statement(t, h)) >= 1 /\ h \in Nat /\ h # 0
           /\ InterpWord(Statement(t, h)[1]) = Kind(t, h)
           /\ KindAt(t, h) = Kind(t, h) /\ AfterLine(t, h) = EndOf(t, h)
<1> DEFINE n == Len(Statement(t, h))
<1>1. /\ Statement(t, h) \in Seq(AnyWord) /\ n = EndOf(t, h) - h
      /\ EndOf(t, h) \in (h + 1)..(Len(t) + 1) /\ h \in 1..Len(t)
      /\ Kind(t, h) = InterpWord(Statement(t, h)[1])
  BY LineShape
<1> HIDE DEF n
<1>2. n \in Nat /\ n >= 1 /\ h \in Nat /\ h # 0
  BY <1>1
<1>3. QED
  BY <1>1, <1>2 DEF n, KindAt, AfterLine

LEMMA Shapes ==
    ASSUME NEW s, Len(s) \in Nat
    PROVE  /\ InterpWord(s[1]) = "TT_BOARD_PREFIX" =>
                (Complete(s) <=> 1 < Len(s) /\ IsName(s[2]))
           /\ InterpWord(s[1]) = "TT_MESSAGE_PREFIX" =>
                (Complete(s) <=> /\ 1 < Len(s) /\ 2 < Len(s) /\ 3 < Len(s)
                                 /\ IsName(s[2]) /\ s[3].form = "hex" /\ s[4].form = "dec")
           /\ InterpWord(s[1]) = "TT_SIGNAL_PREFIX" =>
                (Complete(s) <=> /\ 1 < Len(s) /\ 2 < Len(s) /\ 3 < Len(s) /\ 4 < Len(s)
                                 /\ 5 < Len(s) /\ 6 < Len(s) /\ 7 <= Len(s)
                                 /\ IsName(s[2]) /\ IsName(s[3])
                                 /\ s[4].form = "dec" /\ s[5].form = "dec"
                                 /\ IsNumeric(s[6]) /\ IsNumeric(s[7])
                                 /\ Overrides(s) \in LegalOverrides)
<1> DEFINE n == Len(s)
<1>1. n \in Nat
  OBVIOUS
<1> HIDE DEF n
<1>2. /\ n >= 2 <=> 1 < n
      /\ n >= 4 <=> 1 < n /\ 2 < n /\ 3 < n
      /\ n >= 7 <=> 1 < n /\ 2 < n /\ 3 < n /\ 4 < n /\ 5 < n /\ 6 < n /\ 7 <= n
  BY <1>1
<1>3. ASSUME InterpWord(s[1]) = "TT_BOARD_PREFIX"
      PROVE  Complete(s) <=> n >= 2 /\ IsName(s[2])
  BY <1>3 DEF Complete, n
<1>4. ASSUME InterpWord(s[1]) = "TT_MESSAGE_PREFIX"
      PROVE  Complete(s) <=> n >= 4 /\ IsName(s[2]) /\ s[3].form = "hex" /\ s[4].form = "dec"
  BY <1>4 DEF Complete, n
<1>5. ASSUME InterpWord(s[1]) = "TT_SIGNAL_PREFIX"
      PROVE  Complete(s) <=> /\ n >= 7 /\ IsName(s[2]) /\ IsName(s[3])
                             /\ s[4].form = "dec" /\ s[5].form = "dec"
                             /\ IsNumeric(s[6]) /\ IsNumeric(s[7])
                             /\ Overrides(s) \in LegalOverrides
  BY <1>5 DEF Complete, n
<1>6. QED
  BY <1>2, <1>3, <1>4, <1>5, Zenon DEF n

(* A token that is no prefix is the next word of the line.                  *)
LEMMA WordIs ==
    ASSUME TypeOK, InScope(text, UINT32), readable, OutsideComments(text, pos), ~AtComment,
           NEW h \in Statements(text), NEW w, InLine(h, w), Peek \notin {"none"} \cup LinePrefixes
    PROVE  /\ w < Len(Statement(text, h)) /\ Word = Statement(text, h)[w + 1]
           /\ Word \in AnyWord /\ Peek = InterpWord(Word)
<1> DEFINE n == Len(Statement(text, h))
<1>1. w \in Nat /\ w <= n /\ w # n
  BY LineWord
<1>2. n \in Nat
  BY TextFacts, FirstWord
<1> HIDE DEF n
<1>3. w < n
  BY <1>1, <1>2
<1>4. QED
  BY <1>3, LineWord DEF n

LEMMA AllRead ==
    ASSUME text \in Seq(Symbol), NEW h \in {0} \cup Statements(text), LastIs(h),
           AtEnd(h), Finished(h + 1), KindAt(text, h) = "TT_SIGNAL_PREFIX"
    PROVE  /\ Accepted(text, OptionNames, MAX_ID) /\ Len(added) = Cardinality(Heads(text))
           /\ OptsAre(text, Len(text) + 1)
<1>1. /\ Statements(text) \in SUBSET Nat /\ h \in Nat /\ Len(text) \in Nat
      /\ Statements(text) \subseteq 1..Len(text)
      /\ Heads(text) \subseteq Statements(text) /\ OptionLines(text) \subseteq Statements(text)
      /\ \A k \in Statements(text) : k <= h
  BY StatementFacts DEF LastIs
<1>2. \A k \in Statements(text) : k < h + 1 /\ k < Len(text) + 1
  BY <1>1
<1>3. \A k \in Statements(text) : LineOK(text, k) /\ Follows(text, k)
  BY <1>2 DEF AtEnd, Past, LinesFine
<1>4. HeadsBefore(text, h + 1) = Heads(text)
  BY <1>1, <1>2 DEF HeadsBefore
<1>5. OptsAre(text, Len(text) + 1)
  <2>1. h + 1 \in Nat /\ Len(text) + 1 \in Nat
    BY <1>1
  <2>2. Past(Len(text) + 1)
    BY <1>2, <2>1, SameLines DEF AtEnd
  <2>3. QED
    BY <2>2 DEF Past
<1>6. Len(added) = Cardinality(Heads(text)) /\ MessagesFine(text, h + 1)
  BY <1>4 DEF Finished
<1>7. \A m \in Heads(text) : ValidMessage(text, m, MAX_ID)
  BY <1>4, <1>6 DEF MessagesFine
<1>8. \A g, m \in Heads(text) : g # m => Statement(text, g)[3] # Statement(text, m)[3]
  <2>1. \A g, m \in Heads(text) : g # m => IdOf(text, g) # IdOf(text, m)
    BY <1>4, <1>6 DEF MessagesFine
  <2>2. QED
    BY <2>1 DEF IdOf
<1>9. \A k \in Statements(text) : Complete(Statement(text, k))
  BY <1>3 DEF LineOK
<1>10. \A k \in OptionLines(text) : Statement(text, k)[2].s \in OptionNames
  BY <1>1, <1>3 DEF LineOK, OptionLines
<1>11. Nested(text)
  BY <1>3 DEF Nested, Follows, LastIs
<1>12. QED
  BY <1>5, <1>6, <1>7, <1>8, <1>9, <1>10, <1>11 DEF Accepted

LEMMA BoardsStep ==
    ASSUME Parsing, Boards
    PROVE  ParseInv'
<1>1. /\ TypeOK /\ readable /\ OutsideComments(text, pos) /\ InScope(text, UINT32)
      /\ ~AtComment /\ text \in Seq(Symbol) /\ ParseInv
  BY TextFacts DEF Parsing, Boards, At
<1>2. /\ pc = "boards" /\ UNCHANGED opts /\ UNCHANGED added
      /\ UNCHANGED <<messageIDSet, added>>
      /\ Doomed \/ \E h \in {0} \cup Statements(text) : BoardsAt(h)
  BY <1>1 DEF Boards, At, optionVars, ParseInv, BoardsInv
<1>3. Peek = Upcoming
  BY <1>1, Queue
<1>4. text' = text /\ AddedInv'
  <2>1. text' = text
    BY DEF Boards, Consume, Stay, sourceVars
  <2>2. QED
    BY <1>1, <1>2, <2>1, Frames DEF ParseInv
<1>5. CASE Peek = "TT_BOARD_PREFIX"
  <2>1. Consume /\ pc' = "boardName" /\ sawBoard' = TRUE /\ hasMsg' = FALSE
    BY <1>5 DEF Boards, Goto
  <2>2. PICK h \in {0} \cup Statements(text) : BoardsAt(h)
    BY <1>2, <1>3, <1>5 DEF Doomed, LinePrefixes
  <2>3. /\ KindAt(text, h) \in {"none", "TT_OPTION_PREFIX", "TT_SIGNAL_PREFIX"}
        /\ AtEnd(h) /\ Finished(h + 1)
        /\ Ahead = From(text, AfterLine(text, h))
    BY <2>2 DEF BoardsAt, AtEnd
  <2>4. PICK g \in Statements(text) : NextIs(h, g)
    BY <1>1, <1>3, <1>5, <2>3, BehindLine DEF LastIs
  <2>5. Kind(text, g) = "TT_BOARD_PREFIX" /\ Follows(text, g)
    BY <1>3, <1>5, <2>3, <2>4, Following DEF NextIs, Follows
  <2>6. InLine(g, 1)'
    BY <1>1, <1>2, <2>1, <2>3, <2>4, <2>5, EnterLine
  <2>7. Finished(g)'
    BY <1>1, <1>2, <1>4, <2>1, <2>3, <2>4, SameNext, Frames
  <2>8. BoardNameInv'
    BY <1>4, <2>1, <2>5, <2>6, <2>7 DEF BoardNameInv
  <2>9. QED
    BY <1>4, <2>1, <2>8, OnlyHere
<1>6. CASE Peek = "none"
  <2>1. pc' = "end" /\ result' = IF sawBoard THEN "ok" ELSE "error"
    BY <1>6 DEF Boards
  <2>2. PICK h \in {0} \cup Statements(text) : BoardsAt(h)
    BY <1>1, <1>2, <1>6, Queue DEF Doomed
  <2>3. /\ KindAt(text, h) \in {"none", "TT_OPTION_PREFIX", "TT_SIGNAL_PREFIX"}
        /\ AtEnd(h) /\ Finished(h + 1)
        /\ Ahead = From(text, AfterLine(text, h))
        /\ sawBoard = (KindAt(text, h) = "TT_SIGNAL_PREFIX")
    BY <2>2 DEF BoardsAt, AtEnd
  <2>4. LastIs(h)
    BY <1>1, <1>3, <1>6, <2>3, BehindLine DEF NextIs, LinePrefixes
  <2>5. EndInv'
    <3>1. CASE KindAt(text, h) = "TT_SIGNAL_PREFIX"
      <4>1. /\ Accepted(text, OptionNames, MAX_ID) /\ Len(added) = Cardinality(Heads(text))
            /\ OptsAre(text, Len(text) + 1)
        BY <1>1, <2>3, <2>4, <3>1, AllRead
      <4>2. OptsAre(text, Len(text) + 1)'
        BY <1>2, <1>4, <4>1 DEF OptsAre
      <4>3. result' = "ok"
        BY <2>1, <2>3, <3>1
      <4>4. QED
        BY <1>2, <1>4, <4>1, <4>2, <4>3 DEF EndInv
    <3>2. CASE KindAt(text, h) # "TT_SIGNAL_PREFIX"
      <4>1. ~Accepted(text, OptionNames, MAX_ID)
        BY <2>4, <3>2 DEF LastIs, Accepted, Nested
      <4>2. result' = "error"
        BY <2>1, <2>3, <3>2
      <4>3. QED
        BY <1>4, <4>1, <4>2 DEF EndInv
    <3>3. QED
      BY <3>1, <3>2
  <2>6. QED
    BY <1>4, <2>1, <2>5, OnlyHere
<1>7. CASE Peek \notin {"TT_BOARD_PREFIX", "none"}
  <2>1. Refuse
    BY <1>7 DEF Boards
  <2>2. CASE Doomed
    BY <1>1, <1>2, <1>4, <2>1, <2>2, Refused DEF Doomed
  <2>3. CASE \E h \in {0} \cup Statements(text) : BoardsAt(h)
    <3>1. PICK h \in {0} \cup Statements(text) : BoardsAt(h)
      BY <2>3
    <3>2. /\ KindAt(text, h) \in {"none", "TT_OPTION_PREFIX", "TT_SIGNAL_PREFIX"}
          /\ Ahead = From(text, AfterLine(text, h))
          /\ sawBoard = (KindAt(text, h) = "TT_SIGNAL_PREFIX")
          /\ Upcoming \notin (IF sawBoard THEN {"TT_MESSAGE_PREFIX", "TT_SIGNAL_PREFIX"}
                              ELSE {"TT_OPTION_PREFIX"})
      BY <3>1 DEF BoardsAt, AtEnd
    <3>3. PICK g \in Statements(text) : NextIs(h, g)
      BY <1>1, <1>3, <1>7, <3>2, BehindLine DEF LastIs
    <3>4. /\ Kind(text, g) = Upcoming /\ Upcoming \in LinePrefixes \ {"TT_BOARD_PREFIX"}
          /\ KindBefore(text, g) = KindAt(text, h)
      BY <1>3, <1>7, <3>3 DEF NextIs
    <3>5. ~Follows(text, g)
      <4>1. CASE KindAt(text, h) = "TT_SIGNAL_PREFIX"
        <5>1. Upcoming = "TT_OPTION_PREFIX"
          BY <3>2, <3>4, <4>1 DEF LinePrefixes
        <5>2. QED
          BY <3>4, <4>1, <5>1, Following DEF Follows
      <4>2. CASE KindAt(text, h) # "TT_SIGNAL_PREFIX"
        <5>1. Upcoming \in {"TT_MESSAGE_PREFIX", "TT_SIGNAL_PREFIX"}
          BY <3>2, <3>4, <4>2 DEF LinePrefixes
        <5>2. QED
          BY <3>2, <3>4, <4>2, <5>1, Following DEF Follows
      <4>3. QED
        BY <4>1, <4>2
    <3>6. QED
      BY <1>1, <1>2, <1>4, <2>1, <3>5, NotWhole, Refused
  <2>4. QED
    BY <1>2, <2>2, <2>3
<1>8. QED
  BY <1>5, <1>6, <1>7

(* The rest of a line is skipped once what counts is read.                  *)
LEMMA LeaveLine ==
    ASSUME TypeOK, InScope(text, UINT32), readable, OutsideComments(text, pos), ~AtComment,
           pos' = Eaten(Moved), text' = text, UNCHANGED opts,
           NEW h \in Statements(text), NEW w, InLine(h, w), w < Len(Statement(text, h)),
           h \notin OptionLines(text), Complete(Statement(text, h))
    PROVE  AtEnd(h)'
<1>1. text \in Seq(Symbol)
  BY TextFacts
<1>2. Ahead' = From(text, AfterLine(text, h))
  BY RestOfLine
<1>3. LinesFine(text, h) /\ OptsAre(text, h) /\ Follows(text, h)
  BY DEF InLine, Past
<1>4. LineOK(text, h)
  BY DEF LineOK, OptionLines
<1>5. Past(h + 1)
  BY <1>1, <1>3, <1>4, LineRead, OtherLine DEF Past
<1>6. Past(h + 1)'
  BY <1>5, Frames
<1>7. QED
  BY <1>2, <1>6 DEF AtEnd

LEMMA BoardNameStep ==
    ASSUME Parsing, BoardName
    PROVE  ParseInv'
<1>1. /\ TypeOK /\ readable /\ OutsideComments(text, pos) /\ InScope(text, UINT32)
      /\ ~AtComment /\ text \in Seq(Symbol) /\ ParseInv
  BY TextFacts DEF Parsing, BoardName, At
<1>2. /\ pc = "boardName" /\ UNCHANGED opts /\ UNCHANGED added /\ ConsumeLine /\ text' = text
      /\ UNCHANGED <<messageIDSet, added>> /\ UNCHANGED sawBoard /\ UNCHANGED hasMsg
      /\ sawBoard /\ ~hasMsg
      /\ IF Peek = "TT_IDENTIFIER" THEN pc' = "messages" ELSE Refuse
  BY <1>1 DEF BoardName, At, optionVars, boardVars, ParseInv, BoardNameInv, ConsumeLine,
     sourceVars, Expect, Goto
<1>3. PICK h \in Statements(text) :
        Kind(text, h) = "TT_BOARD_PREFIX" /\ InLine(h, 1) /\ Finished(h)
  BY <1>1, <1>2 DEF ParseInv, BoardNameInv
<1> DEFINE s == Statement(text, h)
<1>4. AddedInv'
  BY <1>1, <1>2, Frames DEF ParseInv
<1>5. h \notin OptionLines(text) /\ h \notin Heads(text)
  BY <1>3 DEF OptionLines, Heads
<1>6. Complete(s) <=> 1 < Len(s) /\ IsName(s[2])
  BY <1>1, <1>3, FirstWord, Shapes
<1>7. CASE Peek = "TT_IDENTIFIER"
  <2>1. pc' = "messages" /\ pos' = Eaten(Moved)
    BY <1>2, <1>7 DEF ConsumeLine
  <2>2. 1 < Len(s) /\ Word = s[1 + 1] /\ Peek = InterpWord(Word)
    BY <1>1, <1>3, <1>7, WordIs DEF LinePrefixes
  <2>3. Complete(s)
    BY <1>6, <1>7, <2>2 DEF IsName
  <2>4. AtEnd(h)'
    BY <1>1, <1>2, <1>3, <1>5, <2>1, <2>2, <2>3, LeaveLine
  <2>5. Finished(h + 1)'
    BY <1>1, <1>2, <1>3, <1>5, NoHead, Frames
  <2>6. hasMsg' = FALSE
    BY <1>1, <1>2 DEF TypeOK
  <2>7. MessagesAt(h)'
    BY <1>2, <1>3, <2>4, <2>5, <2>6 DEF MessagesAt
  <2>8. MessagesInv'
    BY <1>2, <2>7 DEF MessagesInv
  <2>9. QED
    BY <1>4, <2>1, <2>8, OnlyHere
<1>8. CASE Peek # "TT_IDENTIFIER"
  <2>1. ~Complete(s)
    <3>1. SUFFICES ASSUME 1 < Len(s), IsName(s[2]) PROVE FALSE
      BY <1>6
    <3>2. Word = s[1 + 1] /\ Peek = InterpWord(Word)
      BY <1>1, <1>3, <3>1, LineWord
    <3>3. QED
      BY <1>8, <3>1, <3>2 DEF IsName
  <2>2. QED
    BY <1>1, <1>2, <1>3, <1>8, <2>1, NotWhole, Refused DEF LineOK
<1>9. QED
  BY <1>7, <1>8

LEMMA MessagesStep ==
    ASSUME Parsing, Messages
    PROVE  ParseInv'
<1>1. /\ TypeOK /\ readable /\ OutsideComments(text, pos) /\ InScope(text, UINT32)
      /\ ~AtComment /\ text \in Seq(Symbol) /\ ParseInv
  BY TextFacts DEF Parsing, Messages, At
<1>2. /\ pc = "messages" /\ UNCHANGED opts /\ UNCHANGED added /\ UNCHANGED sawBoard
      /\ UNCHANGED <<messageIDSet, added>> /\ UNCHANGED messageIDSet
      /\ sawBoard /\ (Doomed \/ \E h \in Statements(text) : MessagesAt(h))
  BY <1>1 DEF Messages, At, optionVars, ParseInv, MessagesInv
<1>3. Peek = Upcoming
  BY <1>1, Queue
<1>4. text' = text /\ AddedInv'
  <2>1. text' = text
    BY DEF Messages, Consume, Stay, sourceVars
  <2>2. QED
    BY <1>1, <1>2, <2>1, Frames DEF ParseInv
<1>5. CASE Peek = "TT_MESSAGE_PREFIX"
  <2>1. Consume /\ pc' = "messageName" /\ hasMsg' = TRUE /\ msgDesc' = NewMessage
    BY <1>5 DEF Messages, Goto
  <2>2. PICK h \in Statements(text) : MessagesAt(h)
    BY <1>2, <1>3, <1>5 DEF Doomed, LinePrefixes
  <2>3. /\ Kind(text, h) \in {"TT_BOARD_PREFIX", "TT_SIGNAL_PREFIX"}
        /\ AtEnd(h) /\ Finished(h + 1)
        /\ Ahead = From(text, AfterLine(text, h))
    BY <2>2 DEF MessagesAt, AtEnd
  <2>4. PICK g \in Statements(text) : NextIs(h, g)
    BY <1>1, <1>3, <1>5, <2>3, BehindLine DEF LastIs
  <2>5. Kind(text, g) = "TT_MESSAGE_PREFIX" /\ Follows(text, g)
    <3>1. KindAt(text, h) \in {"TT_BOARD_PREFIX", "TT_SIGNAL_PREFIX"}
      BY <1>1, <2>3, FirstWord
    <3>2. QED
      BY <1>3, <1>5, <2>4, <3>1, Following DEF NextIs, Follows
  <2>6. InLine(g, 1)'
    BY <1>1, <1>2, <2>1, <2>3, <2>4, <2>5, EnterLine
  <2>7. Finished(g)'
    BY <1>1, <1>2, <1>4, <2>1, <2>3, <2>4, SameNext, Frames
  <2>8. g \in Heads(text')
    BY <1>4, <2>5 DEF Heads
  <2>9. msgDesc'.signals = <<>>
    BY <2>1 DEF NewMessage
  <2>10. InHeader(g, 1)'
    BY <2>6, <2>7, <2>8, <2>9 DEF InHeader
  <2>11. HeaderInv'
    <3>1. HeaderWords["messageName"] = 1
      BY DEF HeaderWords
    <3>2. QED
      BY <1>2, <2>1, <2>8, <2>10, <3>1 DEF HeaderInv
  <2>12. QED
    BY <1>4, <2>1, <2>11, OnlyHere
<1>6. CASE Peek # "TT_MESSAGE_PREFIX"
  <2>1. Stay /\ UNCHANGED hasMsg /\ IF hasMsg THEN pc' = "boards" ELSE Refuse
    BY <1>6 DEF Messages, Goto
  <2>2. Ahead' = Ahead
    BY <2>1, StayFacts
  <2>3. CASE Doomed
    <3>1. CASE hasMsg
      BY <1>4, <2>1, <2>2, <2>3, <3>1, SamePlace, OnlyHere DEF BoardsInv
    <3>2. CASE ~hasMsg
      BY <1>1, <1>2, <1>4, <2>1, <2>3, <3>2, Refused DEF Doomed
    <3>3. QED
      BY <3>1, <3>2
  <2>4. CASE \E h \in Statements(text) : MessagesAt(h)
    <3>1. PICK h \in Statements(text) : MessagesAt(h)
      BY <2>4
    <3>2. /\ Kind(text, h) \in {"TT_BOARD_PREFIX", "TT_SIGNAL_PREFIX"}
          /\ AtEnd(h) /\ Finished(h + 1)
          /\ hasMsg = (Kind(text, h) = "TT_SIGNAL_PREFIX")
          /\ hasMsg => Upcoming # "TT_SIGNAL_PREFIX"
          /\ Ahead = From(text, AfterLine(text, h))
          /\ KindAt(text, h) = Kind(text, h)
      BY <1>1, <3>1, FirstWord DEF MessagesAt, AtEnd
    <3>3. CASE hasMsg
      <4>1. AtEnd(h)' /\ Finished(h + 1)' /\ Upcoming' = Upcoming
        BY <1>2, <1>4, <2>2, <3>2, SamePlace, Frames
      <4>2. KindAt(text', h) = "TT_SIGNAL_PREFIX" /\ h \in {0} \cup Statements(text')
        BY <1>4, <3>2, <3>3
      <4>3. sawBoard' = TRUE
        BY <1>1, <1>2 DEF TypeOK
      <4>4. BoardsAt(h)'
        BY <1>3, <1>6, <3>2, <3>3, <4>1, <4>2, <4>3 DEF BoardsAt
      <4>5. BoardsInv'
        BY <4>2, <4>4 DEF BoardsInv
      <4>6. QED
        BY <1>4, <2>1, <3>3, <4>5, OnlyHere
    <3>4. CASE ~hasMsg
      <4>1. KindAt(text, h) = "TT_BOARD_PREFIX"
        BY <3>2, <3>4
      <4>2. ~Accepted(text, OptionNames, MAX_ID)
        <5>1. CASE LastIs(h)
          BY <4>1, <5>1 DEF LastIs, Accepted, Nested
        <5>2. CASE \E g \in Statements(text) : NextIs(h, g)
          <6>1. PICK g \in Statements(text) : NextIs(h, g)
            BY <5>2
          <6>2. /\ Kind(text, g) \in LinePrefixes \ {"TT_MESSAGE_PREFIX"}
                /\ KindBefore(text, g) = "TT_BOARD_PREFIX"
            BY <1>3, <1>6, <4>1, <6>1 DEF NextIs
          <6>3. ~Follows(text, g)
            BY <6>2, Following DEF Follows, LinePrefixes
          <6>4. QED
            BY <6>3, NotWhole
        <5>3. QED
          BY <1>1, <3>2, <5>1, <5>2, BehindLine
      <4>3. QED
        BY <1>1, <1>2, <1>4, <2>1, <3>4, <4>2, Refused
    <3>5. QED
      BY <3>3, <3>4
  <2>5. QED
    BY <1>2, <2>3, <2>4
<1>7. QED
  BY <1>5, <1>6

LEMMA MessageNameStep ==
    ASSUME Parsing, MessageName
    PROVE  ParseInv'
<1>1. /\ TypeOK /\ readable /\ OutsideComments(text, pos) /\ InScope(text, UINT32)
      /\ ~AtComment /\ text \in Seq(Symbol) /\ ParseInv
  BY TextFacts DEF Parsing, MessageName, At
<1>2. /\ pc = "messageName" /\ UNCHANGED opts /\ UNCHANGED added /\ Consume /\ text' = text
      /\ UNCHANGED <<messageIDSet, added>> /\ UNCHANGED sawBoard /\ UNCHANGED hasMsg
      /\ UNCHANGED msgDesc /\ sawBoard /\ hasMsg
      /\ IF Peek = "TT_IDENTIFIER" THEN pc' = "messageId" ELSE Refuse
      /\ \E h \in Heads(text) : InHeader(h, 1)
  BY <1>1 DEF MessageName, At, optionVars, boardVars, parseVars, ParseInv, HeaderInv, HeaderWords,
     Consume, sourceVars, Expect, Goto
<1>3. PICK h \in Heads(text) : InHeader(h, 1)
  BY <1>2
<1> DEFINE s == Statement(text, h)
<1>4. /\ h \in Statements(text) /\ Kind(text, h) = "TT_MESSAGE_PREFIX" /\ InLine(h, 1)
      /\ Finished(h) /\ msgDesc.signals = <<>>
  BY <1>3 DEF Heads, InHeader
<1>5. AddedInv' /\ Finished(h)'
  BY <1>1, <1>2, <1>4, Frames DEF ParseInv
<1>6. Complete(s) => 1 < Len(s) /\ IsName(s[2])
  BY <1>1, <1>4, FirstWord, Shapes
<1>7. CASE Peek = "TT_IDENTIFIER"
  <2>1. 1 < Len(s) /\ Word = s[1 + 1] /\ Peek = InterpWord(Word)
    BY <1>1, <1>4, <1>7, WordIs DEF LinePrefixes
  <2>2. IsName(s[2])
    BY <1>7, <2>1 DEF IsName
  <2>3. InLine(h, 2)'
    BY <1>1, <1>2, <1>4, <2>1, NextWord
  <2>4. InHeader(h, 2)'
    BY <1>2, <1>4, <1>5, <2>2, <2>3 DEF InHeader
  <2>5. HeaderInv'
    <3>1. HeaderWords["messageId"] = 2
      BY DEF HeaderWords
    <3>2. QED
      BY <1>2, <1>7, <2>4, <3>1 DEF HeaderInv
  <2>6. QED
    BY <1>2, <1>5, <1>7, <2>5, OnlyHere
<1>8. CASE Peek # "TT_IDENTIFIER"
  <2>1. ~Complete(s)
    <3>1. SUFFICES ASSUME 1 < Len(s), IsName(s[2]) PROVE FALSE
      BY <1>6
    <3>2. Word = s[1 + 1] /\ Peek = InterpWord(Word)
      BY <1>1, <1>4, <3>1, LineWord
    <3>3. QED
      BY <1>8, <3>1, <3>2 DEF IsName
  <2>2. QED
    BY <1>1, <1>2, <1>4, <1>8, <2>1, NotWhole, Refused DEF LineOK
<1>9. QED
  BY <1>7, <1>8

LEMMA MessageIdStep ==
    ASSUME Parsing, MessageId
    PROVE  ParseInv'
<1>1. /\ TypeOK /\ readable /\ OutsideComments(text, pos) /\ InScope(text, UINT32)
      /\ ~AtComment /\ text \in Seq(Symbol) /\ ParseInv
  BY TextFacts DEF Parsing, MessageId, At
<1>2. /\ pc = "messageId" /\ UNCHANGED opts /\ UNCHANGED added /\ Consume /\ text' = text
      /\ UNCHANGED <<messageIDSet, added>> /\ UNCHANGED sawBoard /\ UNCHANGED hasMsg
      /\ sawBoard /\ hasMsg
      /\ \E h \in Heads(text) : InHeader(h, 2)
  BY <1>1 DEF MessageId, At, optionVars, boardVars, ParseInv, HeaderInv, HeaderWords,
     Consume, sourceVars
<1>3. PICK h \in Heads(text) : InHeader(h, 2)
  BY <1>2
<1> DEFINE s == Statement(text, h)
<1>4. /\ h \in Statements(text) /\ Kind(text, h) = "TT_MESSAGE_PREFIX" /\ InLine(h, 2)
      /\ Finished(h) /\ msgDesc.signals = <<>> /\ IsName(s[2])
  BY <1>3 DEF Heads, InHeader
<1>5. AddedInv' /\ Finished(h)'
  BY <1>1, <1>2, <1>4, Frames DEF ParseInv
<1>6. Complete(s) => 2 < Len(s) /\ s[3].form = "hex"
  BY <1>1, <1>4, FirstWord, Shapes
<1>7. CASE Peek = "TT_HEX_INT"
  <2>1. /\ 2 < Len(s) /\ Word = s[2 + 1] /\ Word \in AnyWord /\ Peek = InterpWord(Word)
        /\ 2 + 1 = 3
    BY <1>1, <1>4, <1>7, WordIs DEF LinePrefixes
  <2>2. Word = s[3] /\ s[3].form = "hex"
    BY <1>7, <2>1, TokenFacts
  <2>3. InLine(h, 3)'
    <3>1. InLine(h, 2 + 1)'
      BY <1>1, <1>2, <1>4, <2>1, NextWord
    <3>2. QED
      BY <2>1, <3>1
  <2>4. /\ pc' = "messageLength" /\ msgDesc' = [msgDesc EXCEPT !.id = s[3].n % UINT32]
    BY <1>7, <2>2 DEF MessageId, Goto
  <2>5. msgDesc'.id = s[3].n % UINT32 /\ msgDesc'.signals = <<>>
    BY <1>1, <1>4, <2>4 DEF TypeOK, MessageType
  <2>6. InHeader(h, 3)'
    BY <1>2, <1>4, <1>5, <2>2, <2>3, <2>5 DEF InHeader
  <2>7. HeaderInv'
    <3>1. HeaderWords["messageLength"] = 3
      BY DEF HeaderWords
    <3>2. QED
      BY <1>2, <2>4, <2>6, <3>1 DEF HeaderInv
  <2>8. QED
    BY <1>5, <2>4, <2>7, OnlyHere
<1>8. CASE Peek # "TT_HEX_INT"
  <2>1. Refuse
    BY <1>8 DEF MessageId
  <2>2. ~Complete(s)
    <3>1. SUFFICES ASSUME 2 < Len(s), s[3].form = "hex" PROVE FALSE
      BY <1>6
    <3>2. Word = s[2 + 1] /\ Word \in AnyWord /\ Peek = InterpWord(Word) /\ 2 + 1 = 3
      BY <1>1, <1>4, <3>1, LineWord
    <3>3. QED
      BY <1>8, <3>1, <3>2, TokenFacts
  <2>3. QED
    BY <1>1, <1>2, <1>4, <2>1, <2>2, NotWhole, Refused DEF LineOK
<1>9. QED
  BY <1>7, <1>8

LEMMA MessageLengthStep ==
    ASSUME Parsing, MessageLength
    PROVE  ParseInv'
<1>1. /\ TypeOK /\ readable /\ OutsideComments(text, pos) /\ InScope(text, UINT32)
      /\ ~AtComment /\ text \in Seq(Symbol) /\ ParseInv /\ UINT32 \in Nat \ {0}
  BY TextFacts, BuilderAssumption DEF Parsing, MessageLength, At
<1>2. /\ pc = "messageLength" /\ UNCHANGED opts /\ UNCHANGED added /\ ConsumeLine /\ text' = text
      /\ UNCHANGED <<messageIDSet, added>> /\ UNCHANGED sawBoard /\ UNCHANGED hasMsg
      /\ sawBoard /\ hasMsg
      /\ \E h \in Heads(text) : InHeader(h, 3)
  BY <1>1 DEF MessageLength, At, optionVars, boardVars, ParseInv, HeaderInv, HeaderWords,
     ConsumeLine, sourceVars
<1>3. PICK h \in Heads(text) : InHeader(h, 3)
  BY <1>2
<1> DEFINE s == Statement(text, h)
<1>4. /\ h \in Statements(text) /\ Kind(text, h) = "TT_MESSAGE_PREFIX" /\ InLine(h, 3)
      /\ Finished(h) /\ msgDesc.signals = <<>> /\ IsName(s[2]) /\ s[3].form = "hex"
      /\ msgDesc.id = s[3].n % UINT32
  BY <1>3 DEF Heads, InHeader
<1>5. AddedInv' /\ Finished(h)'
  BY <1>1, <1>2, <1>4, Frames DEF ParseInv
<1>6. Complete(s) <=> /\ 1 < Len(s) /\ 2 < Len(s) /\ 3 < Len(s)
                      /\ IsName(s[2]) /\ s[3].form = "hex" /\ s[4].form = "dec"
  BY <1>1, <1>4, FirstWord, Shapes
<1>7. CASE Peek = "TT_INT"
  <2>1. /\ 3 < Len(s) /\ Word = s[3 + 1] /\ Word \in AnyWord /\ Peek = InterpWord(Word)
        /\ 3 + 1 = 4
    BY <1>1, <1>4, <1>7, WordIs DEF LinePrefixes
  <2>2. Word = s[4] /\ s[4].form = "dec"
    BY <1>7, <2>1, TokenFacts
  <2>3. 1 < Len(s) /\ 2 < Len(s)
    <3> DEFINE n == Len(s)
    <3>1. n \in Nat /\ 3 < n
      BY <1>1, <1>4, <2>1, FirstWord
    <3> HIDE DEF n
    <3>2. 1 < n /\ 2 < n
      BY <3>1
    <3>3. QED
      BY <3>2 DEF n
  <2>4. Complete(s)
    BY <1>4, <1>6, <2>1, <2>2, <2>3
  <2>5. s[3].n < UINT32 /\ s[4].n \in 0..31 /\ s[3].n \in Nat
    <3>1. s[3].n < UINT32 /\ s[4].n \in 0..31
      BY <1>1, <1>4, <2>4, FirstWord DEF InScope, InWidth
    <3>2. s[3] \in AnyWord
      <4> DEFINE n == Len(s)
      <4>1. n \in Nat /\ 3 < n /\ s \in Seq(AnyWord)
        BY <1>1, <1>4, <2>1, FirstWord
      <4>2. 3 \in 1..n
        <5> HIDE DEF n
        <5>1. QED
          BY <4>1
      <4> HIDE DEF s
      <4>3. QED
        BY <4>1, <4>2
    <3>3. s[3].form = "hex"
      BY <1>6, <2>4
    <3>4. s[3].n \in Nat
      BY <3>2, <3>3, TokenFacts
    <3>5. QED
      BY <3>1, <3>4
  <2>6. s[3].n % UINT32 = s[3].n /\ s[4].n % 256 = s[4].n
    <3>1. s[3].n % UINT32 = s[3].n
      BY <1>1, <2>5, Modulo
    <3>3. s[4].n % 256 = s[4].n
      <4> DEFINE n == s[4].n
      <4>1. n \in 0..31
        BY <2>5
      <4> HIDE DEF n
      <4>2. n % 256 = n
        BY <4>1
      <4>3. QED
        BY <4>2 DEF n
    <3>4. QED
      BY <3>1, <3>3
  <2>7. pc' = "signals" /\ msgDesc' = [msgDesc EXCEPT !.length = s[4].n % 256]
    BY <1>7, <2>2 DEF MessageLength, Goto
  <2>8. /\ msgDesc'.id = s[3].n /\ msgDesc'.length = s[4].n /\ msgDesc'.signals = <<>>
    <3>1. msgDesc \in MessageType
      BY <1>1 DEF TypeOK
    <3>2. msgDesc'.id = msgDesc.id /\ msgDesc'.length = s[4].n % 256 /\ msgDesc'.signals = <<>>
      BY <1>4, <2>7, <3>1 DEF MessageType
    <3>3. QED
      BY <1>4, <2>6, <3>2
  <2>9. SignalsBefore(text, h, h + 1) = {}
    <3>1. h \in Nat /\ Statements(text) \in SUBSET Nat
      BY <1>1, <1>4, StatementFacts
    <3>2. QED
      BY <3>1 DEF SignalsBefore, SignalLines
  <2>10. Described(text, h, h + 1)'
    <3>1. Len(msgDesc'.signals) = 0 /\ Cardinality({}) = 0
      BY <2>8, FS_EmptySet
    <3>2. QED
      BY <1>2, <2>8, <2>9, <3>1 DEF Described
  <2>11. AtEnd(h)'
    <3>1. pos' = Eaten(Moved)
      BY <1>2, <2>7 DEF ConsumeLine
    <3>2. h \notin OptionLines(text)
      BY <1>4 DEF OptionLines
    <3>3. QED
      BY <1>1, <1>2, <1>4, <2>1, <2>4, <3>1, <3>2, LeaveLine
  <2>12. Under(text, h, h)
    <3>1. h \in Nat /\ Statements(text) \in SUBSET Nat
      BY <1>1, <1>4, StatementFacts
    <3>2. QED
      BY <1>3, <1>4, <3>1 DEF Under
  <2>13. SignalsAt(h, h)'
    BY <1>2, <1>5, <2>7, <2>10, <2>11, <2>12 DEF SignalsAt
  <2>14. SignalsInv'
    BY <1>2, <1>4, <2>13 DEF SignalsInv
  <2>15. QED
    BY <1>5, <2>7, <2>14, OnlyHere
<1>8. CASE Peek # "TT_INT"
  <2>1. Refuse
    BY <1>8 DEF MessageLength
  <2>2. ~Complete(s)
    <3>1. SUFFICES ASSUME 3 < Len(s), s[4].form = "dec" PROVE FALSE
      BY <1>6
    <3>2. Word = s[3 + 1] /\ Word \in AnyWord /\ Peek = InterpWord(Word) /\ 3 + 1 = 4
      BY <1>1, <1>4, <3>1, LineWord
    <3>3. QED
      BY <1>8, <3>1, <3>2, TokenFacts
  <2>3. QED
    BY <1>1, <1>2, <1>4, <2>1, <2>2, NotWhole, Refused DEF LineOK
<1>9. QED
  BY <1>7, <1>8

-----------------------------------------------------------------------------
(* Signals.                                                                 *)
LEMMA FiniteLines ==
    ASSUME NEW t \in Seq(Symbol)
    PROVE  IsFiniteSet(Statements(t)) /\ \A S \in SUBSET Statements(t) : IsFiniteSet(S)
<1>1. Statements(t) \in SUBSET (1..Len(t)) /\ Len(t) \in Nat
  BY StatementFacts
<1>2. IsFiniteSet(1..Len(t))
  BY <1>1, FS_Interval
<1>3. IsFiniteSet(Statements(t))
  BY <1>1, <1>2, FS_Subset
<1>4. QED
  BY <1>3, FS_Subset

LEMMA UnderLines ==
    ASSUME NEW t \in Seq(Symbol), NEW m, NEW h, Under(t, m, h)
    PROVE  /\ m \in Nat /\ h \in Nat /\ m <= h /\ m \in Statements(t) /\ h \in Statements(t)
           /\ SignalsBefore(t, m, h + 1) = {k \in Statements(t) : m < k /\ k <= h}
           /\ m # h => h \in SignalLines(t, m) /\ Kind(t, h) = "TT_SIGNAL_PREFIX"
           /\ m # h => SignalsBefore(t, m, h) = SignalsBefore(t, m, h + 1) \ {h}
<1>1. /\ m \in Heads(t) /\ h \in Statements(t) /\ m <= h
      /\ \A k \in Statements(t) : m < k /\ k <= h => Kind(t, k) = "TT_SIGNAL_PREFIX"
  BY DEF Under
<1>2. Statements(t) \in SUBSET Nat /\ m \in Statements(t) /\ m \in Nat /\ h \in Nat
  BY <1>1, StatementFacts
<1>3. ASSUME NEW k \in Statements(t), m < k, k <= h PROVE k \in SignalLines(t, m)
  <2>1. ASSUME NEW j \in Statements(t), j \in (m + 1)..k PROVE Kind(t, j) = "TT_SIGNAL_PREFIX"
    <3>1. m < j /\ j <= h
      BY <1>2, <1>3, <2>1
    <3>2. QED
      BY <1>1, <3>1
  <2>2. QED
    BY <1>3, <2>1 DEF SignalLines
<1>4. SignalsBefore(t, m, h + 1) = {k \in Statements(t) : m < k /\ k <= h}
  <2>1. \A k \in Statements(t) : k < h + 1 <=> k <= h
    BY <1>2
  <2>2. \A k \in SignalLines(t, m) : k \in Statements(t) /\ m < k
    BY <1>2 DEF SignalLines
  <2>3. QED
    BY <1>3, <2>1, <2>2 DEF SignalsBefore
<1>5. ASSUME m # h PROVE h \in SignalLines(t, m) /\ Kind(t, h) = "TT_SIGNAL_PREFIX"
  <2>1. m < h /\ h <= h
    BY <1>1, <1>2, <1>5
  <2>2. QED
    BY <1>1, <1>3, <2>1
<1>6. SignalsBefore(t, m, h) = SignalsBefore(t, m, h + 1) \ {h}
  <2>1. \A k \in Statements(t) : k < h <=> k < h + 1 /\ k # h
    BY <1>2
  <2>2. SignalLines(t, m) \subseteq Statements(t)
    BY StatementFacts
  <2>3. QED
    BY <2>1, <2>2 DEF SignalsBefore
<1>7. QED
  BY <1>1, <1>2, <1>4, <1>5, <1>6

LEMMA SignalsSoFar ==
    ASSUME TypeOK, NEW m, NEW h, Under(text, m, h), Described(text, m, h + 1)
    PROVE  msgDesc.signals # <<>> <=> m # h
<1> DEFINE B == SignalsBefore(text, m, h + 1)
<1>1. text \in Seq(Symbol) /\ msgDesc.signals \in Seq(SignalType)
  BY TextFacts DEF TypeOK, MessageType
<1>2. /\ m \in Nat /\ h \in Nat /\ m <= h /\ h \in Statements(text)
      /\ B = {k \in Statements(text) : m < k /\ k <= h} /\ Statements(text) \in SUBSET Nat
  BY <1>1, UnderLines, StatementFacts
<1>3. Len(msgDesc.signals) = Cardinality(B)
  BY DEF Described
<1>4. IsFiniteSet(B)
  BY <1>1, <1>2, FiniteLines
<1>5. B # {} <=> m # h
  <2>1. m # h => h \in B
    BY <1>2
  <2>2. m = h => B = {}
    BY <1>2
  <2>3. QED
    BY <2>1, <2>2
<1>6. Cardinality(B) = 0 <=> B = {}
  BY <1>4, FS_EmptySet
<1> HIDE DEF B
<1>7. msgDesc.signals = <<>> <=> Len(msgDesc.signals) = 0
  BY <1>1
<1>8. QED
  BY <1>3, <1>5, <1>6, <1>7

LEMMA SignalsStep ==
    ASSUME Parsing, Signals
    PROVE  ParseInv'
<1>1. /\ TypeOK /\ readable /\ OutsideComments(text, pos) /\ InScope(text, UINT32)
      /\ ~AtComment /\ text \in Seq(Symbol) /\ ParseInv
  BY TextFacts DEF Parsing, Signals, At
<1>2. /\ pc = "signals" /\ UNCHANGED opts /\ UNCHANGED added /\ UNCHANGED sawBoard
      /\ UNCHANGED <<messageIDSet, added>> /\ UNCHANGED hasMsg /\ UNCHANGED msgDesc
      /\ sawBoard /\ hasMsg
      /\ \E m, h \in Statements(text) : SignalsAt(m, h)
  BY <1>1 DEF Signals, At, optionVars, boardVars, ParseInv, SignalsInv
<1>3. Peek = Upcoming
  BY <1>1, Queue
<1>4. text' = text /\ AddedInv'
  <2>1. text' = text
    BY DEF Signals, Consume, Stay, sourceVars
  <2>2. QED
    BY <1>1, <1>2, <2>1, Frames DEF ParseInv
<1>5. PICK m, h \in Statements(text) : SignalsAt(m, h)
  BY <1>2
<1>6. /\ Under(text, m, h) /\ Finished(m) /\ Described(text, m, h + 1)
      /\ AtEnd(h) \/ (Doomed /\ m # h /\ ~Complete(Statement(text, h)))
  BY <1>5 DEF SignalsAt
<1>7. /\ m \in Nat /\ h \in Nat /\ m <= h /\ m \in Heads(text)
      /\ Statements(text) \in SUBSET Nat
      /\ m # h => Kind(text, h) = "TT_SIGNAL_PREFIX"
      /\ m = h => Kind(text, h) = "TT_MESSAGE_PREFIX"
      /\ KindAt(text, h) = Kind(text, h)
      /\ msgDesc.signals # <<>> <=> m # h
  BY <1>1, <1>5, <1>6, UnderLines, StatementFacts, FirstWord, SignalsSoFar DEF Under, Heads
<1>8. CASE Peek = "TT_SIGNAL_PREFIX"
  <2>1. Consume /\ pc' = "signalName" /\ sigDesc' = NewSignal
    BY <1>8 DEF Signals, Goto
  <2>2. AtEnd(h) /\ Ahead = From(text, AfterLine(text, h))
    BY <1>3, <1>6, <1>8 DEF Doomed, LinePrefixes, AtEnd
  <2>3. PICK g \in Statements(text) : NextIs(h, g)
    BY <1>1, <1>3, <1>8, <2>2, BehindLine DEF LastIs
  <2>4. Kind(text, g) = "TT_SIGNAL_PREFIX" /\ Follows(text, g)
    <3>1. KindAt(text, h) \in {"TT_MESSAGE_PREFIX", "TT_SIGNAL_PREFIX"}
      BY <1>7
    <3>2. QED
      BY <1>3, <1>8, <2>3, <3>1, Following DEF NextIs, Follows
  <2>5. InLine(g, 1)'
    BY <1>1, <1>2, <2>1, <2>2, <2>3, <2>4, EnterLine
  <2>6. Under(text, m, g) /\ m # g
    <3>1. h < g /\ g \in Nat /\ \A k \in Statements(text) : k <= h \/ g <= k
      BY <1>7, <2>3 DEF NextIs, Succ
    <3>2. m <= g /\ m # g
      BY <1>7, <3>1
    <3>3. ASSUME NEW k \in Statements(text), m < k, k <= g PROVE Kind(text, k) = "TT_SIGNAL_PREFIX"
      <4>1. k <= h \/ k = g
        BY <1>7, <3>1, <3>3
      <4>2. QED
        BY <1>6, <2>4, <3>3, <4>1 DEF Under
    <3>4. QED
      BY <1>7, <3>2, <3>3 DEF Under
  <2>7. Described(text, m, g)' /\ Finished(m)'
    BY <1>1, <1>2, <1>4, <1>6, <2>3, SameNext, Frames
  <2>8. SignalRead(Statement(text, g), 1)'
    BY <1>4, <2>1 DEF SignalRead, NewSignal
  <2>9. InSignal(m, g, 1)'
    BY <1>4, <2>5, <2>6, <2>7, <2>8 DEF InSignal
  <2>10. SignalInv'
    <3>1. SignalWords["signalName"] = 1 /\ ~sigDesc'.isSigned
      BY <2>1 DEF SignalWords, NewSignal
    <3>2. QED
      BY <1>2, <1>4, <1>5, <2>1, <2>9, <3>1 DEF SignalInv
  <2>11. QED
    BY <1>4, <2>1, <2>10, OnlyHere
<1>9. CASE Peek # "TT_SIGNAL_PREFIX"
  <2>1. Stay /\ IF msgDesc.signals # <<>> THEN pc' = "add" ELSE Refuse
    BY <1>9 DEF Signals, Goto
  <2>2. Ahead' = Ahead
    BY <2>1, StayFacts
  <2>3. CASE m # h
    <3>1. pc' = "add"
      BY <1>7, <2>1, <2>3
    <3>2. /\ Finished(m)' /\ Described(text, m, h + 1)' /\ Upcoming' = Upcoming
          /\ AtEnd(h)' <=> AtEnd(h)
          /\ Doomed' <=> Doomed
      BY <1>2, <1>4, <1>6, <2>2, SamePlace, Frames
    <3>3. SignalsAt(m, h)'
      <4>1. AtEnd(h)' \/ (Doomed /\ m # h /\ ~Complete(Statement(text, h)))'
        BY <1>2, <1>4, <1>6, <2>2, SamePlace
      <4>2. QED
        BY <1>3, <1>4, <1>6, <1>9, <2>3, <3>2, <4>1 DEF SignalsAt
    <3>4. SignalsInv'
      BY <1>2, <1>4, <1>5, <3>3 DEF SignalsInv
    <3>5. QED
      BY <1>4, <3>1, <3>4, OnlyHere
  <2>4. CASE m = h
    <3>1. Refuse
      BY <1>7, <2>1, <2>4
    <3>2. /\ KindAt(text, h) = "TT_MESSAGE_PREFIX"
          /\ Ahead = From(text, AfterLine(text, h))
      BY <1>6, <1>7, <2>4 DEF AtEnd
    <3>3. ~Accepted(text, OptionNames, MAX_ID)
      <4>1. CASE LastIs(h)
        BY <3>2, <4>1 DEF LastIs, Accepted, Nested
      <4>2. CASE \E g \in Statements(text) : NextIs(h, g)
        <5>1. PICK g \in Statements(text) : NextIs(h, g)
          BY <4>2
        <5>2. /\ Kind(text, g) \in LinePrefixes \ {"TT_SIGNAL_PREFIX"}
              /\ KindBefore(text, g) = "TT_MESSAGE_PREFIX"
          BY <1>3, <1>9, <3>2, <5>1 DEF NextIs
        <5>3. ~Follows(text, g)
          BY <5>2, Following DEF Follows, LinePrefixes
        <5>4. QED
          BY <5>3, NotWhole
      <4>3. QED
        BY <1>1, <1>5, <3>2, <4>1, <4>2, BehindLine
    <3>4. QED
      BY <1>1, <1>2, <1>4, <3>1, <3>3, Refused
  <2>5. QED
    BY <2>3, <2>4
<1>10. QED
  BY <1>8, <1>9

(* One more word of the signal's line is read.                              *)
LEMMA InSignalFacts ==
    ASSUME text \in Seq(Symbol), NEW m, NEW h, NEW w, InSignal(m, h, w)
    PROVE  /\ Under(text, m, h) /\ m # h /\ InLine(h, w) /\ Finished(m) /\ Described(text, m, h)
           /\ SignalRead(Statement(text, h), w)
           /\ m \in Heads(text) /\ m \in Statements(text) /\ h \in Statements(text)
           /\ Kind(text, h) = "TT_SIGNAL_PREFIX" /\ Follows(text, h)
           /\ Statement(text, h) \in Seq(AnyWord) /\ Len(Statement(text, h)) \in Nat
           /\ InterpWord(Statement(text, h)[1]) = "TT_SIGNAL_PREFIX"
           /\ h \in SignalLines(text, m) /\ h \notin OptionLines(text) /\ h \notin Heads(text)
<1>1. /\ Under(text, m, h) /\ m # h /\ InLine(h, w) /\ Finished(m) /\ Described(text, m, h)
      /\ SignalRead(Statement(text, h), w)
  BY DEF InSignal
<1>2. m \in Heads(text) /\ m \in Statements(text) /\ h \in Statements(text)
  BY <1>1 DEF Under, Heads
<1>3. Kind(text, h) = "TT_SIGNAL_PREFIX" /\ h \in SignalLines(text, m)
  BY <1>1, UnderLines
<1>4. h \notin OptionLines(text) /\ h \notin Heads(text)
  BY <1>3 DEF OptionLines, Heads
<1>5. Follows(text, h)
  BY <1>1 DEF InLine
<1>6. QED
  BY <1>1, <1>2, <1>3, <1>4, <1>5, FirstWord

LEMMA SignalWord ==
    ASSUME TypeOK, InScope(text, UINT32), readable, OutsideComments(text, pos), ~AtComment,
           Consume, UNCHANGED opts, UNCHANGED <<messageIDSet, added>>, UNCHANGED msgDesc,
           NEW m, NEW h, NEW w, NEW v, InSignal(m, h, w), w < Len(Statement(text, h)),
           v = w + 1, SignalRead(Statement(text, h), v)'
    PROVE  InSignal(m, h, v)'
<1>1. text \in Seq(Symbol) /\ text' = text
  BY TextFacts DEF Consume, sourceVars
<1>2. /\ Under(text, m, h) /\ m # h /\ InLine(h, w) /\ Finished(m) /\ Described(text, m, h)
      /\ h \in Statements(text)
  BY <1>1, InSignalFacts
<1>3. InLine(h, w + 1)'
  BY <1>2, NextWord
<1>4. Finished(m)' /\ Described(text, m, h)'
  BY <1>1, <1>2, Frames
<1>5. QED
  BY <1>1, <1>2, <1>3, <1>4 DEF InSignal

LEMMA SignalNameStep ==
    ASSUME Parsing, SignalName
    PROVE  ParseInv'
<1>1. /\ TypeOK /\ readable /\ OutsideComments(text, pos) /\ InScope(text, UINT32)
      /\ ~AtComment /\ text \in Seq(Symbol) /\ ParseInv
  BY TextFacts DEF Parsing, SignalName, At
<1>2. /\ pc = "signalName" /\ UNCHANGED opts /\ UNCHANGED added /\ Consume /\ text' = text
      /\ UNCHANGED <<messageIDSet, added>> /\ UNCHANGED sawBoard /\ UNCHANGED hasMsg
      /\ UNCHANGED msgDesc /\ UNCHANGED sigDesc /\ sawBoard /\ hasMsg /\ ~sigDesc.isSigned
      /\ IF Peek = "TT_IDENTIFIER" THEN pc' = "dataType" ELSE Refuse
      /\ \E m, h \in Statements(text) : InSignal(m, h, 1)
  BY <1>1 DEF SignalName, At, optionVars, boardVars, parseVars, ParseInv, SignalInv, SignalWords,
     Consume, sourceVars, Expect, Goto
<1>3. PICK m, h \in Statements(text) : InSignal(m, h, 1)
  BY <1>2
<1> DEFINE s == Statement(text, h)
<1>4. /\ Len(s) \in Nat /\ InterpWord(s[1]) = "TT_SIGNAL_PREFIX" /\ InLine(h, 1)
      /\ SignalRead(s, 1)
  BY <1>1, <1>3, InSignalFacts
<1>5. AddedInv'
  BY <1>1, <1>2, Frames DEF ParseInv
<1>6. Complete(s) => 1 < Len(s) /\ IsName(s[2])
  BY <1>4, Shapes
<1>7. CASE Peek = "TT_IDENTIFIER"
  <2>1. 1 < Len(s) /\ Word = s[1 + 1] /\ Peek = InterpWord(Word) /\ 1 + 1 = 2
    BY <1>1, <1>3, <1>4, <1>7, WordIs DEF LinePrefixes
  <2>2. IsName(s[2])
    BY <1>7, <2>1 DEF IsName
  <2>3. SignalRead(s, 2)'
    BY <1>2, <1>4, <2>2 DEF SignalRead
  <2>4. InSignal(m, h, 2)'
    BY <1>1, <1>2, <1>3, <2>1, <2>3, SignalWord
  <2>5. SignalInv'
    <3>1. SignalWords["dataType"] = 2
      BY DEF SignalWords
    <3>2. QED
      BY <1>2, <1>7, <2>4, <3>1 DEF SignalInv
  <2>6. QED
    BY <1>2, <1>5, <1>7, <2>5, OnlyHere
<1>8. CASE Peek # "TT_IDENTIFIER"
  <2>1. ~Complete(s)
    <3>1. SUFFICES ASSUME 1 < Len(s), IsName(s[2]) PROVE FALSE
      BY <1>6
    <3>2. Word = s[1 + 1] /\ Peek = InterpWord(Word) /\ 1 + 1 = 2
      BY <1>1, <1>3, <1>4, <3>1, LineWord
    <3>3. QED
      BY <1>8, <3>1, <3>2 DEF IsName
  <2>2. QED
    BY <1>1, <1>2, <1>3, <1>8, <2>1, NotWhole, Refused DEF LineOK
<1>9. QED
  BY <1>7, <1>8

LEMMA DataTypeStep ==
    ASSUME Parsing, DataType
    PROVE  ParseInv'
<1>1. /\ TypeOK /\ readable /\ OutsideComments(text, pos) /\ InScope(text, UINT32)
      /\ ~AtComment /\ text \in Seq(Symbol) /\ ParseInv
  BY TextFacts DEF Parsing, DataType, At
<1>2. /\ pc = "dataType" /\ UNCHANGED opts /\ UNCHANGED added /\ Consume /\ text' = text
      /\ UNCHANGED <<messageIDSet, added>> /\ UNCHANGED sawBoard /\ UNCHANGED hasMsg
      /\ UNCHANGED msgDesc /\ UNCHANGED sigDesc /\ sawBoard /\ hasMsg /\ ~sigDesc.isSigned
      /\ IF Peek = "TT_IDENTIFIER" THEN pc' = "startBit" ELSE Refuse
      /\ \E m, h \in Statements(text) : InSignal(m, h, 2)
  BY <1>1 DEF DataType, At, optionVars, boardVars, parseVars, ParseInv, SignalInv, SignalWords,
     Consume, sourceVars, Expect, Goto
<1>3. PICK m, h \in Statements(text) : InSignal(m, h, 2)
  BY <1>2
<1> DEFINE s == Statement(text, h)
<1>4. /\ Len(s) \in Nat /\ InterpWord(s[1]) = "TT_SIGNAL_PREFIX" /\ InLine(h, 2)
      /\ SignalRead(s, 2)
  BY <1>1, <1>3, InSignalFacts
<1>5. AddedInv'
  BY <1>1, <1>2, Frames DEF ParseInv
<1>6. Complete(s) => 2 < Len(s) /\ IsName(s[3])
  BY <1>4, Shapes
<1>7. CASE Peek = "TT_IDENTIFIER"
  <2>1. 2 < Len(s) /\ Word = s[2 + 1] /\ Peek = InterpWord(Word) /\ 2 + 1 = 3
    BY <1>1, <1>3, <1>4, <1>7, WordIs DEF LinePrefixes
  <2>2. IsName(s[3])
    BY <1>7, <2>1 DEF IsName
  <2>3. SignalRead(s, 3)'
    BY <1>2, <1>4, <2>2 DEF SignalRead
  <2>4. InSignal(m, h, 3)'
    BY <1>1, <1>2, <1>3, <2>1, <2>3, SignalWord
  <2>5. SignalInv'
    <3>1. SignalWords["startBit"] = 3
      BY DEF SignalWords
    <3>2. QED
      BY <1>2, <1>7, <2>4, <3>1 DEF SignalInv
  <2>6. QED
    BY <1>2, <1>5, <1>7, <2>5, OnlyHere
<1>8. CASE Peek # "TT_IDENTIFIER"
  <2>1. ~Complete(s)
    <3>1. SUFFICES ASSUME 2 < Len(s), IsName(s[3]) PROVE FALSE
      BY <1>6
    <3>2. Word = s[2 + 1] /\ Peek = InterpWord(Word) /\ 2 + 1 = 3
      BY <1>1, <1>3, <1>4, <3>1, LineWord
    <3>3. QED
      BY <1>8, <3>1, <3>2 DEF IsName
  <2>2. QED
    BY <1>1, <1>2, <1>3, <1>8, <2>1, NotWhole, Refused DEF LineOK
<1>9. QED
  BY <1>7, <1>8

FieldWords == [startBit |-> 4, length |-> 5, factor |-> 6, offset |-> 7]

LEMMA SignalFieldStep ==
    ASSUME Parsing, SignalField
    PROVE  ParseInv'
<1>1. /\ TypeOK /\ readable /\ OutsideComments(text, pos) /\ InScope(text, UINT32)
      /\ ~AtComment /\ text \in Seq(Symbol) /\ ParseInv
      /\ pc \in {"startBit", "length", "factor", "offset"}
  BY TextFacts DEF Parsing, SignalField, At, fieldTypes
<1>2. /\ UNCHANGED opts /\ UNCHANGED added /\ Consume /\ text' = text
      /\ UNCHANGED <<messageIDSet, added>> /\ UNCHANGED sawBoard /\ UNCHANGED hasMsg
      /\ UNCHANGED msgDesc
  BY DEF SignalField, optionVars, boardVars, Consume, sourceVars
<1> DEFINE IsAt(w, v) ==
             /\ w = SignalWords[pc] /\ v = FieldWords[pc]
             /\ w \in 3..6 /\ v = w + 1 /\ v \in 4..7
             /\ pc = "startBit" <=> v = 4
             /\ pc = "length" <=> v = 5
             /\ pc = "factor" <=> v = 6
             /\ pc = "offset" <=> v = 7
<1>3. \E w \in 3..6, v \in 4..7 : IsAt(w, v)
  <2>1. IsAt(SignalWords[pc], FieldWords[pc])
    BY <1>1 DEF SignalWords, FieldWords
  <2>2. SignalWords[pc] \in 3..6 /\ FieldWords[pc] \in 4..7
    BY <2>1
  <2>3. QED
    BY <2>1, <2>2
<1>4. PICK w \in 3..6, v \in 4..7 : IsAt(w, v)
  BY <1>3
<1>5. /\ w = SignalWords[pc] /\ v = FieldWords[pc]
      /\ w \in 3..6 /\ v = w + 1 /\ pc \in DOMAIN SignalWords /\ v \in 4..7
      /\ fieldTypes[pc] \subseteq {"TT_INT", "TT_FLOAT"}
      /\ fieldTypes[pc] \cap ({"none"} \cup LinePrefixes) = {}
      /\ pc = "startBit" <=> v = 4
      /\ pc = "length" <=> v = 5
      /\ pc = "factor" <=> v = 6
      /\ pc = "offset" <=> v = 7
  <2>1. pc \in DOMAIN SignalWords
    BY <1>1 DEF SignalWords
  <2>2. /\ fieldTypes[pc] \subseteq {"TT_INT", "TT_FLOAT"}
        /\ fieldTypes[pc] \cap ({"none"} \cup LinePrefixes) = {}
    BY <1>1 DEF fieldTypes, LinePrefixes
  <2>3. QED
    BY <1>4, <2>1, <2>2
<1>6. /\ sawBoard /\ hasMsg /\ ~sigDesc.isSigned
      /\ \E m, h \in Statements(text) : InSignal(m, h, w)
  BY <1>1, <1>5 DEF ParseInv, SignalInv
<1> HIDE DEF IsAt
<1>7. PICK m, h \in Statements(text) : InSignal(m, h, w)
  BY <1>6
<1> DEFINE s == Statement(text, h)
<1>8. /\ s \in Seq(AnyWord) /\ Len(s) \in Nat /\ InterpWord(s[1]) = "TT_SIGNAL_PREFIX"
      /\ InLine(h, w) /\ SignalRead(s, w)
  BY <1>1, <1>7, InSignalFacts
<1>9. AddedInv'
  BY <1>1, <1>2, Frames DEF ParseInv
<1>10. Complete(s) => /\ w < Len(s)
                      /\ v = 4 \/ v = 5 => s[v].form = "dec"
                      /\ v = 6 \/ v = 7 => IsNumeric(s[v])
  <2>1. w = 3 \/ w = 4 \/ w = 5 \/ w = 6
    BY <1>5
  <2>2. Complete(s) => /\ 3 < Len(s) /\ 4 < Len(s) /\ 5 < Len(s) /\ 6 < Len(s)
                       /\ s[4].form = "dec" /\ s[5].form = "dec"
                       /\ IsNumeric(s[6]) /\ IsNumeric(s[7])
    BY <1>8, Shapes
  <2> HIDE DEF s
  <2>3. Complete(s) => w < Len(s)
    BY <2>1, <2>2
  <2>4. Complete(s) => /\ v = 4 \/ v = 5 => s[v].form = "dec"
                       /\ v = 6 \/ v = 7 => IsNumeric(s[v])
    BY <2>2
  <2>5. QED
    BY <2>3, <2>4
<1>11. \A u \in AnyWord : InterpWord(u) \in fieldTypes[pc] <=>
                           /\ v = 4 \/ v = 5 => u.form = "dec"
                           /\ v = 6 \/ v = 7 => IsNumeric(u)
  <2> SUFFICES ASSUME NEW u \in AnyWord
               PROVE  InterpWord(u) \in fieldTypes[pc] <=>
                        /\ v = 4 \/ v = 5 => u.form = "dec"
                        /\ v = 6 \/ v = 7 => IsNumeric(u)
    OBVIOUS
  <2>1. (InterpWord(u) = "TT_INT" <=> u.form = "dec") /\ (InterpWord(u) = "TT_FLOAT" <=> u.form = "real")
    BY TokenFacts
  <2>2. IsNumeric(u) <=> InterpWord(u) \in {"TT_INT", "TT_FLOAT"}
    BY <2>1 DEF IsNumeric
  <2>3. /\ pc \in {"startBit", "length"} => fieldTypes[pc] = {"TT_INT"}
        /\ pc \in {"factor", "offset"} => fieldTypes[pc] = {"TT_INT", "TT_FLOAT"}
    BY DEF fieldTypes
  <2>4. (v = 4 \/ v = 5 <=> pc \in {"startBit", "length"})
        /\ (v = 6 \/ v = 7 <=> pc \in {"factor", "offset"})
    BY <1>5
  <2>5. CASE pc \in {"startBit", "length"}
    BY <2>1, <2>3, <2>4, <2>5
  <2>6. CASE pc \in {"factor", "offset"}
    BY <2>2, <2>3, <2>4, <2>6
  <2>7. QED
    BY <1>1, <2>5, <2>6
<1>12. CASE Peek \in fieldTypes[pc]
  <2>1. w < Len(s) /\ Word = s[v] /\ Word \in AnyWord /\ Peek = InterpWord(Word)
    <3>1. w < Len(s) /\ Word = s[w + 1] /\ Word \in AnyWord /\ Peek = InterpWord(Word)
      BY <1>1, <1>5, <1>7, <1>8, <1>12, WordIs
    <3>2. QED
      BY <1>5, <3>1
  <2>2. /\ v = 4 \/ v = 5 => s[v].form = "dec"
        /\ v = 6 \/ v = 7 => IsNumeric(s[v])
    BY <1>11, <1>12, <2>1
  <2>3. sigDesc' = [sigDesc EXCEPT ![pc] = FieldOf(pc, s[v])] /\ pc' = After[pc]
    BY <1>12, <2>1 DEF SignalField, Goto
  <2>4. /\ sigDesc'[pc] = FieldOf(pc, s[v])
        /\ \A f \in {"startBit", "length", "factor", "offset", "isSigned", "endianness"} :
             f # pc => sigDesc'[f] = sigDesc[f]
    <3>1. sigDesc \in SignalType
      BY <1>1 DEF TypeOK
    <3> HIDE DEF s
    <3>2. QED
      BY <1>1, <2>3, <3>1 DEF SignalType
  <2>5. SignalRead(s, v)' /\ ~sigDesc'.isSigned
    <3>1. sigDesc'.endianness = "little" /\ ~sigDesc'.isSigned
      BY <1>1, <1>6, <1>8, <2>4 DEF SignalRead
    <3>2. CASE pc = "startBit"
      <4>1. v = 4 /\ w = 3
        BY <1>5, <3>2
      <4>2. sigDesc'.startBit = s[4].n % 256
        BY <2>4, <3>2, <4>1 DEF FieldOf
      <4>3. IsName(s[2]) /\ IsName(s[3]) /\ s[4].form = "dec"
        BY <1>8, <2>2, <4>1 DEF SignalRead
      <4>4. QED
        BY <1>2, <3>1, <4>1, <4>2, <4>3 DEF SignalRead
    <3>3. CASE pc = "length"
      <4>1. v = 5 /\ w = 4
        BY <1>5, <3>3
      <4>2. sigDesc'.length = s[5].n % 256 /\ sigDesc'.startBit = sigDesc.startBit
        BY <2>4, <3>3, <4>1 DEF FieldOf
      <4>3. IsName(s[2]) /\ IsName(s[3]) /\ s[4].form = "dec" /\ s[5].form = "dec"
            /\ sigDesc.startBit = s[4].n % 256
        BY <1>8, <2>2, <4>1 DEF SignalRead
      <4>4. QED
        BY <1>2, <3>1, <4>1, <4>2, <4>3 DEF SignalRead
    <3>4. CASE pc = "factor"
      <4>1. v = 6 /\ w = 5
        BY <1>5, <3>4
      <4>2. /\ sigDesc'.factor = DoubleOf(s[6]) /\ sigDesc'.startBit = sigDesc.startBit
            /\ sigDesc'.length = sigDesc.length
        BY <2>4, <3>4, <4>1 DEF FieldOf
      <4>3. IsName(s[2]) /\ IsName(s[3]) /\ s[4].form = "dec" /\ s[5].form = "dec"
            /\ sigDesc.startBit = s[4].n % 256 /\ sigDesc.length = s[5].n % 256 /\ IsNumeric(s[6])
        BY <1>8, <2>2, <4>1 DEF SignalRead
      <4>4. QED
        BY <1>2, <3>1, <4>1, <4>2, <4>3 DEF SignalRead
    <3>5. CASE pc = "offset"
      <4>1. v = 7 /\ w = 6
        BY <1>5, <3>5
      <4>2. /\ sigDesc'.offset = DoubleOf(s[7]) /\ sigDesc'.startBit = sigDesc.startBit
            /\ sigDesc'.length = sigDesc.length /\ sigDesc'.factor = sigDesc.factor
        BY <2>4, <3>5, <4>1 DEF FieldOf
      <4>3. IsName(s[2]) /\ IsName(s[3]) /\ s[4].form = "dec" /\ s[5].form = "dec"
            /\ sigDesc.startBit = s[4].n % 256 /\ sigDesc.length = s[5].n % 256 /\ IsNumeric(s[6])
            /\ sigDesc.factor = DoubleOf(s[6]) /\ IsNumeric(s[7])
        BY <1>8, <2>2, <4>1 DEF SignalRead
      <4>4. QED
        BY <1>2, <3>1, <4>1, <4>2, <4>3 DEF SignalRead
    <3>6. QED
      BY <1>1, <3>1, <3>2, <3>3, <3>4, <3>5
  <2>6. InSignal(m, h, v)'
    BY <1>1, <1>2, <1>5, <1>7, <2>1, <2>5, SignalWord
  <2>7. pc' \in {"length", "factor", "offset", "signedness"} /\ SignalWords[pc'] = v
    BY <1>1, <1>5, <2>3 DEF After, SignalWords, FieldWords
  <2>8. SignalInv'
    <3>1. pc' # "endianness"
      BY <2>7
    <3>2. QED
      BY <1>2, <1>6, <2>5, <2>6, <2>7, <3>1 DEF SignalInv
  <2>9. QED
    BY <1>9, <2>7, <2>8, OnlyHere
<1>13. CASE Peek \notin fieldTypes[pc]
  <2>1. Refuse
    BY <1>13 DEF SignalField
  <2>2. ~Complete(s)
    <3>0. SUFFICES ASSUME Complete(s) PROVE FALSE
      OBVIOUS
    <3>1. /\ w < Len(s)
          /\ v = 4 \/ v = 5 => s[v].form = "dec"
          /\ v = 6 \/ v = 7 => IsNumeric(s[v])
      BY <1>10, <3>0
    <3>2. Word = s[w + 1] /\ Word \in AnyWord /\ Peek = InterpWord(Word)
      BY <1>1, <1>7, <1>8, <3>1, LineWord
    <3>3. Word = s[v]
      BY <1>5, <3>2
    <3>4. QED
      BY <1>11, <1>13, <3>1, <3>2, <3>3
  <2>3. QED
    BY <1>1, <1>2, <1>7, <2>1, <2>2, NotWhole, Refused DEF LineOK
<1>14. QED
  BY <1>12, <1>13

LEMMA RankFacts ==
    ASSUME NEW lines \in SUBSET Nat, IsFiniteSet(lines), NEW k \in lines
    PROVE  /\ Rank(k, lines) \in Nat /\ Rank(k, lines) >= 1
           /\ Rank(k, lines) = Cardinality({g \in lines : g < k}) + 1
           /\ Rank(k, lines) <= Cardinality(lines)
           /\ \A h \in Nat : k < h =>
                /\ Rank(k, lines) <= Cardinality({g \in lines : g < h})
                /\ IsFiniteSet({g \in lines : g < h})
           /\ \A j \in lines : k < j => Rank(k, lines) < Rank(j, lines)
<1>1. ASSUME NEW S \in SUBSET lines PROVE IsFiniteSet(S) /\ Cardinality(S) \in Nat
  BY <1>1, FS_Subset, FS_CardinalityType
<1>2. ASSUME NEW S \in SUBSET lines, NEW T \in SUBSET S PROVE Cardinality(T) <= Cardinality(S)
  BY <1>1, <1>2, FS_Subset
<1>3. ASSUME NEW j \in lines PROVE Rank(j, lines) = Cardinality({g \in lines : g < j}) + 1
  <2> DEFINE B == {g \in lines : g < j}
  <2>1. {g \in lines : g <= j} = B \cup {j}
    <3>1. \A g \in lines : g <= j <=> g < j \/ g = j
      OBVIOUS
    <3>2. QED
      BY <3>1
  <2>2. j \notin B /\ IsFiniteSet(B)
    BY <1>1
  <2> HIDE DEF B
  <2>3. Cardinality(B \cup {j}) = Cardinality(B) + 1
    BY <2>2, FS_AddElement
  <2>4. QED
    BY <2>1, <2>3 DEF Rank, B
<1>4. ASSUME NEW h \in Nat, k < h
      PROVE  Rank(k, lines) <= Cardinality({g \in lines : g < h}) /\ IsFiniteSet({g \in lines : g < h})
  <2>1. {g \in lines : g <= k} \in SUBSET {g \in lines : g < h}
    <3>1. \A g \in lines : g <= k => g < h
      BY <1>4
    <3>2. QED
      BY <3>1
  <2>2. {g \in lines : g < h} \in SUBSET lines
    OBVIOUS
  <2>3. QED
    BY <1>1, <1>2, <2>1, <2>2 DEF Rank
<1>5. ASSUME NEW j \in lines, k < j PROVE Rank(k, lines) < Rank(j, lines)
  <2> DEFINE c == Cardinality({g \in lines : g < j})
  <2>1. Rank(k, lines) <= c /\ Rank(j, lines) = c + 1
    BY <1>3, <1>4, <1>5
  <2>2. c \in Nat /\ Rank(k, lines) \in Nat
    BY <1>1 DEF Rank
  <2> HIDE DEF c
  <2>3. QED
    BY <2>1, <2>2
<1>6. Rank(k, lines) \in Nat /\ Rank(k, lines) >= 1
  <2> DEFINE c == Cardinality({g \in lines : g < k})
  <2>1. c \in Nat /\ Rank(k, lines) = c + 1
    BY <1>1, <1>3
  <2> HIDE DEF c
  <2>2. QED
    BY <2>1
<1>7. Rank(k, lines) <= Cardinality(lines)
  BY <1>2 DEF Rank
<1>8. QED
  BY <1>3, <1>4, <1>5, <1>6, <1>7

LEMMA LinesOfMessage ==
    ASSUME NEW t \in Seq(Symbol), NEW m
    PROVE  /\ SignalLines(t, m) \in SUBSET Nat /\ IsFiniteSet(SignalLines(t, m))
           /\ SignalLines(t, m) \subseteq Statements(t)
           /\ \A q : SignalsBefore(t, m, q) = {k \in SignalLines(t, m) : k < q}
           /\ \A q : IsFiniteSet(SignalsBefore(t, m, q)) /\ Cardinality(SignalsBefore(t, m, q)) \in Nat
<1>1. SignalLines(t, m) \in SUBSET Statements(t) /\ Statements(t) \in SUBSET Nat
  BY StatementFacts
<1>2. IsFiniteSet(SignalLines(t, m))
  BY <1>1, FiniteLines
<1>3. ASSUME NEW q
      PROVE  IsFiniteSet(SignalsBefore(t, m, q)) /\ Cardinality(SignalsBefore(t, m, q)) \in Nat
  <2>1. SignalsBefore(t, m, q) \in SUBSET SignalLines(t, m)
    BY DEF SignalsBefore
  <2>2. QED
    BY <1>2, <2>1, FS_Subset, FS_CardinalityType
<1>4. QED
  BY <1>1, <1>2, <1>3 DEF SignalsBefore

(* The message has the signal of its line h, after those of the lines       *)
(* before.                                                                  *)
LEMMA MessageGrows ==
    ASSUME text \in Seq(Symbol), text' = text, NEW m, NEW h \in SignalLines(text, m),
           Described(text, m, h), msgDesc \in MessageType, sigDesc' \in SignalType,
           msgDesc' = [msgDesc EXCEPT !.signals = Append(@, sigDesc')],
           Fits(sigDesc', msgDesc.length),
           Complete(Statement(text, h)) => DescribesSignal(Statement(text, h), sigDesc')
    PROVE  Described(text, m, h + 1)'
<1> DEFINE lines == SignalLines(text, m)
           old == msgDesc.signals
<1>1. /\ lines \in SUBSET Nat /\ IsFiniteSet(lines) /\ h \in Nat
      /\ SignalsBefore(text, m, h) = {k \in lines : k < h}
      /\ Cardinality(SignalsBefore(text, m, h)) \in Nat
  BY LinesOfMessage
<1>2. /\ msgDesc'.id = msgDesc.id /\ msgDesc'.length = msgDesc.length
      /\ msgDesc'.signals = Append(old, sigDesc') /\ old \in Seq(SignalType)
  BY DEF MessageType
<1>3. /\ msgDesc.id = Statement(text, m)[3].n /\ msgDesc.length = Statement(text, m)[4].n
      /\ Len(old) = Cardinality(SignalsBefore(text, m, h))
      /\ \A k \in SignalsBefore(text, m, h) :
           /\ Fits(old[Rank(k, lines)], msgDesc.length)
           /\ Complete(Statement(text, k)) => DescribesSignal(Statement(text, k), old[Rank(k, lines)])
  BY DEF Described
<1>4. Rank(h, lines) = Len(old) + 1 /\ Len(old) \in Nat
  <2>1. Rank(h, lines) = Cardinality({k \in lines : k < h}) + 1
    BY <1>1, RankFacts
  <2>2. QED
    BY <1>1, <1>3, <2>1
<1>5. SignalsBefore(text, m, h + 1) = SignalsBefore(text, m, h) \cup {h}
  <2>1. \A k \in lines : k < h + 1 <=> k < h \/ k = h
    BY <1>1
  <2>2. QED
    BY <2>1 DEF SignalsBefore
<1>6. Cardinality(SignalsBefore(text, m, h + 1)) = Len(old) + 1
  <2>1. h \notin SignalsBefore(text, m, h)
    BY <1>1 DEF SignalsBefore
  <2>2. IsFiniteSet(SignalsBefore(text, m, h))
    BY LinesOfMessage
  <2>3. QED
    BY <1>3, <1>5, <2>1, <2>2, FS_AddElement
<1>7. Len(msgDesc'.signals) = Len(old) + 1 /\ msgDesc'.signals[Len(old) + 1] = sigDesc'
  BY <1>2
<1>8. ASSUME NEW k \in SignalsBefore(text, m, h)
      PROVE  msgDesc'.signals[Rank(k, lines)] = old[Rank(k, lines)]
  <2>1. k \in lines /\ k < h
    BY <1>1
  <2>2. Rank(k, lines) \in Nat /\ Rank(k, lines) >= 1 /\ Rank(k, lines) <= Len(old)
    BY <1>1, <1>3, <2>1, RankFacts
  <2>3. Rank(k, lines) \in 1..Len(old)
    BY <1>4, <2>2
  <2>4. QED
    BY <1>2, <2>3
<1> HIDE DEF old, lines
<1>9. ASSUME NEW k \in SignalsBefore(text, m, h + 1)
      PROVE  /\ Fits(msgDesc'.signals[Rank(k, lines)], msgDesc'.length)
             /\ Complete(Statement(text, k)) =>
                  DescribesSignal(Statement(text, k), msgDesc'.signals[Rank(k, lines)])
  <2>1. CASE k = h
    BY <1>2, <1>4, <1>7, <2>1
  <2>2. CASE k \in SignalsBefore(text, m, h)
    BY <1>2, <1>3, <1>8, <2>2
  <2>3. QED
    BY <1>5, <2>1, <2>2
<1>10. QED
  BY <1>2, <1>3, <1>6, <1>7, <1>9 DEF Described, lines

Signs   == {Txt("signed"), Txt("unsigned")}
Endians == {Txt("big"), Txt("little")}

LEMMA OverrideShapes ==
    ASSUME NEW s \in Seq(AnyWord), NEW n, n = Len(s), 7 <= n
    PROVE  /\ Overrides(s) \in LegalOverrides <=>
                \/ n = 7
                \/ n = 8 /\ s[8] \in Signs \cup Endians
                \/ n = 9 /\ s[8] \in Signs /\ s[9] \in Endians
           /\ \A u : u \in Range(Overrides(s)) <=> \E i \in 8..n : s[i] = u
<1> DEFINE o == Overrides(s)
<1>1. n \in Nat
  OBVIOUS
<1>2. Len(o) = n - 7 /\ \A i \in 1..(n - 7) : o[i] = s[7 + i]
  <2>1. o = SubSeq(s, 8, n)
    BY DEF Overrides
  <2> HIDE DEF o
  <2>2. 8 \in 1..(n + 1) /\ n \in 7..n
    BY <1>1
  <2>3. Len(o) = IF 8 <= n THEN n - 8 + 1 ELSE 0
    BY <1>1, <2>1
  <2>4. \A i \in 1..(n - 8 + 1) : o[i] = s[8 + i - 1]
    BY <1>1, <2>1
  <2>5. n - 8 + 1 = n - 7 /\ \A i \in 1..(n - 7) : 8 + i - 1 = 7 + i
    BY <1>1
  <2>6. Len(o) = n - 7
    BY <1>1, <2>3
  <2>7. QED
    BY <2>4, <2>5, <2>6
<1>3. DOMAIN o = 1..(n - 7) /\ o \in Seq(AnyWord)
  <2>1. o \in Seq(AnyWord)
    BY <1>1 DEF Overrides
  <2>2. QED
    BY <1>2, <2>1
<1> HIDE DEF o
<1>4. ASSUME NEW u PROVE u \in Range(o) <=> \E i \in 8..n : s[i] = u
  <2>1. u \in Range(o) <=> \E i \in 1..(n - 7) : o[i] = u
    BY <1>3 DEF Range
  <2>2. ASSUME NEW i \in 1..(n - 7), o[i] = u PROVE \E j \in 8..n : s[j] = u
    <3>1. 7 + i \in 8..n /\ s[7 + i] = u
      BY <1>1, <1>2, <2>2
    <3>2. QED
      BY <3>1
  <2>3. ASSUME NEW j \in 8..n, s[j] = u PROVE \E i \in 1..(n - 7) : o[i] = u
    <3>1. j - 7 \in 1..(n - 7) /\ 7 + (j - 7) = j
      BY <1>1
    <3>2. o[j - 7] = u
      BY <1>2, <2>3, <3>1
    <3>3. QED
      BY <3>1, <3>2
  <2>4. QED
    BY <2>1, <2>2, <2>3
<1>5. o \in LegalOverrides <=>
        \/ o = <<>>
        \/ \E a \in Signs \cup Endians : o = <<a>>
        \/ \E a \in Signs, b \in Endians : o = <<a, b>>
  BY DEF LegalOverrides, Signs, Endians
<1>6. o = <<>> <=> n = 7
  <2>1. o = <<>> <=> Len(o) = 0
    BY <1>3
  <2>2. n - 7 = 0 <=> n = 7
    BY <1>1
  <2>3. QED
    BY <1>2, <2>1, <2>2
<1>7. (\E a \in Signs \cup Endians : o = <<a>>) <=> n = 8 /\ s[8] \in Signs \cup Endians
  <2>1. ASSUME NEW a \in Signs \cup Endians, o = <<a>> PROVE n = 8 /\ s[8] \in Signs \cup Endians
    <3>1. Len(o) = 1 /\ o[1] = a
      BY <2>1
    <3>2. n = 8 /\ 1 \in 1..(n - 7) /\ 7 + 1 = 8
      <4>1. n - 7 = 1
        BY <1>2, <3>1
      <4>2. \A k \in Nat : k - 7 = 1 => k = 8 /\ 1 \in 1..(k - 7) /\ 7 + 1 = 8
        OBVIOUS
      <4>3. QED
        BY <1>1, <4>1, <4>2, Zenon
    <3>3. s[8] = a
      BY <1>2, <3>1, <3>2
    <3>4. QED
      BY <3>2, <3>3
  <2>2. ASSUME n = 8, s[8] \in Signs \cup Endians PROVE \E a \in Signs \cup Endians : o = <<a>>
    <3>1. Len(o) = 1 /\ 1 \in 1..(n - 7) /\ 7 + 1 = 8
      BY <1>1, <1>2, <2>2
    <3>2. o[1] = s[8]
      BY <1>2, <3>1
    <3>3. o = <<s[8]>>
      <4>1. o \in Seq(AnyWord) /\ o[1] \in AnyWord
        BY <1>3, <3>1
      <4>2. <<o[1]>> \in Seq(AnyWord) /\ Len(<<o[1]>>) = 1
        BY <4>1
      <4>3. \A i \in 1..Len(o) : o[i] = <<o[1]>>[i]
        BY <3>1
      <4>4. o = <<o[1]>>
        BY <3>1, <4>1, <4>2, <4>3, SeqEqual
      <4>5. QED
        BY <3>2, <4>4
    <3>4. QED
      BY <2>2, <3>3
  <2>3. QED
    BY <2>1, <2>2
<1>8. (\E a \in Signs, b \in Endians : o = <<a, b>>) <=> n = 9 /\ s[8] \in Signs /\ s[9] \in Endians
  <2>1. ASSUME NEW a \in Signs, NEW b \in Endians, o = <<a, b>>
        PROVE  n = 9 /\ s[8] \in Signs /\ s[9] \in Endians
    <3>1. Len(o) = 2 /\ o[1] = a /\ o[2] = b
      BY <2>1
    <3>2. n = 9 /\ 1 \in 1..(n - 7) /\ 2 \in 1..(n - 7) /\ 7 + 1 = 8 /\ 7 + 2 = 9
      <4>1. n - 7 = 2
        BY <1>2, <3>1
      <4>2. \A k \in Nat : k - 7 = 2 => k = 9 /\ 1 \in 1..(k - 7) /\ 2 \in 1..(k - 7) /\ 7 + 1 = 8 /\ 7 + 2 = 9
        OBVIOUS
      <4>3. QED
        BY <1>1, <4>1, <4>2, Zenon
    <3>3. s[8] = a /\ s[9] = b
      BY <1>2, <3>1, <3>2
    <3>4. QED
      BY <3>2, <3>3
  <2>2. ASSUME n = 9, s[8] \in Signs, s[9] \in Endians
        PROVE  \E a \in Signs, b \in Endians : o = <<a, b>>
    <3>1. Len(o) = 2 /\ 1 \in 1..(n - 7) /\ 2 \in 1..(n - 7) /\ 7 + 1 = 8 /\ 7 + 2 = 9
      BY <1>1, <1>2, <2>2
    <3>2. o[1] = s[8] /\ o[2] = s[9]
      BY <1>2, <3>1
    <3>3. o = <<s[8], s[9]>>
      <4>1. o \in Seq(AnyWord) /\ o[1] \in AnyWord /\ o[2] \in AnyWord
        BY <1>3, <3>1
      <4>2. <<o[1], o[2]>> \in Seq(AnyWord) /\ Len(<<o[1], o[2]>>) = 2
        BY <4>1
      <4>3. \A i \in 1..Len(o) : o[i] = <<o[1], o[2]>>[i]
        BY <3>1
      <4>4. o = <<o[1], o[2]>>
        BY <3>1, <4>1, <4>2, <4>3, SeqEqual
      <4>5. QED
        BY <3>2, <4>4
    <3>4. QED
      BY <2>2, <3>3
  <2>3. QED
    BY <2>1, <2>2
<1>9. QED
  BY <1>4, <1>5, <1>6, <1>7, <1>8 DEF o

(* The words behind the seventh, as far as they are read: w words with the  *)
(* one for the sign, u with the one for the order of the bytes.             *)
LEMMA Keywords ==
    ASSUME NEW k \in {"signed", "unsigned", "big", "little"}
    PROVE  InterpWord(Txt(k)) = "TT_IDENTIFIER" /\ Txt(k).s = k /\ Txt(k).form = "text"
BY DEF InterpWord, Txt, prefixLUT

LEMMA KeywordsDiffer ==
    Signs \cap Endians = {} /\ Txt("signed") # Txt("unsigned") /\ Txt("big") # Txt("little")
BY DEF Signs, Endians, Txt

LEMMA SignednessStep ==
    ASSUME Parsing, Signedness
    PROVE  ParseInv'
<1>1. /\ TypeOK /\ readable /\ OutsideComments(text, pos) /\ InScope(text, UINT32)
      /\ ~AtComment /\ text \in Seq(Symbol) /\ ParseInv /\ sigDesc \in SignalType
  BY TextFacts DEF Parsing, Signedness, At, TypeOK
<1>2. /\ pc = "signedness" /\ pc' = "endianness"
      /\ UNCHANGED opts /\ UNCHANGED added /\ text' = text
      /\ UNCHANGED <<messageIDSet, added>> /\ UNCHANGED sawBoard /\ UNCHANGED hasMsg
      /\ UNCHANGED msgDesc /\ sawBoard /\ hasMsg /\ ~sigDesc.isSigned
      /\ \E m, h \in Statements(text) : InSignal(m, h, 7)
  BY <1>1 DEF Signedness, At, Goto, optionVars, boardVars, ParseInv, SignalInv, SignalWords,
     Consume, Stay, sourceVars
<1>3. PICK m, h \in Statements(text) : InSignal(m, h, 7)
  BY <1>2
<1> DEFINE s == Statement(text, h)
<1>4. /\ Len(s) \in Nat /\ InLine(h, 7) /\ SignalRead(s, 7) /\ Under(text, m, h) /\ m # h
      /\ Finished(m) /\ Described(text, m, h)
  BY <1>1, <1>3, InSignalFacts
<1>5. AddedInv'
  BY <1>1, <1>2, Frames DEF ParseInv
<1>6. CASE PeekKeyword({"signed", "unsigned"})
  <2>1. /\ Consume /\ sigDesc' = [sigDesc EXCEPT !.isSigned = (Word.s = "signed")]
        /\ Peek = "TT_IDENTIFIER" /\ Word.s \in {"signed", "unsigned"}
    BY <1>6 DEF Signedness, PeekKeyword
  <2>2. 7 < Len(s) /\ Word = s[7 + 1] /\ Word \in AnyWord /\ Peek = InterpWord(Word) /\ 7 + 1 = 8
    BY <1>1, <1>3, <1>4, <2>1, WordIs DEF LinePrefixes
  <2>3. s[8] = Txt(Word.s)
    BY <2>1, <2>2, TokenFacts
  <2>4. s[8] \in {Txt("signed"), Txt("unsigned")} /\ (s[8] = Txt("signed") <=> Word.s = "signed")
    BY <2>1, <2>3, KeywordsDiffer
  <2>5. /\ sigDesc'.isSigned = (Word.s = "signed")
        /\ sigDesc'.startBit = sigDesc.startBit /\ sigDesc'.length = sigDesc.length
        /\ sigDesc'.factor = sigDesc.factor /\ sigDesc'.offset = sigDesc.offset
        /\ sigDesc'.endianness = sigDesc.endianness
    <3>1. \A b \in BOOLEAN :
            LET r == [sigDesc EXCEPT !.isSigned = b]
            IN  /\ r.isSigned = b /\ r.startBit = sigDesc.startBit /\ r.length = sigDesc.length
                /\ r.factor = sigDesc.factor /\ r.offset = sigDesc.offset
                /\ r.endianness = sigDesc.endianness
      BY <1>1 DEF SignalType
    <3>2. (Word.s = "signed") \in BOOLEAN
      OBVIOUS
    <3>3. QED
      BY <2>1, <3>1, <3>2
  <2>6. SignalRead(s, 8)'
    BY <1>2, <1>4, <2>5 DEF SignalRead
  <2>7. SignRead(s, 8)'
    BY <1>2, <2>4, <2>5 DEF SignRead
  <2>8. InSignal(m, h, 8)'
    BY <1>1, <1>2, <1>3, <2>1, <2>2, <2>6, SignalWord
  <2>9. SignalInv'
    BY <1>2, <2>7, <2>8 DEF SignalInv, SignalWords
  <2>10. QED
    BY <1>2, <1>5, <2>9, OnlyHere
<1>7. CASE ~PeekKeyword({"signed", "unsigned"})
  <2>1. Stay /\ UNCHANGED sigDesc
    BY <1>7 DEF Signedness
  <2>2. Ahead' = Ahead
    BY <2>1, StayFacts
  <2>3. InSignal(m, h, 7)'
    <3>1. InLine(h, 7)'
      BY <1>2, <1>4, <2>2, SamePlace
    <3>2. SignalRead(s, 7)' /\ Finished(m)' /\ Described(text, m, h)'
      BY <1>2, <1>4, <2>1, Frames
    <3>3. QED
      BY <1>2, <1>4, <3>1, <3>2 DEF InSignal
  <2>4. Len(s) >= 8 => s[8] \notin {Txt("signed"), Txt("unsigned")}
    <3>1. SUFFICES ASSUME Len(s) >= 8, s[8] \in {Txt("signed"), Txt("unsigned")} PROVE FALSE
      OBVIOUS
    <3>2. 7 < Len(s)
      <4> DEFINE n == Len(s)
      <4>1. n \in Nat /\ n >= 8
        BY <1>4, <3>1
      <4> HIDE DEF n
      <4>2. 7 < n
        BY <4>1
      <4>3. QED
        BY <4>2 DEF n
    <3>3. Word = s[7 + 1] /\ Peek = InterpWord(Word) /\ 7 + 1 = 8
      BY <1>1, <1>4, <3>2, LineWord
    <3>4. Peek = "TT_IDENTIFIER" /\ Word.s \in {"signed", "unsigned"}
      BY <3>1, <3>3, Keywords
    <3>5. QED
      BY <1>7, <3>4 DEF PeekKeyword
  <2>5. SignRead(s, 7)'
    BY <1>2, <2>1, <2>4 DEF SignRead
  <2>6. SignalInv'
    BY <1>2, <2>3, <2>5 DEF SignalInv, SignalWords
  <2>7. QED
    BY <1>2, <1>5, <2>6, OnlyHere
<1>8. QED
  BY <1>6, <1>7

EndianRead(s, w, u, sig) ==
    \/ u = w /\ sig.endianness = "little" /\ (w < Len(s) => s[w + 1] \notin Endians)
    \/ u = w + 1 /\ s[u] \in Endians /\ sig.endianness = s[u].s

(* A line that ends with these words is whole, any other is not.            *)
LEMMA OverridesRead ==
    ASSUME NEW s \in Seq(AnyWord), InterpWord(s[1]) = "TT_SIGNAL_PREFIX", SignalRead(s, 7),
           NEW w \in {7, 8}, SignRead(s, w), NEW u, EndianRead(s, w, u, sigDesc'), u <= Len(s),
           sigDesc.isSigned \in BOOLEAN, sigDesc'.isSigned = sigDesc.isSigned
    PROVE  /\ Complete(s) <=> u = Len(s)
           /\ u = Len(s) =>
                /\ sigDesc'.isSigned = (Txt("signed") \in Range(Overrides(s)))
                /\ (sigDesc'.endianness = "big") = (Txt("big") \in Range(Overrides(s)))
           /\ u \in Nat /\ u >= 7 /\ Len(s) \in Nat
<1> DEFINE n == Len(s)
<1>1. n \in Nat /\ u \in 7..9 /\ u <= n
  BY DEF EndianRead
<1>2. /\ IsName(s[2]) /\ IsName(s[3]) /\ s[4].form = "dec" /\ s[5].form = "dec"
      /\ IsNumeric(s[6]) /\ IsNumeric(s[7])
  BY DEF SignalRead
<1>3. 7 <= n /\ 1 < n /\ 2 < n /\ 3 < n /\ 4 < n /\ 5 < n /\ 6 < n
  <2> HIDE DEF n
  <2>1. QED
    BY <1>1
<1>4. Complete(s) <=> Overrides(s) \in LegalOverrides
  BY <1>2, <1>3, Shapes
<1>5. /\ Overrides(s) \in LegalOverrides <=>
           \/ n = 7
           \/ n = 8 /\ s[8] \in Signs \cup Endians
           \/ n = 9 /\ s[8] \in Signs /\ s[9] \in Endians
      /\ \A x : x \in Range(Overrides(s)) <=> \E i \in 8..n : s[i] = x
  <2>1. 7 <= n /\ n = Len(s)
    BY <1>3
  <2> HIDE DEF n
  <2>2. s \in Seq(AnyWord)
    OBVIOUS
  <2>3. ASSUME NEW x PROVE x \in Range(Overrides(s)) <=> \E i \in 8..n : s[i] = x
    BY <2>1, <2>2, OverrideShapes
  <2>4. Overrides(s) \in LegalOverrides <=>
          \/ n = 7
          \/ n = 8 /\ s[8] \in Signs \cup Endians
          \/ n = 9 /\ s[8] \in Signs /\ s[9] \in Endians
    BY <2>1, <2>2, OverrideShapes, Zenon
  <2>5. QED
    BY <2>3, <2>4
<1>6. \/ w = 7 /\ ~sigDesc.isSigned /\ (8 <= n => s[8] \notin Signs)
      \/ w = 8 /\ s[8] \in Signs /\ sigDesc.isSigned = (s[8] = Txt("signed"))
  <2> HIDE DEF n
  <2>1. n >= 8 <=> 8 <= n
    BY <1>1
  <2>2. QED
    BY <2>1 DEF SignRead, Signs, n
<1>7. \/ u = w /\ sigDesc'.endianness = "little" /\ (w < n => s[w + 1] \notin Endians)
      \/ u = w + 1 /\ s[u] \in Endians /\ (sigDesc'.endianness = "big" <=> s[u] = Txt("big"))
  <2>1. ASSUME s[u] \in Endians, sigDesc'.endianness = s[u].s
        PROVE  sigDesc'.endianness = "big" <=> s[u] = Txt("big")
    BY <2>1, KeywordsDiffer, Keywords DEF Endians
  <2>2. QED
    BY <2>1 DEF EndianRead
<1>8. \A x \in Signs : x # Txt("big") /\ x \notin Endians
  BY KeywordsDiffer DEF Signs, Endians
<1>9. \A x \in Endians : x # Txt("signed") /\ x \notin Signs
  BY KeywordsDiffer DEF Signs, Endians
<1> HIDE DEF n
<1>10. CASE w = 7 /\ u = 7
  <2>1. n = 8 \/ n = 9 => s[8] \notin Signs /\ s[8] \notin Endians
    <3>1. n = 8 \/ n = 9 => s[8] \notin Signs
      BY <1>6, <1>10
    <3>2. n = 8 \/ n = 9 => s[8] \notin Endians
      <4>1. 7 + 1 = 8 /\ (n = 8 \/ n = 9 => 7 < n)
        OBVIOUS
      <4>2. u # w + 1
        BY <1>10
      <4>3. QED
        BY <1>7, <1>10, <4>1, <4>2
    <3>3. QED
      BY <3>1, <3>2
  <2>2. Overrides(s) \in LegalOverrides <=> n = 7
    BY <1>5, <2>1
  <2>3. n = 7 => 8..n = {}
    OBVIOUS
  <2>4. ~sigDesc.isSigned /\ sigDesc'.endianness = "little"
    BY <1>6, <1>7, <1>10
  <2>5. n = 7 => Txt("signed") \notin Range(Overrides(s)) /\ Txt("big") \notin Range(Overrides(s))
    BY <1>5, <2>3
  <2>6. QED
    BY <1>1, <1>4, <1>10, <2>2, <2>4, <2>5 DEF n
<1>11. CASE w = 7 /\ u = 8
  <2>1. s[8] \in Endians /\ (sigDesc'.endianness = "big" <=> s[8] = Txt("big")) /\ ~sigDesc.isSigned
    <3>1. u # w
      BY <1>11
    <3>2. QED
      BY <1>6, <1>7, <1>11, <3>1
  <2>2. Overrides(s) \in LegalOverrides <=> n = 8
    <3>1. s[8] \notin Signs /\ n # 7
      BY <1>1, <1>9, <1>11, <2>1
    <3>2. QED
      BY <1>5, <2>1, <3>1
  <2>3. n = 8 => 8..n = {8}
    OBVIOUS
  <2>4. n = 8 => /\ Txt("signed") \notin Range(Overrides(s))
                 /\ Txt("big") \in Range(Overrides(s)) <=> s[8] = Txt("big")
    BY <1>5, <1>9, <2>1, <2>3
  <2>5. QED
    BY <1>1, <1>4, <1>11, <2>1, <2>2, <2>4 DEF n
<1>12. CASE w = 8 /\ u = 8
  <2>1. /\ s[8] \in Signs /\ sigDesc.isSigned = (s[8] = Txt("signed"))
        /\ sigDesc'.endianness = "little" /\ (n = 9 => s[9] \notin Endians)
    <3>1. 8 + 1 = 9 /\ (n = 9 => 8 < n) /\ u # w + 1 /\ w # 7
      BY <1>12
    <3>2. QED
      BY <1>6, <1>7, <1>12, <3>1
  <2>2. Overrides(s) \in LegalOverrides <=> n = 8
    <3>1. n # 7
      BY <1>1, <1>12
    <3>2. QED
      BY <1>5, <2>1, <3>1
  <2>3. n = 8 => 8..n = {8}
    OBVIOUS
  <2>4. n = 8 => /\ Txt("signed") \in Range(Overrides(s)) <=> s[8] = Txt("signed")
                 /\ Txt("big") \notin Range(Overrides(s))
    BY <1>5, <1>8, <2>1, <2>3
  <2>5. QED
    BY <1>1, <1>4, <1>12, <2>1, <2>2, <2>4 DEF n
<1>13. CASE w = 8 /\ u = 9
  <2>1. /\ s[8] \in Signs /\ sigDesc.isSigned = (s[8] = Txt("signed"))
        /\ s[9] \in Endians /\ (sigDesc'.endianness = "big" <=> s[9] = Txt("big"))
    <3>1. u # w /\ w # 7
      BY <1>13
    <3>2. QED
      BY <1>6, <1>7, <1>13, <3>1
  <2>2. Overrides(s) \in LegalOverrides <=> n = 9
    <3>1. n # 7 /\ n # 8
      BY <1>1, <1>13
    <3>2. QED
      BY <1>5, <2>1, <3>1
  <2>3. n = 9 => 8..n = {8, 9}
    OBVIOUS
  <2>4. n = 9 => /\ Txt("signed") \in Range(Overrides(s)) <=> s[8] = Txt("signed")
                 /\ Txt("big") \in Range(Overrides(s)) <=> s[9] = Txt("big")
    BY <1>5, <1>8, <1>9, <2>1, <2>3
  <2>5. QED
    BY <1>1, <1>4, <1>13, <2>1, <2>2, <2>4 DEF n
<1>14. QED
  <2>1. u = w \/ u = w + 1
    BY <1>7
  <2>2. (w = 7 /\ u = 7) \/ (w = 7 /\ u = 8) \/ (w = 8 /\ u = 8) \/ (w = 8 /\ u = 9)
    BY <2>1
  <2>3. QED
    BY <1>10, <1>11, <1>12, <1>13, <2>2

LEMMA Uncut ==
    ASSUME InScope(text, UINT32), text \in Seq(Symbol), NEW h \in Statements(text),
           Kind(text, h) = "TT_SIGNAL_PREFIX", Complete(Statement(text, h)),
           SignalRead(Statement(text, h), 7)
    PROVE  /\ sigDesc.startBit = Statement(text, h)[4].n /\ sigDesc.length = Statement(text, h)[5].n
           /\ Statement(text, h)[4].n \in Nat /\ Statement(text, h)[5].n \in Nat
           /\ Statement(text, h)[5].n >= 1
<1> DEFINE s == Statement(text, h)
<1>1. s \in Seq(AnyWord) /\ Len(s) \in Nat /\ InterpWord(s[1]) = "TT_SIGNAL_PREFIX"
  BY FirstWord
<1>2. s[4].n \in 0..255 /\ s[5].n \in 1..255
  BY <1>1 DEF InScope, InWidth
<1>3. sigDesc.startBit = s[4].n % 256 /\ sigDesc.length = s[5].n % 256
  BY DEF SignalRead
<1> DEFINE a == s[4].n
           b == s[5].n
<1>4. a \in 0..255 /\ b \in 1..255
  BY <1>2
<1> HIDE DEF a, b
<1>5. a % 256 = a /\ b % 256 = b /\ a \in Nat /\ b \in Nat /\ b >= 1
  BY <1>4
<1>6. QED
  BY <1>3, <1>5 DEF a, b

(* A word that is left over at the end of a signal starts no line.          *)
LEMMA LeftOver ==
    ASSUME InScope(text, UINT32), text \in Seq(Symbol), NEW h \in Statements(text),
           Kind(text, h) \in {"TT_OPTION_PREFIX", "TT_SIGNAL_PREFIX"},
           NEW u \in Nat, u >= 1, u < Len(Statement(text, h)),
           text' = text, Ahead' = From(text, h + u),
           ~Complete(Statement(text, h))
    PROVE  Doomed'
<1> DEFINE s == Statement(text, h)
           n == Len(s)
<1>1. ~Accepted(text, OptionNames, MAX_ID)
  BY NotWhole DEF LineOK
<1>2. /\ h \in 1..Len(text) /\ EndOf(text, h) \in (h + 1)..(Len(text) + 1)
      /\ n = EndOf(text, h) - h /\ Len(text) \in Nat /\ n \in Nat /\ u < n
      /\ \A w \in 1..n : s[w] = text[h + w - 1]
  BY LineShape, FirstWord
<1> HIDE DEF n
<1>3. u + 1 \in 1..n /\ u + 1 \in 2..n /\ h + (u + 1) - 1 = h + u
  BY <1>2
<1>4. InterpWord(s[u + 1]) \notin LinePrefixes
  BY <1>3 DEF InScope, n
<1>5. s[u + 1] = text[h + u]
  BY <1>2, <1>3
<1>6. h + u \in h..(EndOf(text, h) - 1) /\ h + u \in Nat /\ h + u \in 1..Len(text)
  BY <1>2
<1>7. Live(text, h + u)
  BY <1>6, LineLive
<1>8. /\ h + u \in From(text, h + u) /\ From(text, h + u) \in SUBSET Nat
      /\ \A y \in From(text, h + u) : h + u <= y
  BY <1>6, <1>7 DEF From
<1>9. Min(From(text, h + u)) = h + u
  BY <1>8, LeastIs
<1>10. Ahead' # {} /\ Min(Ahead') = h + u
  BY <1>8, <1>9
<1>11. QED
  BY <1>1, <1>4, <1>5, <1>10 DEF Doomed, Upcoming

LEMMA EndianSignalStep ==
    ASSUME Parsing, EndianSignal
    PROVE  ParseInv'
<1>1. /\ TypeOK /\ readable /\ OutsideComments(text, pos) /\ InScope(text, UINT32)
      /\ ~AtComment /\ text \in Seq(Symbol) /\ ParseInv
      /\ sigDesc \in SignalType /\ msgDesc \in MessageType
  BY TextFacts DEF Parsing, EndianSignal, At, TypeOK
<1>2. /\ pc = "endianness" /\ UNCHANGED opts /\ UNCHANGED added /\ text' = text
      /\ UNCHANGED <<messageIDSet, added>> /\ UNCHANGED sawBoard /\ UNCHANGED hasMsg
      /\ sawBoard /\ hasMsg
      /\ \E m, h \in Statements(text), w \in {7, 8} :
           InSignal(m, h, w) /\ SignRead(Statement(text, h), w)
      /\ IF ValidateSignal(sigDesc')
         THEN pc' = "signals" /\ msgDesc' = [msgDesc EXCEPT !.signals = Append(@, sigDesc')]
         ELSE Refuse /\ UNCHANGED msgDesc
  BY <1>1 DEF EndianSignal, At, Goto, optionVars, boardVars, ParseInv, SignalInv,
     Consume, Stay, sourceVars
<1>3. PICK m, h \in Statements(text), w \in {7, 8} :
        InSignal(m, h, w) /\ SignRead(Statement(text, h), w)
  BY <1>2
<1> DEFINE s == Statement(text, h)
<1>4. /\ s \in Seq(AnyWord) /\ Len(s) \in Nat /\ InterpWord(s[1]) = "TT_SIGNAL_PREFIX"
      /\ InLine(h, w) /\ SignalRead(s, w) /\ Under(text, m, h) /\ m # h
      /\ Finished(m) /\ Described(text, m, h) /\ h \in SignalLines(text, m)
      /\ m \in Heads(text) /\ h \notin OptionLines(text) /\ Kind(text, h) = "TT_SIGNAL_PREFIX"
      /\ Follows(text, h)
  BY <1>1, <1>3, InSignalFacts
<1>5. AddedInv' /\ Finished(m)'
  BY <1>1, <1>2, <1>4, Frames DEF ParseInv
<1>6. SignalRead(s, 7)
  BY <1>4 DEF SignalRead
<1>7. /\ sigDesc' \in SignalType /\ sigDesc'.isSigned = sigDesc.isSigned
      /\ sigDesc'.startBit = sigDesc.startBit /\ sigDesc'.length = sigDesc.length
      /\ sigDesc'.factor = sigDesc.factor /\ sigDesc'.offset = sigDesc.offset
      /\ \E u : u <= Len(s) /\ EndianRead(s, w, u, sigDesc') /\ Ahead' = From(text, h + u)
  <2>1. CASE PeekKeyword({"big", "little"})
    <3>1. /\ Consume /\ sigDesc' = [sigDesc EXCEPT !.endianness = Word.s]
          /\ Peek = "TT_IDENTIFIER" /\ Word.s \in {"big", "little"}
      BY <2>1 DEF EndianSignal, PeekKeyword
    <3>2. w < Len(s) /\ Word = s[w + 1] /\ Word \in AnyWord /\ Peek = InterpWord(Word)
      BY <1>1, <1>4, <3>1, WordIs DEF LinePrefixes
    <3>3. Word = Txt(Word.s)
      BY <3>1, <3>2, TokenFacts
    <3>4. s[w + 1] \in Endians /\ sigDesc'.endianness = s[w + 1].s
      <4>1. sigDesc'.endianness = Word.s
        BY <1>1, <3>1 DEF SignalType
      <4>2. QED
        BY <3>1, <3>2, <3>3, <4>1 DEF Endians
    <3>5. EndianRead(s, w, w + 1, sigDesc')
      BY <3>4 DEF EndianRead
    <3>6. Ahead' = From(text, h + (w + 1)) /\ w + 1 <= Len(s)
      <4>1. InLine(h, w + 1)'
        BY <1>1, <1>2, <1>4, <3>1, <3>2, NextWord
      <4>2. w + 1 \in 1..Len(s)
        BY <1>2, <4>1 DEF InLine
      <4>3. QED
        BY <1>2, <4>1, <4>2 DEF InLine
    <3>7. /\ sigDesc' \in SignalType /\ sigDesc'.isSigned = sigDesc.isSigned
          /\ sigDesc'.startBit = sigDesc.startBit /\ sigDesc'.length = sigDesc.length
          /\ sigDesc'.factor = sigDesc.factor /\ sigDesc'.offset = sigDesc.offset
      BY <1>1, <3>1 DEF SignalType
    <3>8. QED
      BY <3>5, <3>6, <3>7
  <2>2. CASE ~PeekKeyword({"big", "little"})
    <3>1. Stay /\ sigDesc' = sigDesc
      BY <2>2 DEF EndianSignal
    <3>2. Ahead' = From(text, h + w) /\ w <= Len(s)
      BY <1>1, <1>4, <3>1, StayFacts, LineWord DEF InLine
    <3>3. w < Len(s) => s[w + 1] \notin Endians
      <4>1. SUFFICES ASSUME w < Len(s), s[w + 1] \in Endians PROVE FALSE
        OBVIOUS
      <4>2. Word = s[w + 1] /\ Peek = InterpWord(Word)
        BY <1>1, <1>4, <4>1, LineWord
      <4>3. Peek = "TT_IDENTIFIER" /\ Word.s \in {"big", "little"}
        BY <4>1, <4>2, Keywords DEF Endians
      <4>4. QED
        BY <2>2, <4>3 DEF PeekKeyword
    <3>4. EndianRead(s, w, w, sigDesc')
      BY <1>4, <3>1, <3>3 DEF EndianRead, SignalRead
    <3>5. QED
      BY <1>1, <3>1, <3>2, <3>4
  <2>3. QED
    BY <2>1, <2>2
<1>8. PICK u : u <= Len(s) /\ EndianRead(s, w, u, sigDesc') /\ Ahead' = From(text, h + u)
  BY <1>7
<1>9. /\ Complete(s) <=> u = Len(s)
      /\ u = Len(s) =>
           /\ sigDesc'.isSigned = (Txt("signed") \in Range(Overrides(s)))
           /\ (sigDesc'.endianness = "big") = (Txt("big") \in Range(Overrides(s)))
      /\ u \in Nat /\ u >= 7
  <2>1. sigDesc.isSigned \in BOOLEAN
    BY <1>1 DEF SignalType
  <2> HIDE DEF s
  <2>2. QED
    BY <1>3, <1>4, <1>6, <1>7, <1>8, <2>1, OverridesRead DEF s
<1>10. Complete(s) => /\ sigDesc.startBit = s[4].n /\ sigDesc.length = s[5].n
                      /\ s[4].n \in Nat /\ s[5].n \in Nat /\ s[5].n >= 1
  BY <1>1, <1>4, <1>6, Uncut
<1>11. CASE ValidateSignal(sigDesc')
  <2>1. pc' = "signals" /\ msgDesc' = [msgDesc EXCEPT !.signals = Append(@, sigDesc')]
    BY <1>2, <1>11
  <2>2. Complete(s) => DescribesSignal(s, sigDesc')
    <3>1. SUFFICES ASSUME Complete(s) PROVE DescribesSignal(s, sigDesc')
      OBVIOUS
    <3>2. sigDesc'.startBit = s[4].n /\ sigDesc'.length = s[5].n
      BY <1>7, <1>10, <3>1
    <3>3. /\ s[6].form = "real" => sigDesc'.factor.n = s[6].n
          /\ s[7].form = "real" => sigDesc'.offset.n = s[7].n
      BY <1>6, <1>7 DEF SignalRead, DoubleOf
    <3>4. QED
      BY <1>9, <3>1, <3>2, <3>3 DEF DescribesSignal
  <2>3. Fits(sigDesc', msgDesc.length)
    BY <1>11 DEF Fits, ValidateSignal
  <2>4. Described(text, m, h + 1)'
    BY <1>1, <1>2, <1>4, <1>7, <2>1, <2>2, <2>3, MessageGrows
  <2>5. AtEnd(h)' \/ (Doomed /\ m # h /\ ~Complete(s))'
    <3>1. CASE u = Len(s)
      <4>1. AfterLine(text, h) = h + u
        <5>1. AfterLine(text, h) = EndOf(text, h) /\ Len(s) = EndOf(text, h) - h
              /\ h \in Nat /\ EndOf(text, h) \in Nat
          <6>1. /\ Len(s) = EndOf(text, h) - h /\ h \in 1..Len(text)
                /\ EndOf(text, h) \in (h + 1)..(Len(text) + 1) /\ Len(text) \in Nat
            BY <1>1, LineShape, StatementFacts
          <6>2. AfterLine(text, h) = EndOf(text, h)
            BY <1>1, FirstWord
          <6> HIDE DEF s
          <6>3. QED
            BY <6>1, <6>2
        <5>2. u = EndOf(text, h) - h
          BY <3>1, <5>1
        <5>3. QED
          BY <5>1, <5>2
      <4>2. LineOK(text, h)
        BY <1>4, <1>9, <3>1 DEF LineOK, OptionLines
      <4>3. Past(h + 1)
        BY <1>1, <1>4, <4>2, LineRead, OtherLine DEF InLine, Past
      <4>4. Past(h + 1)'
        BY <1>2, <4>3, Frames
      <4>5. QED
        BY <1>2, <1>8, <4>1, <4>4 DEF AtEnd
    <3>2. CASE u # Len(s)
      <4>1. u < Len(s)
        <5> DEFINE n == Len(s)
        <5>1. u \in Nat /\ n \in Nat /\ u <= n /\ u # n
          BY <1>4, <1>8, <1>9, <3>2
        <5> HIDE DEF n
        <5>2. u < n
          BY <5>1
        <5>3. QED
          BY <5>2 DEF n
      <4>2. u \in Nat /\ u >= 1
        BY <1>9
      <4>3. ~Complete(s)
        BY <1>9, <3>2
      <4>4. Doomed'
        BY <1>1, <1>2, <1>4, <1>8, <4>1, <4>2, <4>3, LeftOver
      <4>5. QED
        BY <1>2, <1>4, <4>3, <4>4
    <3>3. QED
      BY <3>1, <3>2
  <2>6. SignalsAt(m, h)'
    BY <1>2, <1>4, <1>5, <2>1, <2>4, <2>5 DEF SignalsAt
  <2>7. SignalsInv'
    BY <1>2, <1>3, <2>1, <2>6 DEF SignalsInv
  <2>8. QED
    BY <1>5, <2>1, <2>7, OnlyHere
<1>12. CASE ~ValidateSignal(sigDesc')
  <2>1. Refuse
    BY <1>2, <1>12
  <2>2. CASE ~Complete(s)
    BY <1>1, <1>2, <2>1, <2>2, NotWhole, Refused DEF LineOK
  <2>3. CASE Complete(s)
    <3> DEFINE a == s[4].n
               b == s[5].n
               l == Statement(text, m)[4].n
    <3>1. a \in Nat /\ b \in Nat /\ b >= 1 /\ l \in Nat /\ ~(a + b <= 8 * l)
      <4>1. msgDesc.length = l /\ msgDesc.length \in 0..255
        BY <1>1, <1>4 DEF Described, MessageType
      <4>2. ~(a + b <= 8 * msgDesc.length)
        BY <1>7, <1>10, <1>12, <2>3 DEF ValidateSignal
      <4>3. l \in Nat
        BY <4>1
      <4>4. QED
        BY <1>10, <2>3, <4>1, <4>2, <4>3
    <3> HIDE DEF a, b, l
    <3>2. b - 1 \in 0..(b - 1) /\ a + (b - 1) \notin 0..(8 * l - 1)
      BY <3>1
    <3>3. a + (b - 1) \in Bits(s)
      BY <3>2 DEF Bits, a, b
    <3>4. ~ValidMessage(text, m, MAX_ID)
      BY <1>4, <3>2, <3>3 DEF ValidMessage, l
    <3>5. ~Accepted(text, OptionNames, MAX_ID)
      BY <1>4, <3>4 DEF Accepted
    <3>6. QED
      BY <1>1, <1>2, <2>1, <3>5, Refused
  <2>4. QED
    BY <2>2, <2>3
<1>13. QED
  BY <1>11, <1>12

-----------------------------------------------------------------------------
(* Checking a message: once the signals are in the order of their first     *)
(* bits, looking at neighbours is enough.                                   *)
LEMMA Ascending ==
    ASSUME NEW n \in Nat, NEW a \in [1..n -> Nat], \A k \in 2..n : a[k - 1] <= a[k]
    PROVE  \A j, k \in 1..n : j <= k => a[j] <= a[k]
<1> SUFFICES ASSUME NEW j \in 1..n PROVE \A k \in 1..n : j <= k => a[j] <= a[k]
  OBVIOUS
<1> DEFINE S == {k \in 1..n : j <= k /\ ~(a[j] <= a[k])}
           c == Min(S)
<1>1. ASSUME S # {} PROVE FALSE
  <2>1. S \in SUBSET Nat
    OBVIOUS
  <2>2. c \in S /\ \A y \in S : c <= y
    BY <1>1, <2>1, LeastElement
  <2> HIDE DEF c
  <2>3. c \in 1..n /\ j <= c /\ ~(a[j] <= a[c])
    BY <2>2
  <2>4. c # j
    BY <2>3
  <2>5. c - 1 \in 1..n /\ j <= c - 1 /\ c \in 2..n /\ ~(c <= c - 1)
    BY <2>3, <2>4
  <2>6. c - 1 \notin S
    BY <2>2, <2>5
  <2>7. a[j] <= a[c - 1] /\ a[c - 1] <= a[c]
    BY <2>5, <2>6
  <2>8. a[j] \in Nat /\ a[c - 1] \in Nat /\ a[c] \in Nat
    BY <2>3, <2>5
  <2>9. QED
    BY <2>3, <2>7, <2>8
<1>2. QED
  BY <1>1

LEMMA Neighbours ==
    ASSUME NEW n \in Nat, n >= 1, NEW a \in [1..n -> Nat], NEW b \in [1..n -> Nat],
           \A k \in 1..n : a[k] < b[k], \A k \in 2..n : a[k - 1] <= a[k]
    PROVE  (\A k \in 2..n : a[k] >= b[k - 1]) /\ b[n] <= 64 <=>
             /\ \A k \in 1..n : b[k] <= 64
             /\ \A j, k \in 1..n : j # k => b[j] <= a[k] \/ b[k] <= a[j]
<1>1. \A j, k \in 1..n : j <= k => a[j] <= a[k]
  BY Ascending
<1>2. \A k \in 1..n : a[k] \in Nat /\ b[k] \in Nat
  OBVIOUS
<1>3. ASSUME \A k \in 2..n : a[k] >= b[k - 1], NEW j \in 1..n, NEW k \in 1..n, j < k
      PROVE  b[j] <= a[k]
  <2>1. j + 1 \in 2..n /\ (j + 1) - 1 = j /\ j + 1 <= k /\ j + 1 \in 1..n
    BY <1>3
  <2>2. a[j + 1] >= b[j]
    BY <1>3, <2>1
  <2>3. a[j + 1] <= a[k]
    BY <1>1, <2>1
  <2>4. a[j + 1] \in Nat /\ a[k] \in Nat /\ b[j] \in Nat
    BY <1>2, <2>1
  <2>5. QED
    BY <2>2, <2>3, <2>4
<1>4. ASSUME \A k \in 2..n : a[k] >= b[k - 1], b[n] <= 64
      PROVE  /\ \A k \in 1..n : b[k] <= 64
             /\ \A j, k \in 1..n : j # k => b[j] <= a[k] \/ b[k] <= a[j]
  <2>1. ASSUME NEW k \in 1..n PROVE b[k] <= 64
    <3>1. n \in 1..n /\ (k = n \/ k < n)
      OBVIOUS
    <3>2. CASE k = n
      BY <1>4, <3>2
    <3>3. CASE k < n
      <4>1. b[k] <= a[n]
        BY <1>3, <1>4, <3>1, <3>3
      <4>2. a[n] < b[n] /\ a[n] \in Nat /\ b[n] \in Nat /\ b[k] \in Nat
        BY <1>2, <3>1
      <4>3. QED
        BY <1>4, <4>1, <4>2
    <3>4. QED
      BY <3>1, <3>2, <3>3
  <2>2. ASSUME NEW j \in 1..n, NEW k \in 1..n, j # k PROVE b[j] <= a[k] \/ b[k] <= a[j]
    <3>1. j < k \/ k < j
      BY <2>2
    <3>2. QED
      BY <1>3, <1>4, <3>1
  <2>3. QED
    BY <2>1, <2>2
<1>5. ASSUME \A k \in 1..n : b[k] <= 64,
             \A j, k \in 1..n : j # k => b[j] <= a[k] \/ b[k] <= a[j]
      PROVE  (\A k \in 2..n : a[k] >= b[k - 1]) /\ b[n] <= 64
  <2>1. n \in 1..n
    OBVIOUS
  <2>2. ASSUME NEW k \in 2..n PROVE a[k] >= b[k - 1]
    <3>1. k - 1 \in 1..n /\ k \in 1..n /\ k - 1 # k
      OBVIOUS
    <3>2. a[k - 1] <= a[k] /\ a[k] < b[k]
      BY <3>1
    <3>3. b[k - 1] <= a[k] \/ b[k] <= a[k - 1]
      BY <1>5, <3>1
    <3>4. a[k] \in Nat /\ b[k] \in Nat /\ a[k - 1] \in Nat /\ b[k - 1] \in Nat
      BY <1>2, <3>1
    <3>5. QED
      BY <3>2, <3>3, <3>4
  <2>3. QED
    BY <1>5, <2>1, <2>2
<1>6. QED
  BY <1>4, <1>5

EndBit(sig) == sig.startBit + sig.length

Apart(sig, other) == EndBit(sig) <= other.startBit \/ EndBit(other) <= sig.startBit

(* ... whatever order the sort leaves signals with the same first bit in.   *)
LEMMA OverlapFound ==
    ASSUME NEW signals \in Seq(SignalType), signals # <<>>,
           \A i \in DOMAIN signals : signals[i].length >= 1 /\ EndBit(signals[i]) < 256,
           NEW sorted \in Sorted(signals)
    PROVE  NoOverlap(sorted) <=>
             /\ \A i \in DOMAIN signals : EndBit(signals[i]) <= 64
             /\ \A i, j \in DOMAIN signals : i # j => Apart(signals[i], signals[j])
<1> DEFINE n == Len(signals)
<1>1. n \in Nat /\ n >= 1 /\ DOMAIN signals = 1..n
  <2>1. n \in Nat /\ DOMAIN signals = 1..n /\ n # 0
    OBVIOUS
  <2> HIDE DEF n
  <2>2. QED
    BY <2>1
<1> HIDE DEF n
<1>2. PICK p \in Bijection(1..n, 1..n) :
        /\ sorted = [k \in 1..n |-> signals[p[k]]]
        /\ \A k \in 1..(n - 1) : signals[p[k]].startBit <= signals[p[k + 1]].startBit
  BY <1>1 DEF Sorted, n
<1>3. /\ p \in [1..n -> 1..n] /\ \A j, k \in 1..n : p[j] = p[k] => j = k
      /\ \A i \in 1..n : \E k \in 1..n : p[k] = i
  BY <1>2 DEF Bijection, Injection, Surjection, IsInjective
<1>4. ASSUME NEW i \in 1..n
      PROVE  /\ signals[i] \in SignalType /\ signals[i].startBit \in Nat /\ signals[i].length \in Nat
             /\ EndBit(signals[i]) \in Nat /\ signals[i].startBit < EndBit(signals[i])
             /\ (signals[i].startBit + signals[i].length) % 256 = EndBit(signals[i])
  <2>1. signals[i] \in SignalType
    BY <1>1, <1>4
  <2> DEFINE x == signals[i].startBit
             y == signals[i].length
  <2>2. x \in 0..255 /\ y \in 0..255 /\ y >= 1 /\ x + y < 256
    BY <1>1, <1>4, <2>1 DEF SignalType, EndBit
  <2> HIDE DEF x, y
  <2>3. x \in Nat /\ y \in Nat /\ x + y \in Nat /\ x < x + y
    BY <2>2
  <2>4. (x + y) % 256 = x + y
    <3> DEFINE z == x + y
    <3>1. z \in Nat /\ z < 256
      BY <2>2, <2>3
    <3> HIDE DEF z
    <3>2. z % 256 = z
      BY <3>1
    <3>3. QED
      BY <3>2 DEF z
  <2>5. QED
    BY <2>1, <2>3, <2>4 DEF EndBit, x, y
<1> DEFINE a == [k \in 1..n |-> signals[p[k]].startBit]
           b == [k \in 1..n |-> EndBit(signals[p[k]])]
<1>5. \A k \in 1..n : p[k] \in 1..n
  BY <1>3
<1>6. a \in [1..n -> Nat] /\ b \in [1..n -> Nat]
  BY <1>4, <1>5
<1>7. \A k \in 1..n : a[k] < b[k]
  BY <1>4, <1>5
<1>8. \A k \in 2..n : a[k - 1] <= a[k]
  <2>1. SUFFICES ASSUME NEW k \in 2..n PROVE a[k - 1] <= a[k]
    OBVIOUS
  <2>2. k - 1 \in 1..(n - 1) /\ (k - 1) + 1 = k /\ k \in 1..n /\ k - 1 \in 1..n
    BY <1>1
  <2>3. signals[p[k - 1]].startBit <= signals[p[k]].startBit
    BY <1>2, <2>2
  <2>4. QED
    BY <2>2, <2>3
<1>9. Len(sorted) = n
  <2>1. \A k \in 1..n : signals[p[k]] \in SignalType
    BY <1>4, <1>5
  <2>2. sorted \in Seq(SignalType)
    BY <1>1, <1>2, <2>1
  <2>3. DOMAIN sorted = 1..n
    BY <1>2
  <2>4. DOMAIN sorted = 1..Len(sorted) /\ Len(sorted) \in Nat
    BY <2>2
  <2>5. QED
    BY <1>1, <2>3, <2>4
<1>10. \A k \in 1..n : sorted[k].startBit = a[k]
                       /\ (sorted[k].startBit + sorted[k].length) % 256 = b[k]
  BY <1>2, <1>4, <1>5
<1>11. NoOverlap(sorted) <=> (\A k \in 2..n : a[k] >= b[k - 1]) /\ b[n] <= 64
  <2>1. n \in 1..n /\ \A k \in 2..n : k \in 1..n /\ k - 1 \in 1..n
    BY <1>1
  <2> HIDE DEF a, b
  <2>2. NoOverlap(sorted) <=>
          /\ \A k \in 2..n : sorted[k].startBit >= (sorted[k - 1].startBit + sorted[k - 1].length) % 256
          /\ (sorted[n].startBit + sorted[n].length) % 256 <= 64
    BY <1>9 DEF NoOverlap
  <2>3. QED
    BY <1>10, <2>1, <2>2
<1>12. (\A k \in 1..n : b[k] <= 64) <=> \A i \in 1..n : EndBit(signals[i]) <= 64
  <2>1. ASSUME \A k \in 1..n : b[k] <= 64, NEW i \in 1..n PROVE EndBit(signals[i]) <= 64
    <3>1. PICK k \in 1..n : p[k] = i
      BY <1>3
    <3>2. b[k] = EndBit(signals[i])
      BY <3>1
    <3>3. QED
      BY <2>1, <3>2
  <2>2. QED
    BY <1>5, <2>1
<1>13. (\A j, k \in 1..n : j # k => b[j] <= a[k] \/ b[k] <= a[j]) <=>
         \A i, j \in 1..n : i # j => Apart(signals[i], signals[j])
  <2>1. \A j, k \in 1..n : Apart(signals[p[j]], signals[p[k]]) <=> b[j] <= a[k] \/ b[k] <= a[j]
    BY DEF Apart
  <2> HIDE DEF a, b
  <2>2. ASSUME \A j, k \in 1..n : j # k => b[j] <= a[k] \/ b[k] <= a[j],
               NEW i \in 1..n, NEW j \in 1..n, i # j
        PROVE  Apart(signals[i], signals[j])
    <3>1. PICK x \in 1..n : p[x] = i
      BY <1>3
    <3>2. PICK y \in 1..n : p[y] = j
      BY <1>3
    <3>3. x # y
      BY <2>2, <3>1, <3>2
    <3>4. b[x] <= a[y] \/ b[y] <= a[x]
      BY <2>2, <3>3
    <3>5. QED
      BY <2>1, <3>1, <3>2, <3>4
  <2>3. ASSUME \A i, j \in 1..n : i # j => Apart(signals[i], signals[j]),
               NEW j \in 1..n, NEW k \in 1..n, j # k
        PROVE  b[j] <= a[k] \/ b[k] <= a[j]
    <3>1. p[j] # p[k] /\ p[j] \in 1..n /\ p[k] \in 1..n
      BY <1>3, <1>5, <2>3
    <3>2. QED
      BY <2>1, <2>3, <3>1
  <2>4. QED
    BY <2>2, <2>3
<1>14. (\A k \in 2..n : a[k] >= b[k - 1]) /\ b[n] <= 64 <=>
         /\ \A k \in 1..n : b[k] <= 64
         /\ \A j, k \in 1..n : j # k => b[j] <= a[k] \/ b[k] <= a[j]
  <2> HIDE DEF a, b
  <2>1. QED
    BY <1>1, <1>6, <1>7, <1>8, Neighbours
<1>15. QED
  BY <1>1, <1>11, <1>12, <1>13, <1>14

(* The bits of two signals.                                                 *)
LEMMA BitFacts ==
    ASSUME NEW s, s[4].n \in Nat, s[5].n \in Nat, s[5].n >= 1
    PROVE  /\ \A u \in Nat : Bits(s) \subseteq 0..(u - 1) <=> s[4].n + s[5].n <= u
           /\ \A x : x \in Bits(s) <=> x \in s[4].n..(s[4].n + s[5].n - 1)
<1> DEFINE a == s[4].n
           b == s[5].n
<1>1. Bits(s) = {a + i : i \in 0..(b - 1)} /\ a \in Nat /\ b \in Nat /\ b >= 1
  BY DEF Bits
<1> HIDE DEF a, b
<1>2. \A x : x \in Bits(s) <=> x \in a..(a + b - 1)
  <2>1. ASSUME NEW x \in a..(a + b - 1) PROVE x - a \in 0..(b - 1) /\ a + (x - a) = x
    BY <1>1
  <2>2. \A i \in 0..(b - 1) : a + i \in a..(a + b - 1)
    BY <1>1
  <2>3. QED
    BY <1>1, <2>1, <2>2
<1>3. ASSUME NEW u \in Nat PROVE Bits(s) \subseteq 0..(u - 1) <=> a + b <= u
  <2>1. ASSUME a + b <= u, NEW x \in a..(a + b - 1) PROVE x \in 0..(u - 1)
    BY <1>1, <2>1
  <2>2. a + b - 1 \in a..(a + b - 1) /\ (a + b - 1 \in 0..(u - 1) => a + b <= u)
    BY <1>1
  <2>3. QED
    BY <1>2, <2>1, <2>2
<1>4. QED
  BY <1>2, <1>3 DEF a, b

LEMMA BitsApart ==
    ASSUME NEW a \in Nat, NEW b \in Nat, NEW c \in Nat, NEW d \in Nat, b >= 1, d >= 1,
           NEW S, NEW T, \A x : x \in S <=> x \in a..(a + b - 1),
           \A x : x \in T <=> x \in c..(c + d - 1)
    PROVE  S \cap T = {} <=> a + b <= c \/ c + d <= a
<1>1. ASSUME a + b <= c \/ c + d <= a, NEW x \in a..(a + b - 1), x \in c..(c + d - 1) PROVE FALSE
  BY <1>1
<1>2. ASSUME ~(a + b <= c), ~(c + d <= a)
      PROVE  \E x \in a..(a + b - 1) : x \in c..(c + d - 1)
  <2>1. CASE a <= c
    <3>1. c \in a..(a + b - 1) /\ c \in c..(c + d - 1)
      BY <1>2, <2>1
    <3>2. QED
      BY <3>1
  <2>2. CASE ~(a <= c)
    <3>1. a \in a..(a + b - 1) /\ a \in c..(c + d - 1)
      BY <1>2, <2>2
    <3>2. QED
      BY <3>1
  <2>3. QED
    BY <2>1, <2>2
<1>3. QED
  BY <1>1, <1>2

(* The signals of a message are numbered in the order of their lines.       *)
LEMMA RankOnto ==
    ASSUME NEW lines \in SUBSET Nat, IsFiniteSet(lines)
    PROVE  /\ Cardinality(lines) \in Nat
           /\ \A k \in lines : Rank(k, lines) \in 1..Cardinality(lines)
           /\ \A j, k \in lines : Rank(j, lines) = Rank(k, lines) => j = k
           /\ \A i \in 1..Cardinality(lines) : \E k \in lines : Rank(k, lines) = i
<1> DEFINE c == Cardinality(lines)
           f == [k \in lines |-> Rank(k, lines)]
<1>1. c \in Nat
  BY FS_CardinalityType
<1> HIDE DEF c
<1>2. \A k \in lines : Rank(k, lines) \in 1..c
  <2>1. SUFFICES ASSUME NEW k \in lines PROVE Rank(k, lines) \in 1..c
    OBVIOUS
  <2>2. Rank(k, lines) \in Nat /\ Rank(k, lines) >= 1 /\ Rank(k, lines) <= c
    BY RankFacts DEF c
  <2>3. QED
    BY <1>1, <2>2
<1>3. ASSUME NEW j \in lines, NEW k \in lines, Rank(j, lines) = Rank(k, lines) PROVE j = k
  <2>1. j \in Nat /\ k \in Nat
    OBVIOUS
  <2>2. /\ j < k => Rank(j, lines) < Rank(k, lines)
        /\ k < j => Rank(k, lines) < Rank(j, lines)
    BY RankFacts
  <2>3. Rank(j, lines) \in Nat /\ Rank(k, lines) \in Nat
    BY RankFacts
  <2>4. QED
    BY <1>3, <2>1, <2>2, <2>3
<1>4. f \in Injection(lines, 1..c)
  BY <1>2, <1>3 DEF Injection, IsInjective
<1>5. IsFiniteSet(1..c) /\ Cardinality(1..c) = c
  BY <1>1, FS_Interval
<1>6. f \in Surjection(lines, 1..c)
  BY <1>4, <1>5, FS_Injection DEF c
<1>7. \A i \in 1..c : \E k \in lines : Rank(k, lines) = i
  BY <1>6 DEF Surjection
<1>8. QED
  BY <1>1, <1>2, <1>3, <1>7 DEF c

LEMMA MessageEnds ==
    ASSUME TypeOK, InScope(text, UINT32), NEW m, NEW h, Under(text, m, h),
           Ahead = From(text, AfterLine(text, h)), Upcoming # "TT_SIGNAL_PREFIX"
    PROVE  SignalsBefore(text, m, h + 1) = SignalLines(text, m)
<1>1. text \in Seq(Symbol)
  BY TextFacts
<1>2. /\ m \in Nat /\ h \in Nat /\ m <= h /\ h \in Statements(text)
      /\ SignalLines(text, m) \in SUBSET Nat /\ SignalLines(text, m) \subseteq Statements(text)
      /\ SignalsBefore(text, m, h + 1) = {k \in SignalLines(text, m) : k < h + 1}
  BY <1>1, UnderLines, LinesOfMessage
<1>3. SUFFICES ASSUME NEW k \in SignalLines(text, m), ~(k < h + 1) PROVE FALSE
  BY <1>2
<1>4. k \in Statements(text) /\ k \in Nat /\ ~(k <= h)
  BY <1>2, <1>3
<1>5. PICK g \in Statements(text) : NextIs(h, g)
  BY <1>2, <1>4, BehindLine DEF LastIs
<1>6. h < g /\ g \in Nat /\ g <= k /\ Kind(text, g) # "TT_SIGNAL_PREFIX"
  BY <1>1, <1>4, <1>5, StatementFacts DEF NextIs, Succ
<1>7. g \in (m + 1)..k
  BY <1>2, <1>4, <1>6
<1>8. QED
  BY <1>5, <1>6, <1>7 DEF SignalLines

LEMMA MessageChecked ==
    ASSUME TypeOK, InScope(text, UINT32), NEW m, NEW h, Under(text, m, h), m # h,
           Described(text, m, h + 1), LinesFine(text, h + 1),
           SignalsBefore(text, m, h + 1) = SignalLines(text, m),
           NEW sorted \in Sorted(msgDesc.signals)
    PROVE  msgDesc.id <= MAX_ID /\ NoOverlap(sorted) <=> ValidMessage(text, m, MAX_ID)
<1> DEFINE lines == SignalLines(text, m)
           sg == msgDesc.signals
           l == msgDesc.length
           c == Cardinality(lines)
           s(k) == Statement(text, k)
           sig(k) == sg[Rank(k, lines)]
<1>1. text \in Seq(Symbol) /\ msgDesc \in MessageType
  BY TextFacts DEF TypeOK
<1>2. sg \in Seq(SignalType) /\ l \in Nat
  <2>1. sg \in Seq(SignalType) /\ l \in 0..255
    BY <1>1 DEF MessageType
  <2> HIDE DEF sg, l
  <2>2. QED
    BY <2>1
<1>3. /\ msgDesc.id = s(m)[3].n /\ l = s(m)[4].n /\ Len(sg) = c
      /\ \A k \in lines : Fits(sig(k), l) /\ (Complete(s(k)) => DescribesSignal(s(k), sig(k)))
  BY DEF Described
<1>4. /\ m \in Nat /\ h \in Nat /\ m <= h /\ m \in Statements(text)
      /\ Kind(text, m) = "TT_MESSAGE_PREFIX"
      /\ lines \in SUBSET Nat /\ IsFiniteSet(lines) /\ lines \subseteq Statements(text)
      /\ \A k \in lines : k < h + 1
  BY <1>1, UnderLines, LinesOfMessage DEF Under, Heads
<1>5. \A k \in lines : Kind(text, k) = "TT_SIGNAL_PREFIX"
  <2>1. SUFFICES ASSUME NEW k \in lines PROVE Kind(text, k) = "TT_SIGNAL_PREFIX"
    OBVIOUS
  <2>2. k \in Statements(text) /\ k > m /\ k \in Nat
    BY <1>4 DEF SignalLines
  <2>3. k \in (m + 1)..k
    BY <1>4, <2>2
  <2>4. QED
    BY <2>2, <2>3 DEF SignalLines
<1>6. Complete(s(m)) /\ \A k \in lines : Complete(s(k))
  <2>1. m < h + 1
    BY <1>4
  <2>2. QED
    BY <1>4, <2>1 DEF LinesFine, LineOK
<1>7. l \in 0..31
  BY <1>1, <1>3, <1>4, <1>6, FirstWord DEF InScope, InWidth
<1>8. \A k \in lines : s(k)[4].n \in 0..255 /\ s(k)[5].n \in 1..255
  BY <1>1, <1>4, <1>5, <1>6, FirstWord DEF InScope, InWidth
<1>9. /\ c \in Nat /\ \A k \in lines : Rank(k, lines) \in 1..c
      /\ \A j, k \in lines : Rank(j, lines) = Rank(k, lines) => j = k
      /\ \A i \in 1..c : \E k \in lines : Rank(k, lines) = i
  BY <1>4, RankOnto
<1>10. DOMAIN sg = 1..c
  BY <1>2, <1>3
<1>11. sg # <<>>
  BY <1>1, SignalsSoFar
<1> HIDE DEF lines, sg, l, c
<1>12. ASSUME NEW k \in lines
       PROVE  /\ sig(k) \in SignalType /\ sig(k).startBit = s(k)[4].n /\ sig(k).length = s(k)[5].n
              /\ s(k)[4].n \in Nat /\ s(k)[5].n \in Nat /\ s(k)[5].n >= 1
              /\ EndBit(sig(k)) = s(k)[4].n + s(k)[5].n
              /\ EndBit(sig(k)) <= 8 * l /\ EndBit(sig(k)) < 256
  <2>1. sig(k) \in SignalType
    BY <1>2, <1>9, <1>10, <1>12
  <2>2. sig(k).startBit = s(k)[4].n /\ sig(k).length = s(k)[5].n
    BY <1>3, <1>6, <1>12 DEF DescribesSignal
  <2> DEFINE a == s(k)[4].n
             b == s(k)[5].n
  <2>3. a \in Nat /\ b \in Nat /\ b >= 1
    <3>1. a \in 0..255 /\ b \in 1..255
      BY <1>8, <1>12, <2>1, <2>2 DEF SignalType
    <3> HIDE DEF a, b
    <3>2. QED
      BY <3>1
  <2>4. EndBit(sig(k)) = a + b
    BY <2>2 DEF EndBit
  <2>5. a + b <= 8 * l
    BY <1>3, <1>12, <2>2 DEF Fits
  <2>6. a + b < 256
    <3> HIDE DEF a, b
    <3>1. QED
      BY <1>2, <1>7, <2>3, <2>5
  <2>7. QED
    BY <2>1, <2>2, <2>3, <2>4, <2>5, <2>6
<1>13. NoOverlap(sorted) <=>
         /\ \A k \in lines : EndBit(sig(k)) <= 64
         /\ \A j, k \in lines : j # k => Apart(sig(j), sig(k))
  <2>1. \A i \in DOMAIN sg : sg[i].length >= 1 /\ EndBit(sg[i]) < 256
    <3>1. SUFFICES ASSUME NEW i \in 1..c PROVE sg[i].length >= 1 /\ EndBit(sg[i]) < 256
      BY <1>10
    <3>2. PICK k \in lines : Rank(k, lines) = i
      BY <1>9
    <3>3. sig(k).length >= 1 /\ EndBit(sig(k)) < 256
      BY <1>12
    <3>4. QED
      BY <3>2, <3>3
  <2>2. NoOverlap(sorted) <=>
          /\ \A i \in DOMAIN sg : EndBit(sg[i]) <= 64
          /\ \A i, j \in DOMAIN sg : i # j => Apart(sg[i], sg[j])
    <3>1. sorted \in Sorted(sg)
      BY DEF sg
    <3>2. QED
      BY <1>2, <1>11, <2>1, <3>1, OverlapFound
  <2>3. (\A i \in DOMAIN sg : EndBit(sg[i]) <= 64) <=> \A k \in lines : EndBit(sig(k)) <= 64
    BY <1>9, <1>10
  <2>4. (\A i, j \in DOMAIN sg : i # j => Apart(sg[i], sg[j])) <=>
          \A j, k \in lines : j # k => Apart(sig(j), sig(k))
    <3>1. ASSUME \A i, j \in 1..c : i # j => Apart(sg[i], sg[j]),
                 NEW j \in lines, NEW k \in lines, j # k
          PROVE  Apart(sig(j), sig(k))
      BY <1>9, <3>1
    <3>2. ASSUME \A j, k \in lines : j # k => Apart(sig(j), sig(k)),
                 NEW x \in 1..c, NEW y \in 1..c, x # y
          PROVE  Apart(sg[x], sg[y])
      <4>1. PICK j \in lines : Rank(j, lines) = x
        BY <1>9
      <4>2. PICK k \in lines : Rank(k, lines) = y
        BY <1>9
      <4>3. j # k
        BY <3>2, <4>1, <4>2
      <4>4. Apart(sig(j), sig(k))
        BY <3>2, <4>3
      <4>5. QED
        BY <4>1, <4>2, <4>4
    <3>3. QED
      BY <1>10, <3>1, <3>2
  <2>5. QED
    BY <2>2, <2>3, <2>4
<1>14. ASSUME NEW k \in lines
       PROVE  Bits(s(k)) \subseteq 0..(8 * s(m)[4].n - 1) \cap 0..63 <=> EndBit(sig(k)) <= 64
  <2> DEFINE a == s(k)[4].n
             b == s(k)[5].n
  <2>1. a \in Nat /\ b \in Nat /\ b >= 1 /\ EndBit(sig(k)) = a + b /\ a + b <= 8 * l
    BY <1>12
  <2>2. 8 * l \in Nat /\ 64 \in Nat /\ 64 - 1 = 63
    BY <1>2
  <2>3. /\ Bits(s(k)) \subseteq 0..(8 * l - 1) <=> a + b <= 8 * l
        /\ Bits(s(k)) \subseteq 0..(64 - 1) <=> a + b <= 64
    <3>1. \A u \in Nat : Bits(s(k)) \subseteq 0..(u - 1) <=> a + b <= u
      BY <2>1, BitFacts
    <3>2. QED
      BY <2>2, <3>1
  <2>4. QED
    BY <1>3, <2>1, <2>2, <2>3
<1>15. ASSUME NEW j \in lines, NEW k \in lines
       PROVE  Bits(s(j)) \cap Bits(s(k)) = {} <=> Apart(sig(j), sig(k))
  <2> DEFINE a == s(j)[4].n
             b == s(j)[5].n
             e == s(k)[4].n
             d == s(k)[5].n
  <2>1. /\ a \in Nat /\ b \in Nat /\ b >= 1 /\ e \in Nat /\ d \in Nat /\ d >= 1
        /\ EndBit(sig(j)) = a + b /\ EndBit(sig(k)) = e + d
        /\ sig(j).startBit = a /\ sig(k).startBit = e
    BY <1>12
  <2>2. /\ \A x : x \in Bits(s(j)) <=> x \in a..(a + b - 1)
        /\ \A x : x \in Bits(s(k)) <=> x \in e..(e + d - 1)
    BY <2>1, BitFacts
  <2> HIDE DEF a, b, e, d, s
  <2>3. Bits(s(j)) \cap Bits(s(k)) = {} <=> a + b <= e \/ e + d <= a
    BY <2>1, <2>2, BitsApart
  <2>4. QED
    BY <2>1, <2>3 DEF Apart
<1>16. ValidMessage(text, m, MAX_ID) <=>
         /\ s(m)[3].n <= MAX_ID
         /\ \A k \in lines : Bits(s(k)) \subseteq 0..(8 * s(m)[4].n - 1) \cap 0..63
         /\ \A j, k \in lines : j # k => Bits(s(j)) \cap Bits(s(k)) = {}
  BY DEF ValidMessage, lines
<1> HIDE DEF s, sig
<1>17. (\A j, k \in lines : j # k => Bits(s(j)) \cap Bits(s(k)) = {}) <=>
         \A j, k \in lines : j # k => Apart(sig(j), sig(k))
  BY <1>15
<1>18. (\A k \in lines : Bits(s(k)) \subseteq 0..(8 * s(m)[4].n - 1) \cap 0..63) <=>
         \A k \in lines : EndBit(sig(k)) <= 64
  BY <1>14
<1>19. QED
  BY <1>3, <1>13, <1>16, <1>17, <1>18

-----------------------------------------------------------------------------
(* Adding a message.                                                        *)
LEMMA HeadsAfter ==
    ASSUME NEW t \in Seq(Symbol), NEW m, NEW h, Under(t, m, h)
    PROVE  /\ HeadsBefore(t, h + 1) = HeadsBefore(t, m) \cup {m} /\ m \notin HeadsBefore(t, m)
           /\ Heads(t) \in SUBSET Nat /\ IsFiniteSet(Heads(t))
           /\ Cardinality(HeadsBefore(t, m)) \in Nat
           /\ Cardinality(HeadsBefore(t, h + 1)) = Cardinality(HeadsBefore(t, m)) + 1
           /\ Rank(m, Heads(t)) = Cardinality(HeadsBefore(t, m)) + 1
<1>1. /\ m \in Nat /\ h \in Nat /\ m <= h /\ m \in Heads(t)
      /\ \A k \in Statements(t) : m < k /\ k <= h => Kind(t, k) = "TT_SIGNAL_PREFIX"
  BY UnderLines DEF Under
<1>2. /\ Heads(t) \in SUBSET Nat /\ Heads(t) \in SUBSET Statements(t)
      /\ IsFiniteSet(Heads(t)) /\ IsFiniteSet(HeadsBefore(t, m))
  <2>1. Heads(t) \in SUBSET Statements(t) /\ Statements(t) \in SUBSET Nat
    BY StatementFacts
  <2>2. HeadsBefore(t, m) \in SUBSET Statements(t)
    BY <2>1 DEF HeadsBefore
  <2>3. QED
    BY <2>1, <2>2, FiniteLines
<1>3. HeadsBefore(t, h + 1) = HeadsBefore(t, m) \cup {m}
  <2>1. ASSUME NEW g \in Heads(t) PROVE g < h + 1 <=> g < m \/ g = m
    <3>1. g \in Nat /\ g \in Statements(t) /\ Kind(t, g) = "TT_MESSAGE_PREFIX"
      BY <1>2 DEF Heads
    <3>2. ~(m < g /\ g <= h)
      BY <1>1, <3>1
    <3>3. QED
      BY <1>1, <3>1, <3>2
  <2>2. QED
    BY <1>1, <2>1 DEF HeadsBefore
<1>4. m \notin HeadsBefore(t, m)
  BY <1>1 DEF HeadsBefore
<1>5. Cardinality(HeadsBefore(t, m)) \in Nat
  BY <1>2, FS_CardinalityType
<1>6. Cardinality(HeadsBefore(t, h + 1)) = Cardinality(HeadsBefore(t, m)) + 1
  BY <1>2, <1>3, <1>4, FS_AddElement
<1>7. Rank(m, Heads(t)) = Cardinality(HeadsBefore(t, m)) + 1
  BY <1>1, <1>2, RankFacts DEF HeadsBefore
<1>8. QED
  BY <1>2, <1>3, <1>4, <1>5, <1>6, <1>7

LEMMA AddedGrows ==
    ASSUME TypeOK, AddedInv, text' = text, NEW m, NEW h, Under(text, m, h), Finished(m),
           added' = Append(added, msgDesc), Whole(text, m) => Describes(text, m, msgDesc)
    PROVE  AddedInv'
<1> DEFINE H == Heads(text)
           n == Len(added)
<1>1. /\ text \in Seq(Symbol) /\ added \in Seq(MessageType) /\ m \in H
  BY TextFacts DEF TypeOK, Under
<1>2. n \in Nat /\ Len(added') = n + 1 /\ added'[n + 1] = msgDesc
      /\ \A i \in 1..n : added'[i] = added[i]
  BY <1>1
<1>3. H \in SUBSET Nat /\ IsFiniteSet(H) /\ Rank(m, H) = n + 1
  BY <1>1, HeadsAfter DEF Finished
<1>4. /\ Cardinality(H) \in Nat /\ \A g \in H : Rank(g, H) \in 1..Cardinality(H)
      /\ \A j, k \in H : Rank(j, H) = Rank(k, H) => j = k
  BY <1>3, RankOnto
<1>5. \A g \in H : Rank(g, H) <= n /\ Whole(text, g) => Describes(text, g, added[Rank(g, H)])
  BY DEF AddedInv
<1> HIDE DEF H, n
<1>6. Len(added') <= Cardinality(H)
  <2>1. n + 1 \in 1..Cardinality(H)
    BY <1>1, <1>3, <1>4
  <2>2. QED
    BY <1>2, <1>4, <2>1
<1>7. ASSUME NEW g \in H, Rank(g, H) <= Len(added'), Whole(text, g)
      PROVE  Describes(text, g, added'[Rank(g, H)])
  <2>1. Rank(g, H) \in Nat /\ Rank(g, H) >= 1
    BY <1>4
  <2>2. CASE Rank(g, H) = n + 1
    <3>1. g = m
      BY <1>1, <1>3, <1>4, <2>2
    <3>2. QED
      BY <1>2, <1>7, <2>2, <3>1
  <2>3. CASE Rank(g, H) # n + 1
    <3>1. Rank(g, H) <= n /\ Rank(g, H) \in 1..n
      BY <1>2, <1>7, <2>1, <2>3
    <3>2. QED
      BY <1>2, <1>5, <1>7, <3>1
  <2>4. QED
    BY <2>2, <2>3
<1>8. QED
  BY <1>6, <1>7 DEF AddedInv, H

LEMMA AddMessageStep ==
    ASSUME Parsing, AddMessage
    PROVE  ParseInv'
<1>1. /\ TypeOK /\ readable /\ InScope(text, UINT32) /\ text \in Seq(Symbol) /\ ParseInv /\ AddedInv
      /\ msgDesc \in MessageType /\ hasMsg \in BOOLEAN
  BY TextFacts DEF Parsing, ParseInv, TypeOK
<1>2. /\ pc = "add" /\ Stay /\ UNCHANGED opts /\ UNCHANGED sawBoard /\ UNCHANGED hasMsg
      /\ UNCHANGED msgDesc /\ sawBoard /\ hasMsg
      /\ \E m, h \in Statements(text) : SignalsAt(m, h)
  BY <1>1 DEF AddMessage, optionVars, parseVars, ParseInv, SignalsInv
<1>3. text' = text /\ Ahead' = Ahead
  BY <1>2, StayFacts
<1>4. PICK m, h \in Statements(text) : SignalsAt(m, h)
  BY <1>2
<1>5. /\ Under(text, m, h) /\ Finished(m) /\ Described(text, m, h + 1)
      /\ AtEnd(h) \/ (Doomed /\ m # h /\ ~Complete(Statement(text, h)))
      /\ m # h /\ Upcoming # "TT_SIGNAL_PREFIX"
  BY <1>2, <1>4 DEF SignalsAt
<1>6. /\ m \in Nat /\ h \in Nat /\ m <= h /\ m \in Heads(text)
      /\ h \in SignalLines(text, m) /\ Kind(text, h) = "TT_SIGNAL_PREFIX"
      /\ Kind(text, m) = "TT_MESSAGE_PREFIX"
  BY <1>1, <1>5, UnderLines DEF Under, Heads
<1>7. msgDesc.id = IdOf(text, m)
  BY <1>5 DEF Described, IdOf
<1>8. PICK sorted \in Sorted(msgDesc.signals) :
        IF msgDesc.id <= MAX_ID /\ NoOverlap(sorted)
        THEN /\ added' = Append(added, msgDesc)
             /\ messageIDSet' = messageIDSet \cup {msgDesc.id}
             /\ IF msgDesc.id \in messageIDSet THEN Refuse ELSE Goto("messages")
        ELSE Refuse /\ UNCHANGED <<added, messageIDSet>>
  BY DEF AddMessage
<1>9. CASE AtEnd(h)
  <2>1. LinesFine(text, h + 1) /\ Ahead = From(text, AfterLine(text, h))
    BY <1>9 DEF AtEnd, Past
  <2>2. SignalsBefore(text, m, h + 1) = SignalLines(text, m)
    BY <1>1, <1>5, <2>1, MessageEnds
  <2>3. msgDesc.id <= MAX_ID /\ NoOverlap(sorted) <=> ValidMessage(text, m, MAX_ID)
    BY <1>1, <1>5, <2>1, <2>2, MessageChecked
  <2>4. CASE ~ValidMessage(text, m, MAX_ID)
    <3>1. Refuse /\ UNCHANGED added
      BY <1>8, <2>3, <2>4
    <3>2. ~Accepted(text, OptionNames, MAX_ID)
      BY <1>6, <2>4 DEF Accepted
    <3>3. QED
      BY <1>1, <1>3, <3>1, <3>2, Refused
  <2>5. CASE ValidMessage(text, m, MAX_ID)
    <3>1. /\ added' = Append(added, msgDesc)
          /\ messageIDSet' = messageIDSet \cup {msgDesc.id}
          /\ IF msgDesc.id \in messageIDSet THEN Refuse ELSE Goto("messages")
      BY <1>8, <2>3, <2>5
    <3>2. Describes(text, m, msgDesc)
      <4>1. \A k \in SignalLines(text, m) : Complete(Statement(text, k))
        <5>1. \A k \in SignalsBefore(text, m, h + 1) : k \in Statements(text) /\ k < h + 1
          BY <1>1, LinesOfMessage
        <5>2. QED
          BY <2>1, <2>2, <5>1 DEF LinesFine, LineOK
      <4>2. QED
        BY <1>5, <2>2, <4>1 DEF Described, Describes
    <3>3. AddedInv'
      BY <1>1, <1>3, <1>5, <3>1, <3>2, AddedGrows
    <3>4. /\ messageIDSet = {IdOf(text, g) : g \in HeadsBefore(text, m)}
          /\ MessagesFine(text, m) /\ Len(added) = Cardinality(HeadsBefore(text, m))
      BY <1>5 DEF Finished
    <3>5. /\ HeadsBefore(text, h + 1) = HeadsBefore(text, m) \cup {m} /\ m \notin HeadsBefore(text, m)
          /\ Cardinality(HeadsBefore(text, h + 1)) = Cardinality(HeadsBefore(text, m)) + 1
      BY <1>1, <1>5, HeadsAfter
    <3>6. CASE msgDesc.id \in messageIDSet
      <4>1. Refuse
        BY <3>1, <3>6
      <4>2. PICK g \in HeadsBefore(text, m) : IdOf(text, g) = IdOf(text, m)
        BY <1>7, <3>4, <3>6
      <4>3. g \in Heads(text) /\ g # m /\ g < m
        BY <1>6, <3>5 DEF HeadsBefore
      <4>4. \A k \in Heads(text) : k < h + 1 =>
              /\ Statement(text, k)[3] \in AnyWord /\ Statement(text, k)[3].form = "hex"
        <5>1. SUFFICES ASSUME NEW k \in Heads(text), k < h + 1
                       PROVE  Statement(text, k)[3] \in AnyWord /\ Statement(text, k)[3].form = "hex"
          OBVIOUS
        <5> DEFINE s == Statement(text, k)
                   n == Len(s)
        <5>2. k \in Statements(text) /\ Kind(text, k) = "TT_MESSAGE_PREFIX"
          BY DEF Heads
        <5>3. Complete(s)
          BY <2>1, <5>1, <5>2 DEF LinesFine, LineOK
        <5>4. s \in Seq(AnyWord) /\ n \in Nat /\ InterpWord(s[1]) = "TT_MESSAGE_PREFIX"
          BY <1>1, <5>2, FirstWord
        <5>5. 3 < n /\ s[3].form = "hex"
          BY <5>3, <5>4, Shapes
        <5>6. 3 \in 1..n
          <6> HIDE DEF n
          <6>1. QED
            BY <5>4, <5>5
        <5> HIDE DEF s
        <5>7. QED
          BY <5>4, <5>5, <5>6 DEF s
      <4>5. Statement(text, g)[3] = Statement(text, m)[3]
        <5>1. g < h + 1 /\ m < h + 1
          <6>1. g \in Nat
            BY <1>1, <4>3, StatementFacts
          <6>2. QED
            BY <1>6, <4>3, <6>1
        <5>2. /\ Statement(text, g)[3] \in AnyWord /\ Statement(text, g)[3].form = "hex"
              /\ Statement(text, m)[3] \in AnyWord /\ Statement(text, m)[3].form = "hex"
          BY <1>6, <4>3, <4>4, <5>1
        <5>3. \A x, y \in AnyWord : x.form = "hex" /\ y.form = "hex" /\ x.n = y.n => x = y
          <6>1. \A x \in AnyWord : x.form = "hex" => x = [form |-> "hex", s |-> "", n |-> x.n]
            BY TokenFacts
          <6>2. QED
            BY <6>1
        <5>4. QED
          BY <4>2, <5>2, <5>3 DEF IdOf
      <4>6. ~Accepted(text, OptionNames, MAX_ID)
        BY <1>6, <4>3, <4>5 DEF Accepted
      <4>7. pc' = "end" /\ EndInv'
        BY <1>3, <4>1, <4>6 DEF Refuse, EndInv
      <4>8. QED
        BY <3>3, <4>7, OnlyHere
    <3>7. CASE msgDesc.id \notin messageIDSet
      <4>1. pc' = "messages"
        BY <3>1, <3>7 DEF Goto
      <4>2. MessagesFine(text, h + 1)
        <5>1. \A g \in HeadsBefore(text, m) : IdOf(text, g) # IdOf(text, m)
          BY <1>7, <3>4, <3>7
        <5>2. QED
          BY <2>5, <3>4, <3>5, <5>1 DEF MessagesFine
      <4>3. messageIDSet' = {IdOf(text, g) : g \in HeadsBefore(text, h + 1)}
        BY <1>7, <3>1, <3>4, <3>5
      <4>4. Len(added') = Cardinality(HeadsBefore(text, h + 1))
        <5>1. Len(added') = Len(added) + 1
          BY <1>1, <3>1 DEF TypeOK
        <5>2. QED
          BY <3>4, <3>5, <5>1
      <4>5. Finished(h + 1)'
        BY <1>3, <4>2, <4>3, <4>4 DEF Finished
      <4>6. AtEnd(h)' /\ Upcoming' = Upcoming
        BY <1>2, <1>3, <1>9, SamePlace
      <4>7. hasMsg' = TRUE
        BY <1>1, <1>2
      <4>8. MessagesAt(h)'
        BY <1>3, <1>4, <1>5, <1>6, <4>5, <4>6, <4>7 DEF MessagesAt
      <4>9. MessagesInv'
        BY <1>2, <1>3, <1>4, <4>8 DEF MessagesInv
      <4>10. QED
        BY <3>3, <4>1, <4>9, OnlyHere
    <3>8. QED
      BY <3>6, <3>7
  <2>6. QED
    BY <2>4, <2>5
<1>10. CASE Doomed /\ ~Complete(Statement(text, h))
  <2>1. ~Whole(text, m)
    BY <1>6, <1>10 DEF Whole
  <2>2. AddedInv'
    <3>1. added' = Append(added, msgDesc) \/ UNCHANGED added
      BY <1>8
    <3>2. QED
      BY <1>1, <1>3, <1>5, <2>1, <3>1, AddedGrows, Frames
  <2>3. ~Accepted(text, OptionNames, MAX_ID) /\ Doomed'
    BY <1>3, <1>10, SamePlace DEF Doomed
  <2>4. CASE Refuse
    <3>1. pc' = "end" /\ EndInv'
      BY <1>3, <2>3, <2>4 DEF Refuse, EndInv
    <3>2. QED
      BY <2>2, <3>1, OnlyHere
  <2>5. CASE Goto("messages")
    <3>1. pc' = "messages" /\ MessagesInv'
      BY <1>2, <2>3, <2>5 DEF Goto, MessagesInv
    <3>2. QED
      BY <2>2, <3>1, OnlyHere
  <2>6. QED
    BY <1>8, <2>4, <2>5
<1>11. QED
  BY <1>5, <1>9, <1>10

-----------------------------------------------------------------------------
(* The whole of it.                                                         *)
LEMMA EndStep ==
    ASSUME Parsing, End
    PROVE  ParseInv'
<1>1. /\ pc' = "done" /\ text' = text /\ UNCHANGED result /\ UNCHANGED opts /\ UNCHANGED added
      /\ pc = "end" /\ ParseInv
  BY DEF End, EndReading, sourceVars, optionVars, boardVars, Parsing
<1>2. AddedInv'
  BY <1>1, Frames DEF ParseInv
<1>3. EndInv'
  BY <1>1 DEF ParseInv, EndInv, OptsAre
<1>4. QED
  BY <1>1, <1>2, <1>3 DEF ParseInv, OptionsInv, OptionInv, BoardsInv, BoardNameInv, MessagesInv,
     HeaderInv, HeaderWords, SignalsInv, SignalInv, SignalWords

LEMMA ParseStep ==
    ASSUME Parsing, [Next]_builderVars
    PROVE  ParseInv'
<1>1. CASE Start
  BY <1>1, StartStep
<1>2. CASE SkipComment
  BY <1>2, SkipCommentStep
<1>3. CASE Options
  BY <1>3, OptionsStep
<1>4. CASE OptionName
  BY <1>4, OptionNameStep
<1>5. CASE OptionValue
  BY <1>5, OptionValueStep
<1>6. CASE Boards
  BY <1>6, BoardsStep
<1>7. CASE BoardName
  BY <1>7, BoardNameStep
<1>8. CASE Messages
  BY <1>8, MessagesStep
<1>9. CASE MessageName
  BY <1>9, MessageNameStep
<1>10. CASE MessageId
  BY <1>10, MessageIdStep
<1>11. CASE MessageLength
  BY <1>11, MessageLengthStep
<1>12. CASE Signals
  BY <1>12, SignalsStep
<1>13. CASE SignalName
  BY <1>13, SignalNameStep
<1>14. CASE DataType
  BY <1>14, DataTypeStep
<1>15. CASE SignalField
  BY <1>15, SignalFieldStep
<1>16. CASE Signedness
  BY <1>16, SignednessStep
<1>17. CASE EndianSignal
  BY <1>17, EndianSignalStep
<1>18. CASE AddMessage
  BY <1>18, AddMessageStep
<1>19. CASE End
  BY <1>19, EndStep
<1>20. CASE UNCHANGED builderVars
  BY <1>20, StutterStep
<1>21. QED
  BY <1>1, <1>2, <1>3, <1>4, <1>5, <1>6, <1>7, <1>8, <1>9, <1>10, <1>11, <1>12, <1>13, <1>14,
     <1>15, <1>16, <1>17, <1>18, <1>19, <1>20 DEF Next

(* The reader never stops in the middle of a comment.                       *)
LEMMA PlaceStep ==
    ASSUME TypeOK, readable, OutsideComments(text, pos), [Next]_builderVars
    PROVE  OutsideComments(text, pos)'
<1>1. text' = text /\ text \in Seq(Symbol) /\ Len(text) \in Nat
  BY SourceStep, TextFacts
<1>2. ASSUME pos' = pos PROVE OutsideComments(text, pos)'
  BY <1>1, <1>2
<1>3. ASSUME ~AtComment, Consume PROVE OutsideComments(text, pos)'
  BY <1>1, <1>3, AfterWord DEF Consume
<1>4. ASSUME ~AtComment, ConsumeLine PROVE OutsideComments(text, pos)'
  <2>1. OutsideComments(text, Moved) /\ Moved \in 0..Len(text)
    <3>1. CASE Ahead = {}
      <4>1. Moved = Len(text)
        BY <1>4, <3>1, Queue
      <4>2. QED
        BY <1>1, <4>1 DEF OutsideComments
    <3>2. CASE Ahead # {}
      <4>1. Moved = Min(Ahead) /\ Min(Ahead) \in Ahead
        BY <1>1, <1>4, <3>2, Queue, FromFacts, TextFacts DEF Ahead
      <4>2. Moved \in 1..Len(text) /\ Live(text, Moved)
        BY <1>1, <4>1 DEF Ahead, From
      <4>3. ASSUME NEW j \in 1..Moved, text[j] = Comment
            PROVE  \E k \in j..(Moved + 1) : text[k] = Newline
        <5>1. PICK k \in j..Moved : text[k] = Newline
          BY <4>2, <4>3 DEF Live
        <5>2. k \in j..(Moved + 1)
          BY <1>1, <4>2
        <5>3. QED
          BY <5>1, <5>2
      <4>4. QED
        BY <4>2, <4>3, MovedRange DEF OutsideComments
    <3>3. QED
      BY <3>1, <3>2
  <2>2. OutsideComments(text, Eaten(Moved))
    BY <2>1, EatenFacts
  <2>3. pos' = Moved \/ pos' = Eaten(Moved)
    BY <1>4 DEF ConsumeLine
  <2>4. QED
    BY <1>1, <2>1, <2>2, <2>3
<1>5. ASSUME Stay PROVE pos' = pos
  BY <1>5 DEF Stay
<1>6. ASSUME Options \/ Boards \/ Messages \/ Signals \/ Signedness \/ EndianSignal
      PROVE  ~AtComment /\ (Consume \/ Stay)
  BY <1>6 DEF Options, Boards, Messages, Signals, Signedness, EndianSignal, At
<1>7. ASSUME OptionName \/ OptionValue \/ MessageName \/ MessageId \/ SignalName \/ DataType
             \/ SignalField
      PROVE  ~AtComment /\ Consume
  BY <1>7 DEF OptionName, OptionValue, MessageName, MessageId, SignalName, DataType, SignalField, At
<1>8. ASSUME BoardName \/ MessageLength PROVE ~AtComment /\ ConsumeLine
  BY <1>8 DEF BoardName, MessageLength, At
<1>9. ASSUME Start \/ AddMessage PROVE Stay
  BY <1>9 DEF Start, AddMessage
<1>10. CASE SkipComment
  BY <1>10, CommentEaten DEF SkipComment
<1>11. CASE End
  <2>1. pos' = pos \/ pos' = Len(text)
    BY <1>11 DEF End, EndReading
  <2>2. QED
    BY <1>1, <1>2, <2>1 DEF OutsideComments
<1>12. CASE UNCHANGED builderVars
  BY <1>2, <1>12 DEF builderVars
<1>13. QED
  BY <1>2, <1>3, <1>4, <1>5, <1>6, <1>7, <1>8, <1>9, <1>10, <1>11, <1>12 DEF Next

LEMMA InvInit ==
    ASSUME Init
    PROVE  BuilderInv
<1>1. /\ text \in Seq(Symbol) /\ reader \in Readers /\ readable \in BOOLEAN /\ pos = 0
      /\ pc = "start" /\ result = "none" /\ sawBoard = FALSE /\ hasMsg = FALSE
      /\ messageIDSet = {} /\ added = <<>> /\ msgDesc = NewMessage /\ sigDesc = NewSignal
      /\ opts = [o \in {"logPeriodMs", "wirelessPeriodMs"} |-> 100]
      /\ UINT32 \in Nat \ {0}
  BY BuilderAssumption DEF Init, Reading
<1>2. Len(text) \in Nat /\ 0 \in 0..Len(text)
  BY <1>1
<1>3. TypeOK
  <2>1. msgDesc \in MessageType
    <3>1. 0 \in 0..(UINT32 - 1) /\ <<>> \in Seq(SignalType)
      BY <1>1
    <3>2. QED
      BY <1>1, <3>1 DEF NewMessage, MessageType
  <2>2. sigDesc \in SignalType
    BY <1>1 DEF NewSignal, SignalType, DoubleOf, DoubleType, Dec
  <2>3. opts \in [{"logPeriodMs", "wirelessPeriodMs"} -> 0..(UINT16 - 1)]
    <3>1. 100 \in 0..(UINT16 - 1)
      BY DEF UINT16
    <3>2. QED
      BY <1>1, <3>1
  <2>4. pc \in Points /\ messageIDSet \subseteq 0..MAX_ID /\ added \in Seq(MessageType)
    BY <1>1 DEF Points
  <2>5. QED
    BY <1>1, <1>2, <2>1, <2>2, <2>3, <2>4 DEF TypeOK
<1>4. OutsideComments(text, pos)
  BY <1>1 DEF OutsideComments
<1>5. OptionsAt(0)
  <2>1. Statements(text) \in SUBSET Nat /\ Statements(text) \subseteq 1..Len(text)
        /\ OptionLines(text) \subseteq Statements(text) /\ Heads(text) \subseteq Statements(text)
    BY <1>1, StatementFacts
  <2>2. \A k \in Statements(text) : ~(k < 0 + 1)
    BY <2>1
  <2>3. Past(0 + 1)
    <3>1. \A o : LinesFor(text, 0 + 1, o) = {}
      BY <2>1, <2>2 DEF LinesFor
    <3>2. QED
      BY <1>1, <2>2, <3>1 DEF Past, LinesFine, OptsAre, OptionNames
  <2>4. Finished(0 + 1)
    <3>1. HeadsBefore(text, 0 + 1) = {}
      BY <2>1, <2>2 DEF HeadsBefore
    <3>2. Len(added) = 0 /\ Cardinality({}) = 0
      BY <1>1, FS_EmptySet
    <3>3. QED
      BY <1>1, <3>1, <3>2 DEF Finished, MessagesFine
  <2>5. Ahead = From(text, AfterLine(text, 0))
    <3>1. pos + 1 = 1
      BY <1>1
    <3>2. QED
      BY <3>1 DEF Ahead, AfterLine
  <2>6. QED
    BY <2>3, <2>4, <2>5 DEF OptionsAt, AtEnd, KindAt
<1>6. ParseInv
  <2>1. OptionsInv
    BY <1>1, <1>5 DEF OptionsInv
  <2>2. AddedInv
    <3>1. Heads(text) \in SUBSET Nat /\ IsFiniteSet(Heads(text)) /\ Len(added) = 0
      BY <1>1, StatementFacts, FiniteLines
    <3>2. /\ Cardinality(Heads(text)) \in Nat
          /\ \A g \in Heads(text) : Rank(g, Heads(text)) \in 1..Cardinality(Heads(text))
      BY <3>1, RankOnto
    <3>3. QED
      BY <3>1, <3>2 DEF AddedInv
  <2>3. QED
    BY <1>1, <2>1, <2>2 DEF ParseInv, OptionInv, BoardsInv, BoardNameInv, MessagesInv, HeaderInv,
       HeaderWords, SignalsInv, SignalInv, SignalWords, EndInv
<1>7. UnreadableInv /\ ResultInv
  BY <1>1 DEF UnreadableInv, ResultInv
<1>8. QED
  BY <1>3, <1>4, <1>6, <1>7 DEF BuilderInv

LEMMA InvStep ==
    ASSUME BuilderInv, [Next]_builderVars
    PROVE  BuilderInv'
<1>1. TypeOK /\ ResultInv
  BY DEF BuilderInv
<1>2. TypeOK' /\ ResultInv'
  BY <1>1, TypeStep
<1>3. text' = text /\ readable' = readable
  BY <1>1, SourceStep
<1>4. CASE readable
  <2>1. OutsideComments(text, pos)'
    BY <1>1, <1>4, PlaceStep DEF BuilderInv
  <2>2. InScope(text, UINT32)' => ParseInv'
    BY <1>1, <1>3, <1>4, ParseStep DEF BuilderInv, Parsing
  <2>3. QED
    BY <1>2, <1>3, <1>4, <2>1, <2>2 DEF BuilderInv
<1>5. CASE ~readable
  <2>1. UnreadableInv'
    BY <1>1, <1>5, UnreadableStep DEF BuilderInv
  <2>2. QED
    BY <1>2, <1>3, <1>5, <2>1 DEF BuilderInv
<1>6. QED
  BY <1>4, <1>5

-----------------------------------------------------------------------------
(* The language of build() and the one of language_spec.md.                 *)
(* the length of a signal whose bits are in eight bytes *)
LEMMA LengthFits ==
    ASSUME NEW s, s[4].n \in Nat, s[5].n \in Nat, s[5].n >= 1, Bits(s) \subseteq 0..63
    PROVE  s[5].n \in 1..64
<1>1. 63 = 64 - 1 /\ 64 \in Nat
  OBVIOUS
<1>2. s[4].n + s[5].n <= 64
  BY <1>1, BitFacts
<1>3. QED
  BY <1>2

(* A signal in its place has a message.                                     *)
LEMMA HasHead ==
    ASSUME NEW t \in Seq(Symbol), Nested(t), NEW h \in Statements(t),
           Kind(t, h) = "TT_SIGNAL_PREFIX"
    PROVE  \E m \in Heads(t) : h \in SignalLines(t, m)
<1> DEFINE E == {g \in Statements(t) : g < h /\ Kind(t, g) # "TT_SIGNAL_PREFIX"}
<1>1. /\ Statements(t) \in SUBSET Nat /\ h \in Nat /\ E \in SUBSET Nat /\ h \notin E
      /\ \A y \in E : y <= h
  BY StatementFacts
<1>2. \A n \in Statements(t) : Kind(t, n) = "TT_SIGNAL_PREFIX" =>
        KindBefore(t, n) \in {"TT_MESSAGE_PREFIX", "TT_SIGNAL_PREFIX"}
  BY Following DEF Nested
<1>3. ASSUME NEW m \in {0} \cup E, \A y \in E : y <= m
      PROVE  m \in Heads(t) /\ h \in SignalLines(t, m)
  <2> DEFINE A == {k \in Statements(t) : m < k}
             n == Min(A)
  <2>1. h \in A /\ A \in SUBSET Nat /\ m \in Nat /\ h \in Statements(t) /\ m < h /\ A # {}
    <3>1. m < h /\ m \in Nat
      <4>1. CASE m = 0
        BY <4>1, <1>1, StatementFacts
      <4>2. CASE m \in E
        BY <4>2, <1>1
      <4>3. QED
        BY <4>1, <4>2
    <3>2. QED
      BY <1>1, <3>1
  <2>2. \A j \in Statements(t) : m < j /\ j <= h => Kind(t, j) = "TT_SIGNAL_PREFIX"
    <3>1. SUFFICES ASSUME NEW j \in Statements(t), m < j, j <= h, Kind(t, j) # "TT_SIGNAL_PREFIX"
                   PROVE  FALSE
      OBVIOUS
    <3>2. j # h /\ j < h /\ j \in Nat
      BY <1>1, <3>1
    <3>3. j \in E
      BY <3>1, <3>2
    <3>4. QED
      BY <1>3, <2>1, <3>1, <3>2, <3>3
  <2> HIDE DEF A, E
  <2>3. n \in A /\ n <= h /\ \A k \in A : n <= k
    BY <2>1, LeastElement
  <2>4. n \in Statements(t) /\ m < n /\ n \in Nat /\ \A k \in Statements(t) : k <= m \/ n <= k
    BY <1>1, <2>1, <2>3 DEF A
  <2>5. KindBefore(t, n) \in {"TT_MESSAGE_PREFIX", "TT_SIGNAL_PREFIX"}
    BY <1>2, <2>2, <2>3, <2>4
  <2>6. m \in {0} \cup Statements(t)
    BY <1>3 DEF E
  <2> HIDE DEF n
  <2>7. KindBefore(t, n) = KindAt(t, m)
    BY <2>4, <2>6, KindOfLast
  <2>8. m \in E /\ KindAt(t, m) = Kind(t, m)
    BY <1>3, <2>5, <2>7 DEF KindAt
  <2>9. m \in Statements(t) /\ Kind(t, m) = "TT_MESSAGE_PREFIX"
    BY <2>5, <2>7, <2>8 DEF E
  <2>10. m \in Heads(t)
    BY <2>9 DEF Heads
  <2>11. h \in SignalLines(t, m)
    <3>1. \A j \in Statements(t) : j \in (m + 1)..h => Kind(t, j) = "TT_SIGNAL_PREFIX"
      BY <1>1, <2>1, <2>2
    <3>2. QED
      BY <2>1, <3>1 DEF SignalLines
  <2>12. QED
    BY <2>10, <2>11
<1>4. CASE E = {}
  BY <1>3, <1>4
<1>5. CASE E # {}
  <2>1. Max(E) \in E /\ \A y \in E : y <= Max(E)
    <3> HIDE DEF E
    <3> QED BY <1>1, <1>5, GreatestElement
  <2>2. QED
    BY <1>3, <2>1
<1>6. QED
  BY <1>4, <1>5

(* One kind of line after the other.                                        *)
LEMMA LineKinds ==
    ASSUME NEW s
    PROVE  /\ InterpWord(s[1]) = "TT_OPTION_PREFIX" =>
                /\ Complete(s) <=> Len(s) = 3 /\ IsName(s[2]) /\ s[3].form = "dec"
                /\ Legal(s) <=> /\ Len(s) = 3 /\ IsName(s[2]) /\ (IsNumeric(s[3]) \/ IsInteger(s[3]))
                                /\ s[2].s \in OptionNames => IsInteger(s[3]) /\ s[3].n > 0
           /\ InterpWord(s[1]) = "TT_BOARD_PREFIX" => (Legal(s) <=> Complete(s))
           /\ InterpWord(s[1]) = "TT_MESSAGE_PREFIX" =>
                /\ Complete(s) <=> /\ Len(s) >= 4 /\ IsName(s[2])
                                   /\ s[3].form = "hex" /\ s[4].form = "dec"
                /\ Legal(s) <=> /\ Len(s) = 4 /\ IsName(s[2])
                                /\ s[3].form = "hex" /\ s[3].n <= 2047
                                /\ IsInteger(s[4]) /\ s[4].n \in 0..64
           /\ InterpWord(s[1]) = "TT_SIGNAL_PREFIX" =>
                /\ Complete(s) <=> /\ Len(s) >= 7 /\ IsName(s[2]) /\ IsName(s[3])
                                   /\ s[4].form = "dec" /\ s[5].form = "dec"
                                   /\ IsNumeric(s[6]) /\ IsNumeric(s[7])
                                   /\ Overrides(s) \in LegalOverrides
                /\ Legal(s) <=> /\ Len(s) >= 7 /\ IsName(s[2]) /\ s[3] \in DataTypes
                                /\ IsInteger(s[4]) /\ IsInteger(s[5]) /\ s[5].n \in 1..64
                                /\ IsNumeric(s[6]) /\ IsNumeric(s[7])
                                /\ Overrides(s) \in LegalOverrides
<1> DEFINE kind == InterpWord(s[1])
<1> HIDE DEF kind
<1>1. Complete(s) <=>
        \/ (kind = "TT_OPTION_PREFIX" /\ Len(s) = 3 /\ IsName(s[2]) /\ s[3].form = "dec")
        \/ (kind = "TT_BOARD_PREFIX" /\ Len(s) >= 2 /\ IsName(s[2]))
        \/ (kind = "TT_MESSAGE_PREFIX" /\ Len(s) >= 4 /\ IsName(s[2])
              /\ s[3].form = "hex" /\ s[4].form = "dec")
        \/ (kind = "TT_SIGNAL_PREFIX" /\ Len(s) >= 7 /\ IsName(s[2]) /\ IsName(s[3])
              /\ s[4].form = "dec" /\ s[5].form = "dec" /\ IsNumeric(s[6]) /\ IsNumeric(s[7])
              /\ Overrides(s) \in LegalOverrides)
  BY Zenon DEF Complete, kind
<1>2. Legal(s) <=>
        \/ (kind = "TT_OPTION_PREFIX" /\ Len(s) = 3 /\ IsName(s[2])
              /\ (IsNumeric(s[3]) \/ IsInteger(s[3]))
              /\ (s[2].s \in OptionNames => IsInteger(s[3]) /\ s[3].n > 0))
        \/ (kind = "TT_BOARD_PREFIX" /\ Len(s) >= 2 /\ IsName(s[2]))
        \/ (kind = "TT_MESSAGE_PREFIX" /\ Len(s) = 4 /\ IsName(s[2])
              /\ s[3].form = "hex" /\ s[3].n <= 2047 /\ IsInteger(s[4]) /\ s[4].n \in 0..64)
        \/ (kind = "TT_SIGNAL_PREFIX" /\ Len(s) >= 7 /\ IsName(s[2]) /\ s[3] \in DataTypes
              /\ IsInteger(s[4]) /\ IsInteger(s[5]) /\ s[5].n \in 1..64
              /\ IsNumeric(s[6]) /\ IsNumeric(s[7]) /\ Overrides(s) \in LegalOverrides)
  BY DEF Legal, kind
<1>3. CASE kind = "TT_OPTION_PREFIX"
  BY <1>1, <1>2, <1>3 DEF kind
<1>4. CASE kind = "TT_BOARD_PREFIX"
  BY <1>1, <1>2, <1>4 DEF kind
<1>5. CASE kind = "TT_MESSAGE_PREFIX"
  BY <1>1, <1>2, <1>5 DEF kind
<1>6. CASE kind = "TT_SIGNAL_PREFIX"
  BY <1>1, <1>2, <1>6 DEF kind
<1>7. CASE kind \notin {"TT_OPTION_PREFIX", "TT_BOARD_PREFIX", "TT_MESSAGE_PREFIX", "TT_SIGNAL_PREFIX"}
  BY <1>7 DEF kind
<1>8. QED
  BY <1>3, <1>4, <1>5, <1>6, <1>7

(* A line build() takes is legal but for what TakenAnyway lists.           *)
LEMMA TakenOption ==
    ASSUME NEW s, InterpWord(s[1]) = "TT_OPTION_PREFIX", InWidth(s, UINT32), Complete(s),
           s[3].n # 0
    PROVE  Legal(s)
<1>1. Len(s) = 3 /\ IsName(s[2]) /\ s[3].form = "dec"
  BY LineKinds
<1>2. s[3].n \in 0..(UINT16 - 1)
  BY DEF InWidth
<1>3. s[3].n > 0
  <2> DEFINE n == s[3].n
  <2>1. UINT16 \in Nat /\ n \in 0..(UINT16 - 1) /\ n # 0
    <3>1. UINT16 \in Nat
      BY DEF UINT16
    <3>2. QED
      BY <1>2, <3>1
  <2> HIDE DEF n
  <2>2. n > 0
    BY <2>1
  <2>3. QED
    BY <2>2 DEF n
<1>4. QED
  BY <1>1, <1>3, LineKinds DEF IsInteger

LEMMA FieldRanges ==
    /\ \A n \in 0..255 : n \in Nat
    /\ \A n \in 1..255 : n \in Nat /\ n >= 1
OBVIOUS

LEMMA TakenMessage ==
    ASSUME NEW s, Len(s) \in Nat, InterpWord(s[1]) = "TT_MESSAGE_PREFIX",
           InWidth(s, UINT32), Complete(s), ~(Len(s) > 4), s[3].n <= 2047
    PROVE  Legal(s)
<1>1. Len(s) >= 4 /\ IsName(s[2]) /\ s[3].form = "hex" /\ s[4].form = "dec"
  BY LineKinds
<1>2. s[4].n \in 0..31
  BY DEF InWidth
<1>3. Len(s) = 4 /\ s[4].n \in 0..64
  <2> DEFINE n    == Len(s)
             size == s[4].n
  <2>1. n \in Nat /\ n >= 4 /\ ~(n > 4) /\ size \in 0..31
    BY <1>1, <1>2
  <2> HIDE DEF n, size
  <2>2. n = 4 /\ size \in 0..64
    BY <2>1
  <2>3. QED
    BY <2>2 DEF n, size
<1>4. QED
  BY <1>1, <1>3, LineKinds DEF IsInteger

LEMMA TakenSignal ==
    ASSUME NEW s, Len(s) \in Nat, InterpWord(s[1]) = "TT_SIGNAL_PREFIX",
           InWidth(s, UINT32), Complete(s), s[3] \in DataTypes, Bits(s) \subseteq 0..63
    PROVE  Legal(s)
<1>1. /\ Len(s) >= 7 /\ IsName(s[2]) /\ s[4].form = "dec" /\ s[5].form = "dec"
      /\ IsNumeric(s[6]) /\ IsNumeric(s[7]) /\ Overrides(s) \in LegalOverrides
  BY LineKinds
<1>2. s[4].n \in 0..255 /\ s[5].n \in 1..255
  BY DEF InWidth
<1>3. s[4].n \in Nat /\ s[5].n \in Nat /\ s[5].n >= 1
  BY <1>2, FieldRanges, Zenon
<1>4. s[5].n \in 1..64
  BY <1>3, LengthFits
<1>5. QED
  BY <1>1, <1>4, LineKinds DEF IsInteger

LEMMA TypesAreNames ==
    \A w \in DataTypes : IsName(w)
BY DEF DataTypes, Unsigned, Signed, Txt, IsName, InterpWord, prefixLUT

(* A legal line is one build() takes but for what RefusesMore lists.        *)
LEMMA LegalIsTaken ==
    ASSUME NEW s, InterpWord(s[1]) \in LinePrefixes, Legal(s),
           \A i \in IntegerFields[InterpWord(s[1])] : s[i].form # "hex",
           InterpWord(s[1]) = "TT_OPTION_PREFIX" => s[2].s \in OptionNames
    PROVE  Complete(s)
<1>1. /\ IntegerFields["TT_OPTION_PREFIX"] = {3} /\ IntegerFields["TT_MESSAGE_PREFIX"] = {4}
      /\ IntegerFields["TT_SIGNAL_PREFIX"] = {4, 5}
  BY DEF IntegerFields, LinePrefixes
<1>2. CASE InterpWord(s[1]) = "TT_OPTION_PREFIX"
  <2>1. Len(s) = 3 /\ IsName(s[2]) /\ IsInteger(s[3]) /\ s[3].form # "hex"
    BY <1>1, <1>2, LineKinds
  <2>2. QED
    BY <1>2, <2>1, LineKinds DEF IsInteger
<1>3. CASE InterpWord(s[1]) = "TT_BOARD_PREFIX"
  BY <1>3, LineKinds
<1>4. CASE InterpWord(s[1]) = "TT_MESSAGE_PREFIX"
  <2>1. Len(s) = 4 /\ IsName(s[2]) /\ s[3].form = "hex" /\ IsInteger(s[4]) /\ s[4].form # "hex"
    BY <1>1, <1>4, LineKinds
  <2>2. QED
    BY <1>4, <2>1, LineKinds DEF IsInteger
<1>5. CASE InterpWord(s[1]) = "TT_SIGNAL_PREFIX"
  <2>1. /\ Len(s) >= 7 /\ IsName(s[2]) /\ s[3] \in DataTypes /\ IsInteger(s[4]) /\ IsInteger(s[5])
        /\ IsNumeric(s[6]) /\ IsNumeric(s[7]) /\ Overrides(s) \in LegalOverrides
    BY <1>5, LineKinds
  <2>2. s[4].form # "hex" /\ s[5].form # "hex"
    BY <1>1, <1>5
  <2>3. IsName(s[3])
    BY <2>1, TypesAreNames
  <2>4. QED
    BY <1>5, <2>1, <2>2, <2>3, LineKinds DEF IsInteger
<1>6. QED
  BY <1>2, <1>3, <1>4, <1>5 DEF LinePrefixes

LEMMA LineBefore ==
    ASSUME NEW t \in Seq(Symbol), NEW x \in Nat, \E g \in Statements(t) : g < x
    PROVE  \E m \in Statements(t) : /\ m < x /\ KindBefore(t, x) = Kind(t, m)
                                    /\ \A k \in Statements(t) : k < x => k <= m
<1> DEFINE E == {g \in Statements(t) : g < x}
<1>1. Statements(t) \in SUBSET Nat /\ E \in SUBSET Nat /\ E # {} /\ \A y \in E : y <= x
  BY StatementFacts
<1>2. KindBefore(t, x) = Kind(t, Max(E))
  BY <1>1 DEF KindBefore
<1> HIDE DEF E
<1>3. Max(E) \in E /\ \A k \in E : k <= Max(E)
  BY <1>1, GreatestElement
<1>4. QED
  BY <1>2, <1>3 DEF E

(* The options come first, and a board after them.                          *)
LEMMA OptionsFirst ==
    ASSUME NEW t \in Seq(Symbol), InScope(t, UINT32), Nested(t)
    PROVE  /\ \E h \in Statements(t) : Kind(t, h) = "TT_BOARD_PREFIX"
           /\ \A h \in OptionLines(t), g \in Statements(t) :
                g < h => Kind(t, g) = "TT_OPTION_PREFIX"
<1>1. /\ Statements(t) \in SUBSET Nat /\ Len(t) \in Nat
      /\ \A h \in Statements(t) : Kind(t, h) \in LinePrefixes
  BY StatementFacts DEF InScope
<1>2. ASSUME NEW x \in Nat PROVE KindBefore(t, x) = "none" \/ \E g \in Statements(t) : g < x
  BY <1>2 DEF KindBefore
<1>3. \E h \in Statements(t) : Kind(t, h) = "TT_BOARD_PREFIX"
  <2> DEFINE N == {g \in Statements(t) : Kind(t, g) # "TT_OPTION_PREFIX"}
             b == Min(N)
             x == Len(t) + 1
  <2>1. x \in Nat /\ KindBefore(t, x) = "TT_SIGNAL_PREFIX"
    BY <1>1 DEF Nested
  <2> HIDE DEF x
  <2>2. PICK m \in Statements(t) : Kind(t, m) = "TT_SIGNAL_PREFIX"
    BY <1>2, <2>1, LineBefore
  <2>3. N \in SUBSET Nat /\ N # {}
    BY <1>1, <2>2
  <2>4. b \in N /\ \A y \in N : b <= y
    BY <2>3, LeastElement
  <2> HIDE DEF b
  <2>5. KindBefore(t, b) \in {"none", "TT_OPTION_PREFIX"}
    <3>1. CASE \E g \in Statements(t) : g < b
      <4>1. PICK p \in Statements(t) : p < b /\ KindBefore(t, b) = Kind(t, p)
        BY <1>1, <2>3, <2>4, <3>1, LineBefore
      <4>2. p \notin N
        BY <1>1, <2>3, <2>4, <4>1
      <4>3. QED
        BY <4>1, <4>2
    <3>2. QED
      BY <1>2, <2>3, <2>4, <3>1
  <2>6. KindBefore(t, b) \in MayFollow[Kind(t, b)] /\ Kind(t, b) \in LinePrefixes
    BY <1>1, <2>4 DEF Nested
  <2>7. Kind(t, b) = "TT_BOARD_PREFIX"
    BY <2>4, <2>5, <2>6, Following DEF LinePrefixes
  <2>8. QED
    BY <2>4, <2>7
<1>4. ASSUME NEW h \in OptionLines(t), NEW g \in Statements(t), g < h,
             Kind(t, g) # "TT_OPTION_PREFIX"
      PROVE  FALSE
  <2> DEFINE E == {k \in OptionLines(t) : g < k}
             b == Min(E)
  <2>1. E \in SUBSET Nat /\ E # {}
    BY <1>1, <1>4 DEF OptionLines
  <2>2. b \in E /\ \A y \in E : b <= y
    BY <2>1, LeastElement
  <2> HIDE DEF b
  <2>3. b \in Nat /\ b \in Statements(t) /\ Kind(t, b) = "TT_OPTION_PREFIX" /\ g < b
    BY <2>1, <2>2 DEF OptionLines
  <2>4. PICK m \in Statements(t) : /\ m < b /\ KindBefore(t, b) = Kind(t, m)
                                   /\ \A k \in Statements(t) : k < b => k <= m
    BY <2>3, LineBefore
  <2>5. KindBefore(t, b) \in {"none", "TT_OPTION_PREFIX"}
    BY <2>3, Following DEF Nested
  <2>6. Kind(t, m) = "TT_OPTION_PREFIX"
    BY <1>1, <2>4, <2>5 DEF LinePrefixes
  <2>7. g <= m /\ m # g
    BY <1>4, <2>3, <2>4, <2>6
  <2>8. m \in E
    BY <1>1, <2>4, <2>6, <2>7 DEF OptionLines
  <2>9. QED
    BY <1>1, <2>2, <2>3, <2>4, <2>8
<1>5. QED
  BY <1>3, <1>4

(* But for what RefusesMore lists, the two orders are one.                  *)
LEMMA OrdersAgree ==
    ASSUME NEW t \in Seq(Symbol), InScope(t, UINT32)
    PROVE  /\ Nested(t) => Hierarchy(t)
           /\ Hierarchy(t) /\ ~RefusesMore(t) => Nested(t)
<1>1. \A h \in Statements(t) : Kind(t, h) \in LinePrefixes
  BY DEF InScope
<1>2. /\ MayComeAfter["TT_OPTION_PREFIX"] = {"none", "TT_OPTION_PREFIX", "TT_SIGNAL_PREFIX"}
      /\ MayComeAfter["TT_BOARD_PREFIX"] = {"none", "TT_OPTION_PREFIX", "TT_SIGNAL_PREFIX"}
      /\ MayComeAfter["TT_MESSAGE_PREFIX"] = {"TT_BOARD_PREFIX", "TT_SIGNAL_PREFIX"}
      /\ MayComeAfter["TT_SIGNAL_PREFIX"] = {"TT_MESSAGE_PREFIX", "TT_SIGNAL_PREFIX"}
  BY DEF MayComeAfter, LinePrefixes
<1>3. \A k \in LinePrefixes : MayFollow[k] \subseteq MayComeAfter[k]
  BY <1>2, Following DEF LinePrefixes
<1>4. ASSUME Nested(t) PROVE Hierarchy(t)
  BY <1>1, <1>2, <1>3, <1>4 DEF Nested, Hierarchy
<1>5. ASSUME Hierarchy(t), ~RefusesMore(t) PROVE Nested(t)
  <2>1. ASSUME NEW h \in Statements(t) PROVE KindBefore(t, h) \in MayFollow[Kind(t, h)]
    <3>1. KindBefore(t, h) \in MayComeAfter[Kind(t, h)] /\ Kind(t, h) \in LinePrefixes
      BY <1>1, <1>5 DEF Hierarchy
    <3>2. CASE Kind(t, h) = "TT_OPTION_PREFIX"
      <4>1. h \in OptionLines(t)
        BY <3>2 DEF OptionLines
      <4>2. \A g \in Statements(t) : g < h => Kind(t, g) = "TT_OPTION_PREFIX"
        BY <1>5, <4>1 DEF RefusesMore
      <4>4. CASE \E g \in Statements(t) : g < h
        <5>1. \E m \in Statements(t) : m < h /\ KindBefore(t, h) = Kind(t, m)
          BY <4>4, LineBefore, StatementFacts
        <5>2. QED
          BY <3>2, <4>2, <5>1, Following
      <4>5. CASE ~\E g \in Statements(t) : g < h
        <5>1. KindBefore(t, h) = "none"
          BY <4>5 DEF KindBefore
        <5>2. QED
          BY <3>2, <5>1, Following
      <4>3. QED
        BY <4>4, <4>5
    <3>3. QED
      BY <1>2, <3>1, <3>2, Following DEF LinePrefixes
  <2>2. PICK b \in Statements(t) : Kind(t, b) = "TT_BOARD_PREFIX"
    BY <1>5 DEF RefusesMore
  <2>3. KindBefore(t, Len(t) + 1) = "TT_SIGNAL_PREFIX"
    <3>1. Len(t) + 1 \in Nat /\ b < Len(t) + 1 /\ Statements(t) \in SUBSET Nat
      BY StatementFacts
    <3>2. PICK m \in Statements(t) : m < Len(t) + 1 /\ KindBefore(t, Len(t) + 1) = Kind(t, m)
                                    /\ \A k \in Statements(t) : k < Len(t) + 1 => k <= m
      BY <3>1, LineBefore
    <3>3. m \notin OptionLines(t)
      <4>1. ASSUME m \in OptionLines(t) PROVE FALSE
        <5>1. Kind(t, m) = "TT_OPTION_PREFIX" /\ b # m /\ b <= m
          BY <2>2, <3>1, <3>2, <4>1 DEF OptionLines
        <5>2. b < m /\ Kind(t, b) # "TT_OPTION_PREFIX"
          BY <2>2, <3>1, <5>1
        <5>3. QED
          BY <1>5, <4>1, <5>2 DEF RefusesMore
      <4>2. QED
        BY <4>1
    <3>4. Kind(t, m) # "TT_OPTION_PREFIX" /\ Kind(t, m) \in LinePrefixes
      BY <1>1, <3>3 DEF OptionLines
    <3>5. KindBefore(t, Len(t) + 1) \in {"none", "TT_OPTION_PREFIX", "TT_SIGNAL_PREFIX"}
      BY <1>2, <1>5 DEF Hierarchy
    <3>6. QED
      BY <3>2, <3>4, <3>5 DEF LinePrefixes
  <2>4. QED
    BY <2>1, <2>3 DEF Nested
<1>6. QED
  BY <1>4, <1>5

(* What build() takes is in the language, but for what TakenAnyway lists.   *)
LEMMA AcceptedIsValid ==
    ASSUME NEW t \in Seq(Symbol), InScope(t, UINT32), Accepted(t, OptionNames, MAX_ID)
    PROVE  ValidButFor(t) /\ ~RefusesMore(t)
<1>1. /\ \A h \in Statements(t) : Complete(Statement(t, h))
      /\ Nested(t) /\ \A m \in Heads(t) : ValidMessage(t, m, MAX_ID)
      /\ \A g, h \in Heads(t) : g # h => Statement(t, g)[3] # Statement(t, h)[3]
  BY DEF Accepted
<1>2. ASSUME NEW h \in Statements(t), Kind(t, h) = "TT_SIGNAL_PREFIX"
      PROVE  Bits(Statement(t, h)) \subseteq 0..63
  <2>1. PICK m \in Heads(t) : h \in SignalLines(t, m)
    BY <1>1, <1>2, HasHead
  <2>2. QED
    BY <1>1, <2>1 DEF ValidMessage
<1>3. ASSUME NEW h \in Statements(t)
      PROVE  Legal(Statement(t, h)) \/ TakenAnyway(Statement(t, h))
  <2>1. Kind(t, h) = "TT_MESSAGE_PREFIX" => Statement(t, h)[3].n <= 2047
    BY <1>1 DEF Heads, ValidMessage, MAX_ID
  <2>2. /\ Len(Statement(t, h)) \in Nat /\ InterpWord(Statement(t, h)[1]) = Kind(t, h)
    BY FirstWord
  <2>3. Kind(t, h) \in LinePrefixes /\ InWidth(Statement(t, h), UINT32)
    BY <1>1 DEF InScope
  <2>4. CASE TakenAnyway(Statement(t, h))
    BY <2>4
  <2>5. CASE ~TakenAnyway(Statement(t, h))
    <3>1. /\ Kind(t, h) = "TT_OPTION_PREFIX" => Statement(t, h)[3].n # 0
          /\ Kind(t, h) = "TT_MESSAGE_PREFIX" => ~(Len(Statement(t, h)) > 4)
          /\ Kind(t, h) = "TT_SIGNAL_PREFIX" => Statement(t, h)[3] \in DataTypes
      BY <1>1, <2>1, <2>2, <2>5 DEF TakenAnyway
    <3>2. Complete(Statement(t, h))
      BY <1>1
    <3>3. CASE Kind(t, h) = "TT_OPTION_PREFIX"
      BY <2>2, <2>3, <3>1, <3>2, <3>3, TakenOption
    <3>4. CASE Kind(t, h) = "TT_BOARD_PREFIX"
      BY <2>2, <3>2, <3>4, LineKinds
    <3>5. CASE Kind(t, h) = "TT_MESSAGE_PREFIX"
      BY <2>1, <2>2, <2>3, <3>1, <3>2, <3>5, TakenMessage
    <3>6. CASE Kind(t, h) = "TT_SIGNAL_PREFIX"
      BY <1>2, <2>2, <2>3, <3>1, <3>2, <3>6, TakenSignal
    <3>7. QED
      BY <2>3, <3>3, <3>4, <3>5, <3>6 DEF LinePrefixes
  <2>6. QED
    BY <2>4, <2>5
<1>4. Hierarchy(t) /\ IdsDiffer(t) /\ \A m \in Heads(t) : FitsAndApart(t, m)
  BY <1>1, OrdersAgree DEF IdsDiffer, ValidMessage, FitsAndApart
<1>5. ASSUME NEW h \in Statements(t), NEW i \in IntegerFields[Kind(t, h)]
      PROVE  Statement(t, h)[i].form # "hex"
  <2>1. /\ InterpWord(Statement(t, h)[1]) = Kind(t, h) /\ Kind(t, h) \in LinePrefixes
        /\ Complete(Statement(t, h))
    BY <1>1, FirstWord DEF InScope
  <2>2. IntegerFields[Kind(t, h)] =
          CASE Kind(t, h) = "TT_OPTION_PREFIX"  -> {3}
            [] Kind(t, h) = "TT_BOARD_PREFIX"   -> {}
            [] Kind(t, h) = "TT_MESSAGE_PREFIX" -> {4}
            [] Kind(t, h) = "TT_SIGNAL_PREFIX"  -> {4, 5}
    BY <2>1 DEF IntegerFields
  <2>3. CASE Kind(t, h) = "TT_OPTION_PREFIX"
    <3>1. i = 3
      BY <1>5, <2>2, <2>3
    <3>2. QED
      BY <2>1, <2>3, <3>1, LineKinds
  <2>4. CASE Kind(t, h) = "TT_BOARD_PREFIX"
    BY <1>5, <2>2, <2>4
  <2>5. CASE Kind(t, h) = "TT_MESSAGE_PREFIX"
    <3>1. i = 4
      BY <1>5, <2>2, <2>5
    <3>2. QED
      BY <2>1, <2>5, <3>1, LineKinds
  <2>6. CASE Kind(t, h) = "TT_SIGNAL_PREFIX"
    <3>1. i \in {4, 5}
      BY <1>5, <2>2, <2>6
    <3>2. QED
      BY <2>1, <2>6, <3>1, LineKinds
  <2>7. QED
    BY <2>1, <2>3, <2>4, <2>5, <2>6 DEF LinePrefixes
<1>6. ~RefusesMore(t)
  <2>1. /\ \E h \in Statements(t) : Kind(t, h) = "TT_BOARD_PREFIX"
        /\ \A h \in OptionLines(t), g \in Statements(t) :
             g < h => Kind(t, g) = "TT_OPTION_PREFIX"
    BY <1>1, OptionsFirst
  <2>2. \A h \in OptionLines(t) : Statement(t, h)[2].s \in OptionNames
    BY DEF Accepted
  <2>3. \A h \in Heads(t) : \A k \in SignalLines(t, h) : Bits(Statement(t, k)) \subseteq 0..63
    BY <1>1 DEF ValidMessage
  <2>4. QED
    BY <1>5, <2>1, <2>2, <2>3 DEF RefusesMore
<1>7. QED
  BY <1>3, <1>4, <1>6 DEF ValidButFor, Consistent

(* What is in the language build() takes, but for what RefusesMore lists.   *)
LEMMA ValidIsAccepted ==
    ASSUME NEW t \in Seq(Symbol), InScope(t, UINT32), ~RefusesMore(t), Valid(t)
    PROVE  Accepted(t, OptionNames, MAX_ID)
<1>1. /\ \A h \in Statements(t) : Legal(Statement(t, h))
      /\ Hierarchy(t) /\ IdsDiffer(t) /\ \A m \in Heads(t) : FitsAndApart(t, m)
  BY DEF Valid, Consistent
<1>2. ASSUME NEW h \in Statements(t) PROVE Complete(Statement(t, h))
  <2>1. InterpWord(Statement(t, h)[1]) = Kind(t, h) /\ Kind(t, h) \in LinePrefixes
    BY FirstWord DEF InScope
  <2>2. \A i \in IntegerFields[Kind(t, h)] : Statement(t, h)[i].form # "hex"
    BY DEF RefusesMore
  <2>3. Kind(t, h) = "TT_OPTION_PREFIX" => Statement(t, h)[2].s \in OptionNames
    BY DEF RefusesMore, OptionLines
  <2>4. QED
    BY <1>1, <2>1, <2>2, <2>3, LegalIsTaken
<1>3. Nested(t)
  BY <1>1, OrdersAgree
<1>4. \A h \in OptionLines(t) : Statement(t, h)[2].s \in OptionNames
  BY DEF RefusesMore
<1>5. ASSUME NEW m \in Heads(t) PROVE ValidMessage(t, m, MAX_ID)
  <2>1. m \in Statements(t) /\ Kind(t, m) = "TT_MESSAGE_PREFIX"
    BY DEF Heads
  <2>2. InterpWord(Statement(t, m)[1]) = "TT_MESSAGE_PREFIX" /\ Legal(Statement(t, m))
    BY <1>1, <2>1, FirstWord
  <2>3. Statement(t, m)[3].n <= MAX_ID
    BY <2>2 DEF Legal, MAX_ID
  <2>4. \A k \in SignalLines(t, m) : Bits(Statement(t, k)) \subseteq 0..63
    BY DEF RefusesMore
  <2>5. QED
    BY <1>1, <2>3, <2>4 DEF FitsAndApart, ValidMessage
<1>6. QED
  BY <1>1, <1>2, <1>3, <1>4, <1>5 DEF Accepted, IdsDiffer

-----------------------------------------------------------------------------
(* TelemBuilder::build (telem_builder.hpp) is, at every step, at a known    *)
(* place of the configuration it is given: so many words into one of its    *)
(* lines, the lines before that one right and in order, and the options,    *)
(* boards, messages and signals made of them exactly what those lines say;  *)
(* or it is at a word that no valid configuration has there.                *)
THEOREM BuilderCorrect == Spec => []BuilderInv
<1>1. Init => BuilderInv
  BY InvInit
<1>2. BuilderInv /\ [Next]_builderVars => BuilderInv'
  BY InvStep
<1>3. QED
  BY <1>1, <1>2, PTL DEF Spec

(* The variables of the builder keep their types: literals are cut to the   *)
(* width of their fields, ids on the bus are of eleven bits.                *)
THEOREM BuilderTypes == Spec => []TypeOK
<1>1. BuilderInv => TypeOK
  BY DEF BuilderInv
<1>2. QED
  BY <1>1, BuilderCorrect, PTL

(* TelemBuilder::build succeeds on the configurations that keep to its own  *)
(* rules, each a rule about lines, and on no other, however many lines,     *)
(* boards, messages and signals they have.                                  *)
THEOREM AcceptsByRules ==
    Spec => [](pc = "done" /\ InScope(text, UINT32) =>
                 (result = "ok" <=> readable /\ Accepted(text, OptionNames, MAX_ID)))
<1>1. BuilderInv => (pc = "done" /\ InScope(text, UINT32) =>
                       (result = "ok" <=> readable /\ Accepted(text, OptionNames, MAX_ID)))
  <2>1. SUFFICES ASSUME BuilderInv, pc = "done", InScope(text, UINT32)
                 PROVE  result = "ok" <=> readable /\ Accepted(text, OptionNames, MAX_ID)
    OBVIOUS
  <2>2. CASE readable
    BY <2>1, <2>2 DEF BuilderInv, ParseInv, EndInv
  <2>3. CASE ~readable
    BY <2>1, <2>3 DEF BuilderInv, UnreadableInv
  <2>4. QED
    BY <2>2, <2>3
<1>2. QED
  BY <1>1, BuilderCorrect, PTL

(* TelemBuilder::build agrees with language_spec.md about every             *)
(* configuration, of any length, but for what RefusesMore and TakenAnyway   *)
(* list.                                                                    *)
THEOREM AcceptsTheLanguage == Spec => []AgreesWithLanguage
<1>1. BuilderInv => AgreesWithLanguage
  <2>1. SUFFICES ASSUME BuilderInv, pc = "done", InScope(text, UINT32)
                 PROVE  /\ result = "ok" => readable /\ ValidButFor(text) /\ ~RefusesMore(text)
                        /\ readable /\ Valid(text) /\ ~RefusesMore(text) => result = "ok"
    BY DEF AgreesWithLanguage
  <2>2. text \in Seq(Symbol)
    BY <2>1, TextFacts DEF BuilderInv
  <2>3. result = "ok" <=> readable /\ Accepted(text, OptionNames, MAX_ID)
    <3>1. CASE readable
      BY <2>1, <3>1 DEF BuilderInv, ParseInv, EndInv
    <3>2. CASE ~readable
      BY <2>1, <3>2 DEF BuilderInv, UnreadableInv
    <3>3. QED
      BY <3>1, <3>2
  <2>4. QED
    BY <2>1, <2>2, <2>3, AcceptedIsValid, ValidIsAccepted
<1>2. QED
  BY <1>1, BuilderCorrect, PTL

(* TelemBuilder::build has put on the bus what the lines say, message by    *)
(* message, at every moment and also when it fails later on.                *)
THEOREM AddsWhatIsSaid == Spec => []AddedAsDescribed
<1>1. BuilderInv => AddedAsDescribed
  <2>1. SUFFICES ASSUME BuilderInv, InScope(text, UINT32)
                 PROVE  LET heads == Heads(text)
                        IN  /\ Len(added) <= Cardinality(heads)
                            /\ result = "ok" => Len(added) = Cardinality(heads)
                            /\ \A h \in heads :
                                 Rank(h, heads) <= Len(added) /\ Whole(text, h) =>
                                   Describes(text, h, added[Rank(h, heads)])
    BY DEF AddedAsDescribed
  <2>2. text \in Seq(Symbol)
    BY <2>1, TextFacts DEF BuilderInv
  <2>3. CASE readable
    <3>1. AddedInv /\ EndInv /\ ResultInv
      BY <2>1, <2>3 DEF BuilderInv, ParseInv
    <3>2. result = "ok" => Len(added) = Cardinality(Heads(text))
      BY <3>1 DEF EndInv, ResultInv
    <3>3. QED
      BY <3>1, <3>2 DEF AddedInv
  <2>4. CASE ~readable
    <3>1. Len(added) = 0 /\ result # "ok"
      BY <2>1, <2>4 DEF BuilderInv, UnreadableInv
    <3>2. Heads(text) \in SUBSET Nat /\ IsFiniteSet(Heads(text))
      BY <2>2, StatementFacts, FiniteLines
    <3>3. /\ Cardinality(Heads(text)) \in Nat
          /\ \A g \in Heads(text) : Rank(g, Heads(text)) \in 1..Cardinality(Heads(text))
      BY <3>2, RankOnto
    <3>4. QED
      BY <3>1, <3>3
  <2>5. QED
    BY <2>3, <2>4
<1>2. QED
  BY <1>1, BuilderCorrect, PTL

(* After a build that succeeds the last line for an option is in force,     *)
(* and the default when it has none.                                        *)
THEOREM LastOptionDecides == Spec => []LastOptionCounts
<1>1. BuilderInv => LastOptionCounts
  <2>1. SUFFICES ASSUME BuilderInv, result = "ok", InScope(text, UINT32), NEW o \in DOMAIN opts
                 PROVE  LET lines == {h \in OptionLines(text) : Statement(text, h)[2] = Txt(o)}
                        IN  opts[o] = IF lines = {} THEN 100 ELSE Statement(text, Max(lines))[3].n
    BY DEF LastOptionCounts
  <2>2. text \in Seq(Symbol) /\ o \in OptionNames
    BY <2>1, TextFacts DEF BuilderInv, TypeOK, OptionNames
  <2>3. readable
    BY <2>1 DEF BuilderInv, UnreadableInv
  <2>4. OptsAre(text, Len(text) + 1)
    BY <2>1, <2>3 DEF BuilderInv, ParseInv, EndInv, ResultInv
  <2>5. \A h \in OptionLines(text) : h < Len(text) + 1
    <3>1. OptionLines(text) \subseteq 1..Len(text) /\ Len(text) \in Nat
      BY <2>2, StatementFacts
    <3>2. QED
      BY <3>1
  <2>6. LinesFor(text, Len(text) + 1, o) = {h \in OptionLines(text) : Statement(text, h)[2] = Txt(o)}
    BY <2>5 DEF LinesFor
  <2>7. QED
    BY <2>2, <2>4, <2>6 DEF OptsAre
<1>2. QED
  BY <1>1, BuilderCorrect, PTL

-----------------------------------------------------------------------------
(* The bound on the turns that are left.                                    *)
LEMMA MovedOn ==
    ASSUME TypeOK
    PROVE  /\ Moved \in pos..Len(text)
           /\ Peek # "none" => Moved > pos
<1>1. Len(text) \in Nat /\ pos \in 0..Len(text)
  BY TextFacts
<1>2. CASE WordsAhead # {}
  <2>1. WordsAhead \in SUBSET Nat /\ \A i \in WordsAhead : i \in (pos + 1)..Len(text)
    BY <1>1 DEF WordsAhead
  <2>2. Min(WordsAhead) \in (pos + 1)..Len(text)
    BY <1>2, <2>1, LeastElement
  <2>3. Moved = Min(WordsAhead)
    BY <1>2 DEF Moved
  <2>4. QED
    BY <1>1, <2>2, <2>3
<1>3. CASE WordsAhead = {}
  <2>1. Moved = Len(text) \/ Moved = pos
    BY <1>3 DEF Moved
  <2>2. Peek = "none"
    BY <1>3 DEF Peek
  <2>3. QED
    BY <1>1, <2>1, <2>2
<1>4. QED
  BY <1>2, <1>3

LEMMA EatenOn ==
    ASSUME TypeOK, NEW p \in 0..Len(text)
    PROVE  Eaten(p) \in p..Len(text)
<1> DEFINE N == {i \in (p + 1)..Len(text) : text[i] = Newline}
<1>1. Len(text) \in Nat /\ p \in Nat /\ N \in SUBSET Nat
  BY TextFacts
<1>2. CASE N = {} \/ ~readable
  BY <1>1, <1>2 DEF Eaten
<1>3. CASE N # {} /\ readable
  <2>1. Min(N) \in N
    BY <1>1, <1>3, LeastElement
  <2>2. Eaten(p) \in {Min(N), Min(N) - 1}
    BY <1>3 DEF Eaten
  <2> HIDE DEF N
  <2>3. Min(N) \in (p + 1)..Len(text)
    BY <2>1 DEF N
  <2>4. QED
    BY <1>1, <2>2, <2>3
<1>4. QED
  BY <1>2, <1>3

(* The reader of the card gets past the comment it is at.                   *)
LEMMA CommentLeft ==
    ASSUME TypeOK, reader = "sd", AtComment
    PROVE  pos # Eaten(pos)
<1> DEFINE N == {i \in (pos + 1)..Len(text) : text[i] = Newline}
<1>1. Len(text) \in Nat /\ pos \in 0..Len(text) /\ pos \in Nat
  BY TextFacts
<1>2. readable /\ N \in SUBSET Nat /\ pos < Len(text)
  BY <1>1 DEF AtComment, WordsAhead
<1>3. CASE N = {}
  BY <1>1, <1>2, <1>3 DEF Eaten
<1>4. CASE N # {}
  <2>1. Min(N) \in N
    BY <1>2, <1>4, LeastElement
  <2>2. Eaten(pos) = Min(N)
    BY <1>2, <1>4 DEF Eaten
  <2> HIDE DEF N
  <2>3. Min(N) \in (pos + 1)..Len(text)
    BY <2>1 DEF N
  <2>4. QED
    BY <1>1, <2>2, <2>3
<1>5. QED
  BY <1>3, <1>4

LEMMA TurnFacts ==
    /\ TurnsInPlace["done"] = 0 /\ TurnsInPlace["end"] = 1 /\ TurnsInPlace["boards"] = 2
    /\ TurnsInPlace["messages"] = 3 /\ TurnsInPlace["add"] = 4 /\ TurnsInPlace["signals"] = 5
    /\ TurnsInPlace["endianness"] = 6 /\ TurnsInPlace["signedness"] = 7
    /\ TurnsInPlace["options"] = 3 /\ TurnsInPlace["optionName"] = 3
    /\ TurnsInPlace["optionValue"] = 2 /\ TurnsInPlace["start"] = 4
    /\ \A p \in Points : TurnsInPlace[p] \in 0..7
    /\ \A p \in Points \ {"end", "done"} : TurnsInPlace[p] > 1
BY DEF TurnsInPlace, Points

(* The order of a descent that reads no word.                               *)
Further == pos' > pos \/ TurnsInPlace[pc'] < TurnsInPlace[pc]

LEMMA RefuseTurn ==
    ASSUME TypeOK, pc \notin {"end", "done"}, pc' = "end"
    PROVE  Further
BY TurnFacts DEF Further, TypeOK

(* A step that reads a word it finds, or refuses.                           *)
LEMMA ReadTurn ==
    ASSUME TypeOK, pc \notin {"end", "done"}, Consume, Peek # "none" \/ Refuse
    PROVE  Further /\ pos' \in pos..Len(text)
<1>1. pos' \in pos..Len(text) /\ (Peek # "none" => pos' > pos)
  BY MovedOn DEF Consume
<1>2. CASE Peek # "none"
  BY <1>1, <1>2 DEF Further
<1>3. CASE Refuse
  BY <1>1, <1>3, RefuseTurn DEF Refuse
<1>4. QED
  BY <1>2, <1>3

LEMMA LineTurn ==
    ASSUME TypeOK, pc \notin {"end", "done"}, ConsumeLine, Peek # "none" \/ Refuse
    PROVE  Further /\ pos' \in pos..Len(text)
<1>1. Moved \in pos..Len(text) /\ (Peek # "none" => Moved > pos)
  BY MovedOn
<1>2. Len(text) \in Nat /\ pos \in 0..Len(text)
  BY TextFacts
<1>3. Moved \in 0..Len(text)
  BY <1>1, <1>2
<1>4. Eaten(Moved) \in Moved..Len(text)
  BY <1>3, EatenOn
<1>5. pos' \in Moved..Len(text)
  BY <1>2, <1>3, <1>4 DEF ConsumeLine
<1>6. pos' \in pos..Len(text) /\ (Peek # "none" => pos' > pos)
  BY <1>1, <1>2, <1>5
<1>7. CASE Peek # "none"
  BY <1>6, <1>7 DEF Further
<1>8. CASE Refuse
  BY <1>6, <1>8, RefuseTurn DEF Refuse
<1>9. QED
  BY <1>7, <1>8

LEMMA TurnStep ==
    ASSUME TypeOK, Next
    PROVE  /\ pos' \in pos..Len(text)
           /\ Further \/ (SkipComment /\ pos' = pos)
<1>1. Len(text) \in Nat /\ pos \in 0..Len(text) /\ pos \in pos..Len(text)
  BY TextFacts
<1>2. ASSUME Stay, TurnsInPlace[pc'] < TurnsInPlace[pc]
      PROVE  Further /\ pos' \in pos..Len(text)
  BY <1>1, <1>2 DEF Stay, Further
<1>3. ASSUME Stay, Refuse, pc \notin {"end", "done"}
      PROVE  Further /\ pos' \in pos..Len(text)
  BY <1>1, <1>3, RefuseTurn DEF Stay, Refuse
<1>4. CASE Start
  BY <1>2, <1>4, TurnFacts DEF Start, Goto
<1>5. CASE SkipComment
  <2>1. pos' = Eaten(pos) /\ pc' = pc
    BY <1>5 DEF SkipComment, EatComment
  <2>2. pos' \in pos..Len(text)
    BY <1>1, <2>1, EatenOn
  <2>3. pos' > pos \/ pos' = pos
    BY <1>1, <2>1, <2>2
  <2>4. QED
    BY <1>5, <2>2, <2>3 DEF Further
<1>6. CASE Options
  <2>1. CASE Peek = "TT_OPTION_PREFIX"
    BY <1>6, <2>1, ReadTurn DEF Options, At
  <2>2. CASE Peek # "TT_OPTION_PREFIX"
    BY <1>2, <1>6, <2>2, TurnFacts DEF Options, At, Goto
  <2>3. QED
    BY <2>1, <2>2
<1>7. CASE OptionName
  <2>1. pos' \in pos..Len(text)
    BY <1>7, MovedOn DEF OptionName, Consume
  <2>2. TurnsInPlace[pc'] < TurnsInPlace[pc]
    BY <1>7, TurnFacts DEF OptionName, At, Goto
  <2>3. QED
    BY <2>1, <2>2 DEF Further
<1>8. CASE OptionValue \/ MessageId
  BY <1>8, ReadTurn DEF OptionValue, MessageId, At
<1>9. CASE MessageName \/ SignalName \/ DataType
  BY <1>9, ReadTurn DEF MessageName, SignalName, DataType, At, Expect
<1>10. CASE SignalField
  <2>1. pc \in DOMAIN fieldTypes /\ Consume /\ (Peek \in fieldTypes[pc] \/ Refuse)
    BY <1>10 DEF SignalField
  <2>2. pc \notin {"end", "done"} /\ "none" \notin fieldTypes[pc]
    BY <2>1 DEF fieldTypes
  <2>3. QED
    BY <2>1, <2>2, ReadTurn
<1>11. CASE BoardName
  BY <1>11, LineTurn DEF BoardName, At, Expect
<1>12. CASE MessageLength
  BY <1>12, LineTurn DEF MessageLength, At
<1>13. CASE Boards
  <2>1. CASE Peek = "TT_BOARD_PREFIX"
    BY <1>13, <2>1, ReadTurn DEF Boards, At
  <2>2. CASE Peek # "TT_BOARD_PREFIX"
    BY <1>2, <1>13, <2>2, TurnFacts DEF Boards, At, Refuse
  <2>3. QED
    BY <2>1, <2>2
<1>14. CASE Messages
  <2>1. CASE Peek = "TT_MESSAGE_PREFIX"
    BY <1>14, <2>1, ReadTurn DEF Messages, At
  <2>2. CASE Peek # "TT_MESSAGE_PREFIX"
    BY <1>2, <1>14, <2>2, TurnFacts DEF Messages, At, Refuse, Goto
  <2>3. QED
    BY <2>1, <2>2
<1>15. CASE Signals
  <2>1. CASE Peek = "TT_SIGNAL_PREFIX"
    BY <1>15, <2>1, ReadTurn DEF Signals, At
  <2>2. CASE Peek # "TT_SIGNAL_PREFIX"
    BY <1>2, <1>15, <2>2, TurnFacts DEF Signals, At, Refuse, Goto
  <2>3. QED
    BY <2>1, <2>2
<1>16. CASE Signedness
  <2>1. CASE Consume /\ Peek # "none"
    BY <1>16, <2>1, ReadTurn DEF Signedness, At
  <2>2. CASE Stay
    BY <1>2, <1>16, <2>2, TurnFacts DEF Signedness, At, Goto
  <2>3. QED
    BY <1>16, <2>1, <2>2 DEF Signedness, PeekKeyword
<1>17. CASE EndianSignal
  <2>1. pc = "endianness" /\ pc' \in {"signals", "end"}
    BY <1>17 DEF EndianSignal, At, Goto, Refuse
  <2>2. CASE Consume /\ Peek # "none"
    BY <2>1, <2>2, ReadTurn
  <2>3. CASE Stay
    BY <1>2, <2>1, <2>3, TurnFacts
  <2>4. QED
    BY <1>17, <2>2, <2>3 DEF EndianSignal, PeekKeyword
<1>18. CASE AddMessage
  <2>1. pc = "add" /\ Stay /\ pc' \in {"messages", "end"}
    BY <1>18 DEF AddMessage, Goto, Refuse
  <2>2. QED
    BY <1>2, <2>1, TurnFacts
<1>19. CASE End
  <2>1. pc = "end" /\ pc' = "done" /\ pos' \in pos..Len(text)
    BY <1>1, <1>19 DEF End, EndReading
  <2>2. QED
    BY <2>1, TurnFacts DEF Further
<1>20. QED
  BY <1>4, <1>5, <1>6, <1>7, <1>8, <1>9, <1>10, <1>11, <1>12, <1>13, <1>14, <1>15, <1>16,
     <1>17, <1>18, <1>19 DEF Next

(* A step that stays at its point and its place is no step at all.          *)
LEMMA StepMoves ==
    ASSUME TypeOK, Next, pos' = pos, pc' = pc
    PROVE  UNCHANGED builderVars
<1>1. CASE SkipComment
  <2>1. UNCHANGED <<result, optionVars, boardVars, parseVars>> /\ UNCHANGED sourceVars
    BY <1>1 DEF SkipComment, EatComment
  <2>2. QED
    BY <2>1 DEF builderVars
<1>2. Further \/ SkipComment
  BY TurnStep
<1>3. Len(text) \in Nat /\ pos \in 0..Len(text) /\ TurnsInPlace[pc] \in 0..7
  BY TextFacts, TurnFacts DEF TypeOK
<1>4. ~Further
  BY <1>3 DEF Further
<1>5. QED
  BY <1>1, <1>2, <1>4

LEMMA BoundFalls ==
    ASSUME NEW l \in Nat, NEW p \in 0..l, NEW q \in p..l, NEW a \in 0..7, NEW b \in 0..7,
           q > p \/ b < a,
           NEW before, before = 8 * (l - p) + a, NEW after, after = 8 * (l - q) + b
    PROVE  after \in 0..(before - 1)
OBVIOUS

(* Each step of build() brings it nearer to its end, whatever the           *)
(* configuration and whichever reader: at most eight steps for a symbol of  *)
(* the configuration are left, so that the only thing that can keep it from *)
(* ending is a turn that changes nothing, which the reader of the card does *)
(* not take at a comment.                                                   *)
THEOREM TurnsAreBounded == Spec => EveryTurnGetsOn
<1>1. TypeOK => (reader = "sd" /\ AtComment => pos # Eaten(pos))
  BY CommentLeft
<1>2. ASSUME TypeOK, TypeOK', [Next]_builderVars
      PROVE  [TurnsLeft' \in 0..(TurnsLeft - 1)]_builderVars
  <2>1. CASE UNCHANGED builderVars
    BY <2>1
  <2>2. CASE Next /\ (pos' # pos \/ pc' # pc)
    <3>1. Len(text) \in Nat /\ pos \in 0..Len(text) /\ text' = text
      BY <1>2, TextFacts, SourceStep
    <3>2. Further /\ pos' \in pos..Len(text)
      BY <1>2, <2>2, TurnStep DEF SkipComment
    <3>3. TurnsInPlace[pc] \in 0..7 /\ TurnsInPlace[pc'] \in 0..7
      BY <1>2, TurnFacts DEF TypeOK
    <3>4. TurnsLeft = 8 * (Len(text) - pos) + TurnsInPlace[pc]
      BY DEF TurnsLeft
    <3>5. TurnsLeft' = 8 * (Len(text) - pos') + TurnsInPlace[pc']
      BY <3>1 DEF TurnsLeft, TurnsInPlace
    <3>6. TurnsLeft' \in 0..(TurnsLeft - 1)
      BY <3>1, <3>2, <3>3, <3>4, <3>5, BoundFalls DEF Further
    <3>7. QED
      BY <3>6
  <2>3. CASE Next /\ pos' = pos /\ pc' = pc
    BY <1>2, <2>3, StepMoves
  <2>4. QED
    BY <1>2, <2>1, <2>2, <2>3
<1>3. QED
  BY <1>1, <1>2, BuilderTypes, PTL DEF Spec, EveryTurnGetsOn
=============================================================================
