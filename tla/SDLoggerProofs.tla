--------------------------- MODULE SDLoggerProofs ---------------------------
(***************************************************************************)
(* The stack of open files and the silence of a failed logger, for every   *)
(* depth of the stack, every configuration and either FILE_WRITE, with     *)
(* power cuts and failures of the card at every step.                      *)
(***************************************************************************)
EXTENDS SDLogger, SequenceTheorems, TLAPS

(* a finite sequence, of whatever *)
IsText(s) == \E S : s \in Seq(S)

(* shape of the stack at any time: only its bottom is ever used *)
StackOK ==
    /\ managerStatus \in {"good", "bad"}
    /\ fileStack \in [Slots -> Handle \cup {None}]
    /\ fileStackPtr \in {0, 1}
    /\ guards \in Seq(Handle \cup {None})
    /\ \A i \in Slots \ {0} : fileStack[i] = None
    /\ fileStackPtr = 1 => fileStack[0] \in Handle

HandlesOK ==
    /\ DOMAIN handle = Handle
    /\ \A h \in Handle :
         /\ DOMAIN handle[h] = {"path", "open", "left", "buf"}
         /\ handle[h].open \in BOOLEAN
         /\ IsText(handle[h].buf)

CardOK ==
    /\ card = [p \in DOMAIN card |-> card[p]]
    /\ \A p \in DOMAIN card : IsText(card[p])

OnlyOpen(H) == \A h \in Handle : handle[h].open => h \in H
OpenIsEmpty == \A h \in Handle : handle[h].open => handle[h].buf = <<>>

(* no guard is alive *)
AtRest ==
    /\ Len(guards) = 0 /\ fileStackPtr = 0
    /\ managerStatus = "good" => OnlyOpen({})
    /\ managerStatus = "bad" => OpenIsEmpty

(* one guard, with or without a file *)
OneBad ==
    /\ Len(guards) = 1 /\ guards[1] = None
    /\ managerStatus = "bad" /\ fileStackPtr = 0 /\ OpenIsEmpty

OneGood ==
    /\ Len(guards) = 1 /\ guards[1] \in Handle
    /\ managerStatus = "good" /\ fileStackPtr = 1 /\ fileStack[0] = guards[1]
    /\ OnlyOpen({guards[1]})

OneFresh ==
    /\ OneGood
    /\ handle[guards[1]].left = 0 /\ handle[guards[1]].buf = <<>>

(* two guards: open() has dropped the log from the stack *)
TwoBad ==
    /\ Len(guards) = 2 /\ guards[1] \in Handle /\ guards[2] = None
    /\ managerStatus = "bad" /\ fileStackPtr = 0 /\ OpenIsEmpty

TwoGood ==
    /\ Len(guards) = 2 /\ guards[1] \in Handle /\ guards[2] \in Handle
    /\ guards[1] # guards[2]
    /\ managerStatus = "good" /\ fileStackPtr = 1 /\ fileStack[0] = guards[2]
    /\ OnlyOpen({guards[1], guards[2]})

(* the guard of the log alone again: close() has popped the configuration *)
OneDropped ==
    /\ Len(guards) = 1 /\ guards[1] \in Handle /\ fileStackPtr = 0
    /\ managerStatus = "good" => fileStack[0] # guards[1] /\ OnlyOpen({guards[1]})
    /\ managerStatus = "bad" => OpenIsEmpty

PlaceInv ==
    /\ pc \in {"off", "mount", "setup", "halt", "dir", "count", "counting", "open_log", "wait"}
         => AtRest
    /\ pc \in {"off", "mount"} => OnlyOpen({})
    /\ pc \in {"build", "setup_end", "run", "run_end"} => OneBad \/ OneGood
    /\ pc = "log_opened" => OneBad \/ OneFresh
    /\ pc \in {"config_opened", "config_end"} => TwoBad \/ TwoGood
    /\ pc = "copy" => TwoGood
    /\ pc = "log_end" => OneBad \/ OneDropped

(* a logger that has failed has a manager that has *)
StateInv ==
    /\ pc \in {"config_opened", "copy"} => loggerState = "good"
    /\ pc \in {"config_end", "log_end", "wait", "run", "run_end"} /\ loggerState = "bad"
         => managerStatus = "bad"

FilesOK == StackOK /\ HandlesOK /\ CardOK

StackInv == pc \in PC /\ FilesOK /\ PlaceInv /\ StateInv
-----------------------------------------------------------------------------
(* Texts. *)
LEMMA TextEmpty == IsText(<<>>)
BY EmptySeq DEF IsText

LEMMA TextOne == ASSUME NEW e PROVE IsText(<<e>>)
<1>1. <<e>> \in Seq({e})
  OBVIOUS
<1>2. QED
  BY <1>1 DEF IsText

LEMMA TextConcat ==
    ASSUME NEW s, NEW t, IsText(s), IsText(t)
    PROVE  IsText(s \o t)
<1>1. PICK S : s \in Seq(S)
  BY DEF IsText
<1>2. PICK T : t \in Seq(T)
  BY DEF IsText
<1>3. s \in Seq(S \cup T) /\ t \in Seq(S \cup T)
  BY <1>1, <1>2, SeqMonotonic
<1>4. s \o t \in Seq(S \cup T)
  BY <1>3, ConcatProperties
<1>5. QED
  BY <1>4 DEF IsText

LEMMA TextAppend ==
    ASSUME NEW s, NEW e, IsText(s)
    PROVE  IsText(Append(s, e))
<1>1. PICK S : s \in Seq(S)
  BY DEF IsText
<1> DEFINE T == S \cup {e}
<1>2. s \in Seq(T) /\ e \in T
  BY <1>1, SeqMonotonic
<1> HIDE DEF T
<1>3. Append(s, e) \in Seq(T)
  BY <1>2, AppendProperties
<1>4. QED
  BY <1>3 DEF IsText

LEMMA TextPrefix ==
    ASSUME NEW s, IsText(s), NEW k \in Nat, k <= Len(s)
    PROVE  IsText(SubSeq(s, 1, k))
<1>1. PICK S : s \in Seq(S)
  BY DEF IsText
<1>2. \A i \in 1..k : s[i] \in S
  BY <1>1, ElementOfSeq, LenProperties
<1>3. SubSeq(s, 1, k) \in Seq(S)
  BY <1>2, SubSeqProperties
<1>4. QED
  BY <1>3 DEF IsText

LEMMA TextKept ==
    ASSUME NEW s, IsText(s)
    PROVE  s \o <<>> = s
BY ConcatEmptySeq DEF IsText

-----------------------------------------------------------------------------
(* Guards come and go at the end of their sequence. *)
LEMMA GuardAdded ==
    ASSUME StackOK, NEW g \in Handle \cup {None}, guards' = Append(guards, g)
    PROVE  /\ guards' \in Seq(Handle \cup {None})
           /\ Len(guards') = Len(guards) + 1
           /\ guards'[Len(guards) + 1] = g
           /\ \A i \in 1..Len(guards) : guards'[i] = guards[i]
<1>1. guards \in Seq(Handle \cup {None})
  BY DEF StackOK
<1>2. QED
  BY <1>1

LEMMA GuardPopped ==
    ASSUME StackOK, Len(guards) >= 1,
           guards' = SubSeq(guards, 1, Len(guards) - 1)
    PROVE  /\ guards' \in Seq(Handle \cup {None})
           /\ Len(guards') = Len(guards) - 1
           /\ \A i \in 1..(Len(guards) - 1) : guards'[i] = guards[i]
<1> DEFINE G == Handle \cup {None}
           n == Len(guards) - 1
<1>a. guards \in Seq(G)
  BY DEF StackOK
<1>b. n \in Nat /\ n <= Len(guards)
  BY <1>a
<1> HIDE DEF G, n
<1>1. guards \in Seq(G) /\ n \in Nat /\ n <= Len(guards)
  BY <1>a, <1>b
<1>2. \A i \in 1..n : guards[i] \in G
  BY <1>1
<1>3. SubSeq(guards, 1, n) \in Seq(G)
  BY <1>1, <1>2, SubSeqProperties
<1>4. Len(SubSeq(guards, 1, n)) = n /\ \A i \in 1..n : SubSeq(guards, 1, n)[i] = guards[i]
  BY <1>1
<1>5. QED
  BY <1>3, <1>4 DEF G, n

LEMMA RefsAreHandles ==
    ASSUME StackOK PROVE Referenced(fileStack, guards) \subseteq Handle \cup {None}
<1>1. \A i \in 1..Len(guards) : guards[i] \in Handle \cup {None}
  BY ElementOfSeq DEF StackOK
<1>2. \A i \in Slots : fileStack[i] \in Handle \cup {None}
  BY DEF StackOK
<1>3. QED
  BY <1>1, <1>2 DEF Referenced

LEMMA NoneIsNoHandle ==
    /\ None \notin Handle /\ 0 \in Slots
    /\ \A g : \E h \in Handle : h # g
<1>1. MAX_STACK_SIZE \in Nat /\ MAX_STACK_SIZE >= 1 /\ None \notin Nat
  BY ManagerAssumption
<1>2. Handle \subseteq Nat /\ 1 \in Handle /\ 2 \in Handle
  BY <1>1 DEF Handle
<1>3. None \notin Handle
  BY <1>1, <1>2
<1>4. 0 \in Slots
  BY <1>1 DEF Slots
<1>5. \A g : \E h \in Handle : h # g
  BY <1>2
<1>6. QED
  BY <1>3, <1>4, <1>5

(* Closing files leaves texts on the card and keeps the handles' shape.     *)
LEMMA CommittedText ==
    ASSUME HandlesOK, CardOK, NEW hs \in SUBSET Handle, NEW p \in DOMAIN card
    PROVE  IsText(Committed(hs)[p])
<1>1. CASE cardOk /\ \E h \in hs : handle[h].open /\ handle[h].path = p
  <2> DEFINE h == CHOOSE h \in hs : handle[h].open /\ handle[h].path = p
  <2>1. h \in Handle
    BY <1>1
  <2>2. IsText(handle[h].buf) /\ IsText(card[p])
    BY <2>1 DEF HandlesOK, CardOK
  <2>3. Committed(hs)[p] = card[p] \o handle[h].buf
    BY <1>1 DEF Committed
  <2> HIDE DEF h
  <2>4. QED
    BY <2>2, <2>3, TextConcat
<1>2. CASE ~(cardOk /\ \E h \in hs : handle[h].open /\ handle[h].path = p)
  BY <1>2 DEF Committed, CardOK
<1>3. QED
  BY <1>1, <1>2

LEMMA ClosedOK ==
    ASSUME HandlesOK, NEW hs \in SUBSET Handle
    PROVE  LET H == Closed(hs) IN
           /\ DOMAIN H = Handle
           /\ \A h \in Handle :
                /\ DOMAIN H[h] = {"path", "open", "left", "buf"}
                /\ H[h].open = (handle[h].open /\ h \notin hs)
                /\ H[h].buf = (IF h \in hs THEN <<>> ELSE handle[h].buf)
                /\ H[h].left = handle[h].left
                /\ H[h].path = handle[h].path
BY DEF HandlesOK, Closed

LEMMA ClosedText ==
    ASSUME HandlesOK, NEW hs \in SUBSET Handle, NEW h \in Handle
    PROVE  IsText(Closed(hs)[h].buf) /\ Closed(hs)[h].open \in BOOLEAN
<1>1. IsText(handle[h].buf) /\ handle[h].open \in BOOLEAN
  BY DEF HandlesOK
<1>2. Closed(hs)[h].buf = <<>> \/ Closed(hs)[h].buf = handle[h].buf
  BY ClosedOK
<1>3. IsText(Closed(hs)[h].buf)
  BY <1>1, <1>2, TextEmpty
<1>4. Closed(hs)[h].open \in BOOLEAN
  BY ClosedOK
<1>5. QED
  BY <1>3, <1>4

-----------------------------------------------------------------------------
(* FileGuard's constructor.  PtrAfterDrop is 0 wherever it is called.       *)
LEMMA CreatedText ==
    ASSUME CardOK, NEW path, NEW create
    PROVE  LET C == Created(path, create) IN
             C = [p \in DOMAIN C |-> C[p]] /\ \A p \in DOMAIN C : IsText(C[p])
<1>1. CASE create /\ ~Exists(path) /\ CanWrite(path)
  <2>1. Created(path, create) =
          [p \in DOMAIN card \cup {path} |-> IF p = path THEN <<>> ELSE card[p]]
    BY <1>1 DEF Created
  <2>2. QED
    BY <2>1, TextEmpty DEF CardOK
<1>2. CASE ~(create /\ ~Exists(path) /\ CanWrite(path))
  <2>1. Created(path, create) = card
    BY <1>2 DEF Created
  <2>2. QED
    BY <2>1 DEF CardOK
<1>3. QED
  BY <1>1, <1>2

LEMMA GuardWithoutFile ==
    ASSUME FilesOK, PtrAfterDrop = 0, ~ReusesTop,
           NEW path, NEW mode, NEW create,
           (OpenRefused /\ fileStackPtr = 0) \/ OpenFails(path, mode, create)
    PROVE  /\ FilesOK'
           /\ guards' = Append(guards, None)
           /\ managerStatus' = "bad" /\ fileStackPtr' = 0
           /\ UNCHANGED <<fileStack, handle>>
<1>1. /\ guards' = Append(guards, None) /\ UNCHANGED <<fileStack, handle>>
      /\ managerStatus' = "bad" /\ fileStackPtr' = 0
  BY DEF OpenRefused, OpenFails, GuardBad
<1>2. guards' \in Seq(Handle \cup {None})
  BY <1>1, GuardAdded DEF FilesOK
<1>3. StackOK'
  BY <1>1, <1>2 DEF FilesOK, StackOK
<1>4. HandlesOK'
  BY <1>1 DEF FilesOK, HandlesOK
<1>5. CardOK'
  <2>1. CASE OpenRefused
    BY <2>1 DEF OpenRefused, FilesOK, CardOK
  <2>2. CASE OpenFails(path, mode, create)
    <3>1. card' = Created(path, create)
      BY <2>2 DEF OpenFails
    <3>2. QED
      BY <3>1, CreatedText DEF FilesOK, CardOK
  <2>3. QED
    BY <2>1, <2>2
<1>6. QED
  BY <1>1, <1>3, <1>4, <1>5 DEF FilesOK

LEMMA GuardWithFile ==
    ASSUME FilesOK, PtrAfterDrop = 0,
           \E h \in Handle : h \notin Referenced(fileStack, guards),
           NEW path, NEW mode, NEW create,
           OpenSucceeds(path, mode, create)
    PROVE  /\ FilesOK'
           /\ \E h \in Handle :
                /\ h \notin Referenced(fileStack, guards)
                /\ guards' = Append(guards, h)
                /\ fileStackPtr' = 1 /\ fileStack'[0] = h
                /\ \A g \in Handle \ {h} : handle'[g].open => handle[g].open
                /\ handle'[h].buf = <<>>
                /\ mode # "read" => handle'[h].left = 0
                /\ handle'[h].open /\ handle'[h].path = path /\ path \in DOMAIN card'
           /\ managerStatus = "good" /\ managerStatus' = "good"
<1> DEFINE h     == FreshHandle
           stack == [fileStack EXCEPT ![PtrAfterDrop] = h]
           gone  == Referenced(fileStack, guards) \ (Referenced(stack, guards) \cup {None})
           kept  == Committed(gone)
           old   == IF Exists(path) /\ ~(mode = "write" /\ fileWrite = "truncate")
                    THEN kept[path] ELSE <<>>
           new   == [path |-> path, open |-> TRUE, buf |-> <<>>,
                     left |-> IF mode = "read" THEN Len(old) ELSE 0]
<1>1. h \in Handle /\ h \notin Referenced(fileStack, guards)
  BY DEF FreshHandle
<1>2. /\ fileStack' = stack /\ fileStackPtr' = PtrAfterDrop + 1
      /\ guards' = Append(guards, h)
      /\ card' = [p \in DOMAIN card \cup {path} |-> IF p = path THEN old ELSE kept[p]]
      /\ handle' = [Closed(gone) EXCEPT ![h] = new]
      /\ managerStatus = "good" /\ managerStatus' = "good"
  BY DEF OpenSucceeds
<1>3. gone \subseteq Handle
  BY RefsAreHandles DEF FilesOK
<1> HIDE DEF h, gone
<1>4. StackOK'
  <2>1. 0 \in Slots /\ fileStack \in [Slots -> Handle \cup {None}]
    BY NoneIsNoHandle DEF FilesOK, StackOK
  <2>2. /\ fileStack' \in [Slots -> Handle \cup {None}] /\ fileStack'[0] = h
        /\ \A i \in Slots \ {0} : fileStack'[i] = None
    BY <1>1, <1>2, <2>1 DEF FilesOK, StackOK
  <2>3. guards' \in Seq(Handle \cup {None})
    BY <1>1, <1>2, GuardAdded DEF FilesOK
  <2>4. QED
    BY <1>1, <1>2, <2>2, <2>3 DEF StackOK
<1>5. /\ DOMAIN handle' = Handle /\ handle'[h] = new
      /\ \A g \in Handle \ {h} : handle'[g] = Closed(gone)[g]
  BY <1>1, <1>2, <1>3, ClosedOK DEF FilesOK
<1>6. HandlesOK'
  <2>1. DOMAIN new = {"path", "open", "left", "buf"} /\ new.open = TRUE /\ new.buf = <<>>
    OBVIOUS
  <2>2. \A g \in Handle : IsText(Closed(gone)[g].buf) /\ Closed(gone)[g].open \in BOOLEAN
    BY <1>3, ClosedText DEF FilesOK
  <2>3. \A g \in Handle : DOMAIN Closed(gone)[g] = {"path", "open", "left", "buf"}
    BY <1>3, ClosedOK DEF FilesOK
  <2> HIDE DEF new
  <2>4. QED
    BY <1>5, <2>1, <2>2, <2>3, TextEmpty DEF HandlesOK
<1>7. CardOK'
  <2>1. \A p \in DOMAIN card : IsText(kept[p])
    BY <1>3, CommittedText DEF FilesOK
  <2>2. IsText(old)
    BY <2>1, TextEmpty DEF Exists
  <2> HIDE DEF old, kept
  <2>3. QED
    BY <1>2, <2>1, <2>2 DEF CardOK
<1>8. ASSUME NEW g \in Handle \ {h} PROVE handle'[g].open => handle[g].open
  <2>1. Closed(gone)[g].open = (handle[g].open /\ g \notin gone)
    BY <1>3, ClosedOK DEF FilesOK
  <2>2. QED
    BY <1>5, <2>1
<1>9. /\ handle'[h].buf = <<>> /\ (mode # "read" => handle'[h].left = 0)
      /\ handle'[h].open /\ handle'[h].path = path
  BY <1>5
<1>a. path \in DOMAIN card'
  BY <1>2
<1>10. fileStack'[0] = h /\ fileStackPtr' = 1
  BY <1>2, NoneIsNoHandle DEF FilesOK, StackOK
<1>11. QED
  BY <1>1, <1>2, <1>4, <1>6, <1>7, <1>8, <1>9, <1>a, <1>10 DEF FilesOK

LEMMA OpenFromRest ==
    ASSUME FilesOK, AtRest, NEW path, NEW mode, NEW create,
           OpenGuard(path, mode, create)
    PROVE  FilesOK' /\ (OneBad' \/ (OneGood' /\ (mode # "read" => OneFresh')))
<1>1. PtrAfterDrop = 0 /\ ~ReusesTop /\ fileStackPtr = 0
  BY DEF AtRest, PtrAfterDrop, ReusesTop
<1>2. CASE OpenRefused \/ OpenFails(path, mode, create)
  <2>1. /\ FilesOK' /\ guards' = Append(guards, None)
        /\ managerStatus' = "bad" /\ fileStackPtr' = 0
        /\ UNCHANGED <<fileStack, handle>>
    BY <1>1, <1>2, GuardWithoutFile
  <2>2. Len(guards') = 1 /\ guards'[1] = None
    BY <2>1, GuardAdded DEF FilesOK, AtRest
  <2>3. OpenIsEmpty'
    BY <2>1 DEF AtRest, OpenIsEmpty, OnlyOpen, FilesOK, StackOK
  <2>4. QED
    BY <2>1, <2>2, <2>3 DEF OneBad
<1>3. CASE OpenSucceeds(path, mode, create)
  <2>1. \E h \in Handle : h \notin Referenced(fileStack, guards)
    <3>1. PICK h \in Handle : h # fileStack[0]
      BY NoneIsNoHandle
    <3>2. Referenced(fileStack, guards) \subseteq {fileStack[0], None}
      BY DEF Referenced, AtRest, FilesOK, StackOK
    <3>3. QED
      BY <3>1, <3>2, NoneIsNoHandle
  <2>2. FilesOK' /\ managerStatus = "good" /\ managerStatus' = "good"
    BY <1>1, <1>3, <2>1, GuardWithFile
  <2>3. PICK h \in Handle :
                /\ guards' = Append(guards, h)
                /\ fileStackPtr' = 1 /\ fileStack'[0] = h
                /\ \A g \in Handle \ {h} : handle'[g].open => handle[g].open
                /\ handle'[h].buf = <<>>
                /\ mode # "read" => handle'[h].left = 0
    BY <1>1, <1>3, <2>1, GuardWithFile
  <2>4. Len(guards') = 1 /\ guards'[1] = h
    BY <2>3, GuardAdded DEF FilesOK, AtRest
  <2>5. OnlyOpen({h})'
    BY <2>2, <2>3 DEF AtRest, OnlyOpen
  <2>6. OneGood'
    BY <2>2, <2>3, <2>4, <2>5 DEF OneGood, OnlyOpen
  <2>7. QED
    BY <2>2, <2>3, <2>4, <2>6 DEF OneFresh
<1>4. CASE OpenReuse
  BY <1>1, <1>4 DEF OpenReuse
<1>5. QED
  BY <1>2, <1>3, <1>4 DEF OpenGuard

LEMMA OpenFromFresh ==
    ASSUME FilesOK, OneFresh, NEW path, NEW mode, NEW create,
           OpenGuard(path, mode, create)
    PROVE  FilesOK' /\ (TwoBad' \/ TwoGood')
<1>1. PtrAfterDrop = 0 /\ ~ReusesTop /\ managerStatus = "good" /\ fileStackPtr = 1
  BY DEF OneFresh, OneGood, PtrAfterDrop, ReusesTop, Available
<1>2. CASE OpenFails(path, mode, create)
  <2>1. /\ FilesOK' /\ guards' = Append(guards, None)
        /\ managerStatus' = "bad" /\ fileStackPtr' = 0
        /\ UNCHANGED <<fileStack, handle>>
    BY <1>1, <1>2, GuardWithoutFile
  <2>2. Len(guards') = 2 /\ guards'[2] = None /\ guards'[1] = guards[1]
    BY <2>1, GuardAdded DEF FilesOK, OneFresh, OneGood
  <2>3. OpenIsEmpty'
    BY <2>1 DEF OneFresh, OneGood, OpenIsEmpty, OnlyOpen
  <2>4. QED
    BY <2>1, <2>2, <2>3 DEF TwoBad, OneFresh, OneGood
<1>3. CASE OpenSucceeds(path, mode, create)
  <2>1. \E h \in Handle : h \notin Referenced(fileStack, guards)
    <3>1. PICK h \in Handle : h # guards[1]
      BY NoneIsNoHandle
    <3>2. Referenced(fileStack, guards) \subseteq {guards[1], None}
      BY DEF Referenced, OneFresh, OneGood, FilesOK, StackOK
    <3>3. QED
      BY <3>1, <3>2, NoneIsNoHandle
  <2>2. FilesOK' /\ managerStatus = "good" /\ managerStatus' = "good"
    BY <1>1, <1>3, <2>1, GuardWithFile
  <2>3. PICK h \in Handle :
                /\ h \notin Referenced(fileStack, guards)
                /\ guards' = Append(guards, h)
                /\ fileStackPtr' = 1 /\ fileStack'[0] = h
                /\ \A g \in Handle \ {h} : handle'[g].open => handle[g].open
    BY <1>1, <1>3, <2>1, GuardWithFile
  <2>4. Len(guards') = 2 /\ guards'[2] = h /\ guards'[1] = guards[1]
    BY <2>3, GuardAdded DEF FilesOK, OneFresh, OneGood
  <2>5. h # guards[1]
    BY <2>3 DEF Referenced, OneFresh, OneGood
  <2>6. OnlyOpen({guards[1], h})'
    BY <2>3, <2>4 DEF OnlyOpen, OneFresh, OneGood
  <2>7. QED
    BY <2>2, <2>3, <2>4, <2>5, <2>6 DEF TwoGood, OneFresh, OneGood, OnlyOpen
<1>4. QED
  BY <1>1, <1>2, <1>3 DEF OpenGuard, OpenRefused, OpenReuse

-----------------------------------------------------------------------------
(* FileGuard's destructor. *)
CloseTop == IF guards[Len(guards)] # None /\ fileStackPtr > 0
            THEN {fileStack[fileStackPtr - 1]} ELSE {}
CloseGone == Referenced(fileStack, guards)
               \ (Referenced(fileStack, SubSeq(guards, 1, Len(guards) - 1)) \cup {None})

LEMMA CloseKeepsFiles ==
    ASSUME FilesOK, Len(guards) >= 1, CloseGuard
    PROVE  /\ FilesOK'
           /\ guards' = SubSeq(guards, 1, Len(guards) - 1)
           /\ Len(guards') = Len(guards) - 1
           /\ \A i \in 1..(Len(guards) - 1) : guards'[i] = guards[i]
           /\ UNCHANGED <<managerStatus, fileStack>>
           /\ fileStackPtr' = IF guards[Len(guards)] # None THEN 0 ELSE fileStackPtr
           /\ card' = Committed(CloseTop \cup CloseGone)
           /\ \A h \in Handle :
                handle'[h].open => /\ handle[h].open /\ h \notin CloseTop \cup CloseGone
                                   /\ handle'[h].buf = handle[h].buf
<1>1. /\ guards' = SubSeq(guards, 1, Len(guards) - 1)
      /\ fileStackPtr' = IF guards[Len(guards)] # None /\ fileStackPtr > 0
                         THEN fileStackPtr - 1 ELSE fileStackPtr
      /\ card' = Committed(CloseTop \cup CloseGone)
      /\ handle' = Closed(CloseTop \cup CloseGone)
      /\ UNCHANGED <<managerStatus, fileStack>>
  BY DEF CloseGuard, CloseTop, CloseGone
<1>2. /\ guards' \in Seq(Handle \cup {None}) /\ Len(guards') = Len(guards) - 1
      /\ \A i \in 1..(Len(guards) - 1) : guards'[i] = guards[i]
  BY <1>1, GuardPopped DEF FilesOK
<1>3. fileStackPtr' = IF guards[Len(guards)] # None THEN 0 ELSE fileStackPtr
  BY <1>1 DEF FilesOK, StackOK
<1>4. CloseTop \cup CloseGone \subseteq Handle
  BY RefsAreHandles DEF CloseTop, CloseGone, FilesOK, StackOK
<1>5. StackOK'
  BY <1>1, <1>2, <1>3 DEF FilesOK, StackOK
<1>6. HandlesOK'
  BY <1>1, <1>4, ClosedOK, ClosedText DEF FilesOK, HandlesOK
<1>7. CardOK'
  <2>1. \A p \in DOMAIN card : IsText(Committed(CloseTop \cup CloseGone)[p])
    BY <1>4, CommittedText DEF FilesOK
  <2>2. Committed(CloseTop \cup CloseGone) =
          [p \in DOMAIN card |-> Committed(CloseTop \cup CloseGone)[p]]
    BY DEF Committed
  <2>3. QED
    BY <1>1, <2>1, <2>2 DEF CardOK
<1>8. \A h \in Handle :
        handle'[h].open => /\ handle[h].open /\ h \notin CloseTop \cup CloseGone
                           /\ handle'[h].buf = handle[h].buf
  BY <1>1, <1>4, ClosedOK DEF FilesOK
<1>9. QED
  BY <1>1, <1>2, <1>3, <1>5, <1>6, <1>7, <1>8 DEF FilesOK

LEMMA CloseOne ==
    ASSUME FilesOK, OneBad \/ OneGood \/ OneDropped, CloseGuard
    PROVE  FilesOK' /\ AtRest' /\ UNCHANGED managerStatus
<1>1. Len(guards) = 1
  BY DEF OneBad, OneGood, OneDropped
<1>2. /\ FilesOK' /\ Len(guards') = 0 /\ UNCHANGED managerStatus
      /\ fileStackPtr' = IF guards[1] # None THEN 0 ELSE fileStackPtr
      /\ \A h \in Handle :
                handle'[h].open => /\ handle[h].open /\ h \notin CloseTop \cup CloseGone
                                   /\ handle'[h].buf = handle[h].buf
  BY <1>1, CloseKeepsFiles
<1>3. fileStackPtr' = 0
  BY <1>2, NoneIsNoHandle DEF OneBad, OneGood, OneDropped
<1>4. managerStatus = "bad" => OpenIsEmpty'
  BY <1>2 DEF OneBad, OneGood, OneDropped, OpenIsEmpty
<1>5. ASSUME managerStatus = "good" PROVE OnlyOpen({})'
  <2>1. OneGood \/ OneDropped
    BY <1>5 DEF OneBad
  <2>2. OnlyOpen({guards[1]}) /\ guards[1] \in Handle
    BY <1>5, <2>1 DEF OneGood, OneDropped
  <2>3. guards[1] \in CloseTop \cup CloseGone
    <3>1. CASE OneGood
      BY <3>1, NoneIsNoHandle DEF OneGood, CloseTop
    <3>2. CASE OneDropped
      <4>1. guards[1] \in Referenced(fileStack, guards)
        BY <1>1 DEF Referenced
      <4>2. Len(SubSeq(guards, 1, Len(guards) - 1)) = 0
        BY <1>1, CloseKeepsFiles
      <4>3. Referenced(fileStack, SubSeq(guards, 1, Len(guards) - 1))
              \subseteq {fileStack[0], None}
        <5> DEFINE rest == SubSeq(guards, 1, Len(guards) - 1)
        <5>1. Len(rest) = 0
          BY <4>2
        <5>2. {fileStack[i] : i \in Slots} \subseteq {fileStack[0], None}
          BY DEF FilesOK, StackOK
        <5> HIDE DEF rest
        <5>3. Referenced(fileStack, rest) \subseteq {fileStack[0], None}
          BY <5>1, <5>2 DEF Referenced
        <5>4. QED
          BY <5>3 DEF rest
      <4>4. guards[1] # fileStack[0] /\ guards[1] # None
        BY <1>5, <3>2, NoneIsNoHandle DEF OneDropped
      <4>5. QED
        BY <4>1, <4>3, <4>4 DEF CloseGone
    <3>3. QED
      BY <2>1, <3>1, <3>2
  <2>4. QED
    BY <1>2, <2>2, <2>3 DEF OnlyOpen
<1>6. QED
  BY <1>2, <1>3, <1>4, <1>5 DEF AtRest

LEMMA CloseTwo ==
    ASSUME FilesOK, TwoBad \/ TwoGood, CloseGuard
    PROVE  FilesOK' /\ OneDropped' /\ UNCHANGED managerStatus
<1>1. Len(guards) = 2 /\ guards[1] \in Handle
  BY DEF TwoBad, TwoGood
<1>2. /\ FilesOK' /\ Len(guards') = 1 /\ guards'[1] = guards[1]
      /\ UNCHANGED <<managerStatus, fileStack>>
      /\ fileStackPtr' = IF guards[2] # None THEN 0 ELSE fileStackPtr
      /\ \A h \in Handle :
                handle'[h].open => /\ handle[h].open /\ h \notin CloseTop \cup CloseGone
                                   /\ handle'[h].buf = handle[h].buf
  BY <1>1, CloseKeepsFiles
<1>3. fileStackPtr' = 0
  BY <1>2, NoneIsNoHandle DEF TwoBad, TwoGood
<1>4. CASE TwoBad
  BY <1>1, <1>2, <1>3, <1>4 DEF TwoBad, OneDropped, OpenIsEmpty
<1>5. CASE TwoGood
  <2>1. guards[2] \in CloseTop
    BY <1>1, <1>5, NoneIsNoHandle DEF TwoGood, CloseTop
  <2>2. OnlyOpen({guards[1]})'
    BY <1>2, <1>5, <2>1 DEF TwoGood, OnlyOpen
  <2>3. QED
    BY <1>1, <1>2, <1>3, <1>5, <2>2 DEF TwoGood, OneDropped, OnlyOpen
<1>6. QED
  BY <1>4, <1>5

-----------------------------------------------------------------------------
(* Writing, and everything that leaves the manager alone. *)
LEMMA ManagerAlone ==
    ASSUME FilesOK, UNCHANGED <<managerVars, card>>
    PROVE  /\ FilesOK'
           /\ UNCHANGED <<AtRest, OneBad, OneGood, OneFresh, TwoBad, TwoGood, OneDropped>>
           /\ OnlyOpen({})' = OnlyOpen({})
BY DEF managerVars, FilesOK, StackOK, HandlesOK, CardOK, AtRest, OneBad, OneGood, OneFresh,
       TwoBad, TwoGood, OneDropped, OpenIsEmpty, OnlyOpen

LEMMA WriteKeepsShape ==
    ASSUME FilesOK, NEW h \in Handle, NEW items, IsText(items), Write(h, items)
    PROVE  FilesOK' /\ (OneGood => OneGood') /\ (TwoGood => TwoGood') /\ UNCHANGED card
<1>1. /\ handle' = [handle EXCEPT ![h].buf = @ \o items]
      /\ UNCHANGED <<managerStatus, fileStack, fileStackPtr, guards, card>>
  BY DEF Write, cardVars
<1>2. IsText(handle[h].buf \o items)
  BY TextConcat DEF FilesOK, HandlesOK
<1>3. \A g \in Handle : handle'[g].open = handle[g].open
  BY <1>1 DEF FilesOK, HandlesOK
<1>4. HandlesOK'
  BY <1>1, <1>2 DEF FilesOK, HandlesOK
<1>5. StackOK' /\ CardOK'
  BY <1>1 DEF FilesOK, StackOK, CardOK
<1>6. QED
  BY <1>1, <1>3, <1>4, <1>5 DEF FilesOK, OneGood, TwoGood, OnlyOpen

LEMMA CopyKeepsShape ==
    ASSUME FilesOK, TwoGood, CopyChunk(guards[2], guards[1])
    PROVE  FilesOK' /\ TwoGood' /\ UNCHANGED <<managerStatus, card>>
<1> DEFINE from == guards[2]
           to == guards[1]
           e == ConfigText[Chunks + 1 - handle[from].left]
<1>1. from \in Handle /\ to \in Handle /\ from # to
  BY DEF TwoGood
<1>2. /\ handle' = [handle EXCEPT ![from].left = @ - 1, ![to].buf = Append(@, e)]
      /\ UNCHANGED <<managerStatus, fileStack, fileStackPtr, guards, card>>
  BY DEF CopyChunk, cardVars
<1>3. IsText(Append(handle[to].buf, e))
  BY <1>1, TextAppend DEF FilesOK, HandlesOK
<1> HIDE DEF e, from, to
<1>4. /\ DOMAIN handle' = Handle
      /\ \A g \in Handle \ {from, to} : handle'[g] = handle[g]
      /\ handle'[from] = [handle[from] EXCEPT !.left = @ - 1]
      /\ handle'[to] = [handle[to] EXCEPT !.buf = Append(@, e)]
  BY <1>1, <1>2 DEF FilesOK, HandlesOK
<1>5. /\ DOMAIN handle'[from] = DOMAIN handle[from]
      /\ handle'[from].open = handle[from].open /\ handle'[from].buf = handle[from].buf
  BY <1>1, <1>4 DEF FilesOK, HandlesOK
<1>6. /\ DOMAIN handle'[to] = DOMAIN handle[to]
      /\ handle'[to].open = handle[to].open
      /\ handle'[to].buf = Append(handle[to].buf, e)
  BY <1>1, <1>4 DEF FilesOK, HandlesOK
<1>7. HandlesOK'
  BY <1>1, <1>3, <1>4, <1>5, <1>6 DEF FilesOK, HandlesOK
<1>8. \A g \in Handle : handle'[g].open = handle[g].open
  BY <1>1, <1>4, <1>5, <1>6
<1>9. StackOK' /\ CardOK'
  BY <1>2 DEF FilesOK, StackOK, CardOK
<1>10. QED
  BY <1>2, <1>7, <1>8, <1>9 DEF FilesOK, TwoGood, OnlyOpen

(* a reset leaves nothing open *)
LEMMA ResetOK ==
    ASSUME ManagerReset
    PROVE  StackOK /\ HandlesOK /\ AtRest /\ OnlyOpen({})
<1>1. HandlesOK
  BY TextEmpty DEF ManagerReset, HandlesOK, NoFile
<1>2. StackOK
  BY DEF ManagerReset, StackOK
<1>3. OnlyOpen({}) /\ OpenIsEmpty
  BY DEF ManagerReset, OnlyOpen, OpenIsEmpty, NoFile
<1>4. AtRest
  BY <1>3 DEF ManagerReset, AtRest
<1>5. QED
  BY <1>1, <1>2, <1>3, <1>4

LEMMA InitStackInv == Init => StackInv
<1> SUFFICES ASSUME Init PROVE StackInv
  OBVIOUS
<1>1. StackOK /\ HandlesOK /\ AtRest /\ OnlyOpen({})
  BY ResetOK DEF Init
<1>2. IsText(ConfigText)
  <2>1. Chunks \in Nat
    BY ManagerAssumption
  <2>2. ConfigText \in Seq({Chunk(i) : i \in 1..Chunks})
    BY <2>1 DEF ConfigText
  <2>3. QED
    BY <2>2 DEF IsText
<1>3. CardOK
  BY <1>2 DEF Init, CardInit, CardOK
<1>4. pc = "off"
  BY DEF Init
<1>5. QED
  BY <1>1, <1>3, <1>4 DEF StackInv, FilesOK, PlaceInv, StateInv, PC

-----------------------------------------------------------------------------
(* The steps of the firmware, by what they do to the manager. *)
QuietStep ==
    \/ PowerOn \/ Build \/ CountFiles \/ CountEntry \/ CountEnds \/ NoLog \/ NoConfig \/ CopyDone
    \/ NoRun \/ CardGone \/ CardBack

LEMMA QuietStackInv ==
    ASSUME StackInv, QuietStep
    PROVE  StackInv' /\ UNCHANGED card
<1>1. UNCHANGED <<managerVars, card>>
  BY DEF QuietStep, PowerOn, Build, CountFiles, CountEntry, CountEnds, NoLog, NoConfig,
         CopyDone, NoRun, CardGone, CardBack, CardFails, CardAnswers, KeepCard, cardVars
<1>2. UNCHANGED managerStatus
  BY <1>1 DEF managerVars
<1>3. pc' \in PC
  BY DEF StackInv, QuietStep, PowerOn, Build, CountFiles, CountEntry, CountEnds, NoLog,
         NoConfig, CopyDone, NoRun, CardGone, CardBack, loggerVars, PC
<1>4. PlaceInv'
  <2>1. /\ UNCHANGED <<AtRest, OneBad, OneGood, OneFresh, TwoBad, TwoGood, OneDropped>>
        /\ OnlyOpen({})' = OnlyOpen({})
    BY <1>1, ManagerAlone DEF StackInv
  <2>2. CASE UNCHANGED pc
    BY <2>1, <2>2 DEF StackInv, PlaceInv
  <2>3. CASE PowerOn \/ CountFiles \/ CountEntry \/ CountEnds
    BY <2>1, <2>3 DEF StackInv, PlaceInv, PowerOn, CountFiles, CountEntry, CountEnds
  <2>4. CASE Build \/ NoRun
    BY <2>1, <2>4 DEF StackInv, PlaceInv, Build, NoRun
  <2>5. CASE NoLog
    BY <2>1, <2>5, NoneIsNoHandle DEF StackInv, PlaceInv, NoLog, OneFresh, OneGood
  <2>6. CASE NoConfig \/ CopyDone
    BY <2>1, <2>6 DEF StackInv, PlaceInv, NoConfig, CopyDone
  <2>7. QED
    BY <2>2, <2>3, <2>4, <2>5, <2>6 DEF QuietStep, CardGone, CardBack, loggerVars
<1>5. StateInv'
  BY <1>2, NoneIsNoHandle DEF StackInv, StateInv, PlaceInv, QuietStep, PowerOn, Build,
     CountFiles, CountEntry, CountEnds, NoLog, NoConfig, CopyDone, NoRun, CardGone, CardBack,
     loggerVars, KeepLogger, OneFresh, OneBad, OneGood, TwoBad, TwoGood
<1>6. QED
  BY <1>1, <1>3, <1>4, <1>5, ManagerAlone DEF StackInv

LEMMA MountStackInv == ASSUME StackInv, MountCard PROVE StackInv'
<1>1. /\ pc = "mount" /\ pc' = "setup"
      /\ managerStatus' \in {"good", "bad"}
      /\ UNCHANGED <<fileStack, fileStackPtr, guards, handle, card>>
  BY DEF MountCard, Mount, cardVars
<1>2. FilesOK'
  BY <1>1 DEF StackInv, FilesOK, StackOK, HandlesOK, CardOK
<1>3. AtRest'
  BY <1>1 DEF StackInv, PlaceInv, AtRest, OnlyOpen, OpenIsEmpty
<1>4. QED
  BY <1>1, <1>2, <1>3 DEF StackInv, PlaceInv, StateInv, PC

LEMMA MakeDirStackInv == ASSUME StackInv, NEW dir, MakeDir(dir) PROVE StackInv'
<1>1. /\ pc = "dir" /\ pc' = "count"
      /\ \/ managerStatus' = managerStatus
         \/ managerStatus = "good" /\ managerStatus' = "bad"
      /\ UNCHANGED <<fileStack, fileStackPtr, guards, handle, card>>
  BY DEF MakeDir, CreateDir
<1>2. FilesOK'
  BY <1>1 DEF StackInv, FilesOK, StackOK, HandlesOK, CardOK
<1>3. AtRest'
  BY <1>1 DEF StackInv, PlaceInv, AtRest, OnlyOpen, OpenIsEmpty
<1>4. QED
  BY <1>1, <1>2, <1>3 DEF StackInv, PlaceInv, StateInv, PC

LEMMA OpenStackInv ==
    ASSUME StackInv, OpenSetup \/ OpenLog \/ OpenRun
    PROVE  StackInv'
<1>1. AtRest /\ FilesOK
  BY DEF StackInv, PlaceInv, OpenSetup, OpenLog, OpenRun
<1>2. CASE OpenSetup
  <2>1. pc' = "build"
    BY <1>2 DEF OpenSetup
  <2>2. FilesOK' /\ (OneBad' \/ OneGood')
    BY <1>1, <1>2, OpenFromRest DEF OpenSetup
  <2>3. QED
    BY <2>1, <2>2 DEF StackInv, PlaceInv, StateInv, PC
<1>3. CASE OpenLog
  <2>1. pc' = "log_opened"
    BY <1>3 DEF OpenLog
  <2>2. PICK create : OpenGuard(filename, "write", create)
    BY <1>3 DEF OpenLog
  <2>3. FilesOK' /\ (OneBad' \/ (OneGood' /\ ("write" # "read" => OneFresh')))
    BY <1>1, <2>2, OpenFromRest
  <2>4. QED
    BY <2>1, <2>3 DEF StackInv, PlaceInv, StateInv, PC
<1>4. CASE OpenRun
  <2>1. pc = "wait" /\ pc' = "run" /\ UNCHANGED loggerState
    BY <1>4 DEF OpenRun, KeepLogger
  <2>2. FilesOK' /\ (OneBad' \/ OneGood')
    BY <1>1, <1>4, OpenFromRest DEF OpenRun
  <2>3. managerStatus = "bad" => managerStatus' = "bad"
    BY <1>4 DEF OpenRun, OpenGuard, OpenRefused, OpenReuse, OpenFails, OpenSucceeds
  <2>4. StateInv'
    BY <2>1, <2>3 DEF StackInv, StateInv
  <2>5. QED
    BY <2>1, <2>2, <2>4 DEF StackInv, PlaceInv, PC
<1>5. QED
  BY <1>2, <1>3, <1>4

LEMMA OpenConfigStackInv == ASSUME StackInv, OpenConfig PROVE StackInv'
<1>1. /\ pc = "log_opened" /\ pc' = "config_opened" /\ loggerState' = "good"
      /\ guards[1] # None /\ OpenGuard(Config, "read", FALSE)
  BY DEF OpenConfig
<1>2. OneFresh /\ FilesOK
  BY <1>1 DEF StackInv, PlaceInv, OneBad
<1>3. FilesOK' /\ (TwoBad' \/ TwoGood')
  BY <1>1, <1>2, OpenFromFresh
<1>4. QED
  BY <1>1, <1>3 DEF StackInv, PlaceInv, StateInv, PC

LEMMA WriteStackInv ==
    ASSUME StackInv, WriteHeader \/ CopyConfig \/ WriteRecord
    PROVE  StackInv' /\ UNCHANGED card
<1>1. CASE WriteHeader
  <2>1. /\ pc = "config_opened" /\ pc' = "copy" /\ UNCHANGED loggerState
        /\ guards[2] # None /\ Write(guards[1], <<Header>>)
    BY <1>1 DEF WriteHeader, KeepLogger
  <2>2. TwoGood /\ FilesOK /\ guards[1] \in Handle
    BY <2>1 DEF StackInv, PlaceInv, TwoBad, TwoGood
  <2>3. FilesOK' /\ TwoGood' /\ UNCHANGED card
    BY <2>1, <2>2, TextOne, WriteKeepsShape
  <2>4. QED
    BY <2>1, <2>3 DEF StackInv, PlaceInv, StateInv, PC
<1>2. CASE CopyConfig
  <2>1. pc = "copy" /\ pc' = "copy" /\ UNCHANGED loggerState
    BY <1>2 DEF CopyConfig, KeepLogger
  <2>2. TwoGood /\ FilesOK
    BY <2>1 DEF StackInv, PlaceInv
  <2>3. FilesOK' /\ TwoGood' /\ UNCHANGED card
    BY <1>2, <2>2, CopyKeepsShape DEF CopyConfig
  <2>4. QED
    BY <2>1, <2>3 DEF StackInv, PlaceInv, StateInv, PC
<1>3. CASE WriteRecord
  <2>1. /\ pc = "run" /\ pc' = "run_end" /\ UNCHANGED <<loggerState, managerStatus>>
        /\ guards[1] # None /\ Write(guards[1], <<Record(records + 1)>>)
    BY <1>3 DEF WriteRecord, Write
  <2>2. OneGood /\ FilesOK /\ guards[1] \in Handle
    BY <2>1 DEF StackInv, PlaceInv, OneBad, OneGood
  <2>3. FilesOK' /\ OneGood' /\ UNCHANGED card
    BY <2>1, <2>2, TextOne, WriteKeepsShape
  <2>4. QED
    BY <2>1, <2>3 DEF StackInv, PlaceInv, StateInv, PC
<1>4. QED
  BY <1>1, <1>2, <1>3

LEMMA CloseStackInv ==
    ASSUME StackInv, EndSetup \/ EndConfig \/ EndLog \/ EndRun
    PROVE  StackInv'
<1>1. CASE EndSetup
  <2>1. pc = "setup_end" /\ pc' \in {"dir", "halt"} /\ CloseGuard
    BY <1>1 DEF EndSetup
  <2>2. FilesOK' /\ AtRest'
    BY <2>1, CloseOne DEF StackInv, PlaceInv
  <2>3. QED
    BY <2>1, <2>2 DEF StackInv, PlaceInv, StateInv, PC
<1>2. CASE EndConfig
  <2>1. pc = "config_end" /\ pc' = "log_end" /\ CloseGuard /\ UNCHANGED loggerState
    BY <1>2 DEF EndConfig, KeepLogger
  <2>2. FilesOK' /\ OneDropped' /\ UNCHANGED managerStatus
    BY <2>1, CloseTwo DEF StackInv, PlaceInv
  <2>3. QED
    BY <2>1, <2>2 DEF StackInv, PlaceInv, StateInv, PC
<1>3. CASE EndLog \/ EndRun
  <2>1. /\ pc \in {"log_end", "run_end"} /\ pc' = "wait" /\ CloseGuard
        /\ UNCHANGED loggerState
    BY <1>3 DEF EndLog, EndRun, KeepLogger
  <2>2. FilesOK' /\ AtRest' /\ UNCHANGED managerStatus
    BY <2>1, CloseOne DEF StackInv, PlaceInv
  <2>3. QED
    BY <2>1, <2>2 DEF StackInv, PlaceInv, StateInv, PC
<1>4. QED
  BY <1>1, <1>2, <1>3

LEMMA PowerOffStackInv == ASSUME StackInv, PowerOff PROVE StackInv'
<1>1. ManagerReset' /\ pc' = "off"
  BY DEF PowerOff, ManagerReset
<1>2. (StackOK /\ HandlesOK /\ AtRest /\ OnlyOpen({}))'
  BY <1>1, ResetOK, PTL
<1>3. CardOK'
  <2> DEFINE open == {h \in Handle : handle[h].open}
  <2>1. PICK k \in [open -> 0..(Chunks + 1)] :
          /\ \A h \in open : k[h] <= Len(handle[h].buf) /\ (~cardOk => k[h] = 0)
          /\ card' = [p \in DOMAIN card |->
                  card[p] \o (IF \E h \in open : handle[h].path = p
                              THEN LET h == CHOOSE h \in open : handle[h].path = p
                                   IN  SubSeq(handle[h].buf, 1, k[h])
                              ELSE <<>>)]
    BY DEF PowerOff
  <2>2. ASSUME NEW p \in DOMAIN card PROVE IsText(card'[p])
    <3> DEFINE h == CHOOSE h \in open : handle[h].path = p
    <3>1. IsText(card[p])
      BY DEF StackInv, FilesOK, CardOK
    <3>2. CASE \E g \in open : handle[g].path = p
      <4>1. h \in open /\ card'[p] = card[p] \o SubSeq(handle[h].buf, 1, k[h])
        BY <2>1, <3>2
      <4>a. k[h] \in 0..(Chunks + 1) /\ k[h] <= Len(handle[h].buf)
        BY <2>1, <4>1
      <4>b. h \in Handle
        BY <4>1
      <4>2. k[h] \in Nat /\ k[h] <= Len(handle[h].buf) /\ IsText(handle[h].buf)
        BY <4>a, <4>b, ManagerAssumption DEF StackInv, FilesOK, HandlesOK
      <4> HIDE DEF h, open
      <4>3. IsText(SubSeq(handle[h].buf, 1, k[h]))
        BY <4>2, TextPrefix
      <4>4. QED
        BY <3>1, <4>1, <4>3, TextConcat
    <3>3. CASE ~\E g \in open : handle[g].path = p
      BY <2>1, <3>1, <3>3, TextEmpty, TextConcat
    <3>4. QED
      BY <3>2, <3>3
  <2>3. DOMAIN card' = DOMAIN card /\ card' = [p \in DOMAIN card' |-> card'[p]]
    BY <2>1
  <2>4. QED
    BY <2>2, <2>3 DEF CardOK
<1>4. QED
  BY <1>1, <1>2, <1>3 DEF StackInv, FilesOK, PlaceInv, StateInv, PC

LEMMA NextStackInv == StackInv /\ [Next]_vars => StackInv'
<1> SUFFICES ASSUME StackInv, [Next]_vars PROVE StackInv'
  OBVIOUS
<1>1. CASE QuietStep
  BY <1>1, QuietStackInv
<1>2. CASE MountCard \/ OpenConfig \/ PowerOff
  BY <1>2, MountStackInv, OpenConfigStackInv, PowerOffStackInv
<1>3. CASE \E dir \in Dir : MakeDir(dir)
  BY <1>3, MakeDirStackInv
<1>4. CASE OpenSetup \/ OpenLog \/ OpenRun
  BY <1>4, OpenStackInv
<1>5. CASE WriteHeader \/ CopyConfig \/ WriteRecord
  BY <1>5, WriteStackInv
<1>6. CASE EndSetup \/ EndConfig \/ EndLog \/ EndRun
  BY <1>6, CloseStackInv
<1>7. CASE UNCHANGED vars
  <2>1. UNCHANGED <<managerVars, card>> /\ UNCHANGED <<pc, loggerState, managerStatus>>
    BY <1>7 DEF vars, managerVars, cardVars, loggerVars
  <2>2. QED
    BY <2>1, ManagerAlone DEF StackInv, PlaceInv, StateInv
<1>8. QED
  BY <1>1, <1>2, <1>3, <1>4, <1>5, <1>6, <1>7 DEF Next, QuietStep

LEMMA StackInvariant == Spec => []StackInv
BY InitStackInv, NextStackInv, PTL DEF Spec

(* RestIsClean: between two uses of the card the stack is empty and, unless *)
(* the manager has gone bad, every file is closed (sd_manager.cpp:34-50,    *)
(* 95-103), for every depth of the stack and any number of boots, periods,  *)
(* power cuts and failures.                                                 *)
THEOREM StackStaysClean == Spec => []RestIsClean
<1>1. StackInv => RestIsClean
  <2> SUFFICES ASSUME StackInv, guards = <<>> PROVE AtRest
    BY DEF RestIsClean, AtRest, OnlyOpen
  <2>1. Len(guards) = 0
    OBVIOUS
  <2>2. QED
    BY <2>1 DEF StackInv, PlaceInv, PC, OneBad, OneGood, OneFresh, TwoBad, TwoGood, OneDropped
<1>2. QED
  BY <1>1, StackInvariant, PTL

(* A logger that runs and has failed is one of a bad manager, so every      *)
(* guard it gets is bad and what is still open has nothing to write.        *)
LEMMA FailedIsSilent ==
    ASSUME StackInv, [Next]_vars, Running, loggerState = "bad"
    PROVE  card' = card
<1>1. managerStatus = "bad" /\ OpenIsEmpty /\ CardOK /\ pc \in {"wait", "run", "run_end"}
  BY DEF StackInv, FilesOK, PlaceInv, StateInv, Running, AtRest, OneBad, OneGood
<1>2. CASE QuietStep
  BY <1>2, QuietStackInv
<1>3. CASE OpenRun
  BY <1>1, <1>3 DEF OpenRun, OpenGuard, OpenRefused, OpenReuse, OpenFails, OpenSucceeds
<1>4. CASE WriteRecord
  BY <1>4, WriteStackInv
<1>5. CASE EndRun
  <2>1. OneBad /\ FilesOK
    BY <1>1, <1>5 DEF EndRun, StackInv, PlaceInv, OneGood
  <2>2. card' = Committed(CloseTop \cup CloseGone)
    BY <1>5, <2>1, CloseKeepsFiles DEF EndRun, OneBad
  <2>3. ASSUME NEW h \in CloseTop \cup CloseGone, handle[h].open
        PROVE  handle[h].buf = <<>>
    <3>1. h \in Handle
      BY <2>1, RefsAreHandles DEF CloseTop, CloseGone, FilesOK, OneBad
    <3>2. QED
      BY <1>1, <2>3, <3>1 DEF OpenIsEmpty
  <2>4. \A p \in DOMAIN card : card[p] \o <<>> = card[p]
    BY <1>1, TextKept DEF CardOK
  <2>5. Committed(CloseTop \cup CloseGone) = [p \in DOMAIN card |-> card[p]]
    BY <2>3, <2>4 DEF Committed
  <2>6. QED
    BY <1>1, <2>2, <2>5 DEF CardOK
<1>6. CASE PowerOff
  <2> DEFINE open == {h \in Handle : handle[h].open}
  <2>1. PICK k \in [open -> 0..(Chunks + 1)] :
          /\ \A h \in open : k[h] <= Len(handle[h].buf) /\ (~cardOk => k[h] = 0)
          /\ card' = [p \in DOMAIN card |->
                  card[p] \o (IF \E h \in open : handle[h].path = p
                              THEN LET h == CHOOSE h \in open : handle[h].path = p
                                   IN  SubSeq(handle[h].buf, 1, k[h])
                              ELSE <<>>)]
    BY <1>6 DEF PowerOff
  <2>2. ASSUME NEW p \in DOMAIN card PROVE card'[p] = card[p]
    <3> DEFINE h == CHOOSE h \in open : handle[h].path = p
    <3>1. card[p] \o <<>> = card[p]
      BY <1>1, TextKept DEF CardOK
    <3>2. CASE \E g \in open : handle[g].path = p
      <4>1. h \in open /\ card'[p] = card[p] \o SubSeq(handle[h].buf, 1, k[h])
        BY <2>1, <3>2
      <4>a. k[h] \in 0..(Chunks + 1) /\ k[h] <= Len(handle[h].buf)
        BY <2>1, <4>1
      <4>b. handle[h].buf = <<>>
        BY <1>1, <4>1 DEF OpenIsEmpty
      <4>2. handle[h].buf = <<>> /\ k[h] \in Nat /\ k[h] <= Len(handle[h].buf)
        BY <4>a, <4>b, ManagerAssumption
      <4> HIDE DEF h, open
      <4>3. k[h] = 0
        BY <4>2
      <4>4. SubSeq(handle[h].buf, 1, k[h]) = <<>>
        BY <4>3, SubSeqEmpty
      <4>5. QED
        BY <3>1, <4>1, <4>4
    <3>3. CASE ~\E g \in open : handle[g].path = p
      BY <2>1, <3>1, <3>3
    <3>4. QED
      BY <3>2, <3>3
  <2>3. DOMAIN card' = DOMAIN card /\ card' = [p \in DOMAIN card' |-> card'[p]]
    BY <2>1
  <2>4. QED
    BY <1>1, <2>2, <2>3 DEF CardOK
<1>7. CASE UNCHANGED vars
  BY <1>7 DEF vars, cardVars
<1>8. QED
  BY <1>1, <1>2, <1>3, <1>4, <1>5, <1>6, <1>7 DEF Next, QuietStep, MountCard, OpenSetup,
     EndSetup, MakeDir, OpenLog, OpenConfig, WriteHeader, CopyConfig, EndConfig, EndLog

(* FailedLoggerIsSilent: log() goes on in a bad state (sd_logger.hpp:82-84) *)
(* and still nothing reaches the card in that boot.                         *)
THEOREM FailureIsSilent == Spec => FailedLoggerIsSilent
<1>1. StackInv /\ [Next]_vars => [Running /\ loggerState = "bad" => card' = card]_vars
  BY FailedIsSilent
<1>2. QED
  BY <1>1, StackInvariant, PTL DEF Spec, FailedLoggerIsSilent
=============================================================================
