------------------------- MODULE SDLoggerLogsProofs -------------------------
(***************************************************************************)
(* The logs of earlier boots, for any number of boots and directories: the *)
(* number of files in a directory is a name no file of it has, because     *)
(* every log but the first has a predecessor; and only the log of this     *)
(* boot is ever written.                                                   *)
(***************************************************************************)
EXTENDS SDLoggerProofs, FiniteSetTheorems

LogFile(d, i) == [dir |-> d, n |-> i]

(* the logs of a directory are numbered without gaps *)
Numbered ==
    \A d \in Dir : \A n \in 0..(MaxFiles - 1) : \A i \in 0..(n - 1) :
      LogFile(d, n) \in DOMAIN card => LogFile(d, i) \in DOMAIN card

AfterDir   == PC \ {"off", "mount", "setup", "build", "setup_end", "halt", "dir"}
AfterCount == AfterDir \ {"count", "counting"}

FilenameOK ==
    pc \in AfterDir =>
      /\ filename.dir \in Dir /\ filename.n \in Nat
      /\ filename = LogFile(filename.dir, filename.n)
      /\ \A i \in 0..(MaxFiles - 1) :
           i < filename.n => LogFile(filename.dir, i) \in DOMAIN card

OldLogs == DOMAIN atBoot \cap LogPath
OwnLog  == ~miscounted => filename \notin OldLogs

(* what is written goes to the log of this boot *)
OnlyLogWritten ==
    \A h \in Handle :
      handle[h].open /\ handle[h].buf # <<>> => handle[h].path = filename /\ OwnLog

GuardOfLog ==
    pc \in {"log_opened", "config_opened", "copy", "config_end", "log_end", "run", "run_end"}
      /\ guards[1] # None
        => handle[guards[1]].path = filename /\ OwnLog

CountInv ==
    /\ pc \notin AfterCount \cup {"off"} => DOMAIN card \cap LogPath = OldLogs /\ ~miscounted
    /\ pc \in AfterCount /\ managerStatus = "good" => OwnLog

LogsInv ==
    /\ Numbered /\ FilenameOK /\ OnlyLogWritten /\ GuardOfLog /\ CountInv
    /\ EarlierLogsKept

-----------------------------------------------------------------------------
(* How many files a directory has is the number of none of them.            *)
LEMMA CountIsFree ==
    ASSUME NEW d \in Dir, Numbered
    PROVE  /\ Cardinality(Entries(d)) \in Nat
           /\ LogFile(d, Cardinality(Entries(d))) \notin Entries(d)
           /\ \A i \in 0..(MaxFiles - 1) :
                i < Cardinality(Entries(d)) => LogFile(d, i) \in DOMAIN card
<1> DEFINE S == {p \in LogPath \cap DOMAIN card : p.dir = d}
           c == Cardinality(S)
<1>1. MaxFiles \in Nat
  BY ManagerAssumption
<1>2. \A p \in S : p = LogFile(d, p.n) /\ p.n \in 0..(MaxFiles - 1)
  BY DEF LogPath, LogFile
<1>3. \A i \in 0..(MaxFiles - 1) : LogFile(d, i) \in S <=> LogFile(d, i) \in DOMAIN card
  BY DEF LogPath, LogFile
<1>4. \A i : LogFile(d, i).n = i
  BY DEF LogFile
<1> HIDE DEF S
<1>5. ASSUME NEW m \in Int, \A p \in S : p.n \in 0..m
      PROVE  IsFiniteSet(S) /\ Cardinality(S) <= Cardinality(0..m)
  <2> DEFINE f == [p \in S |-> p.n]
  <2>1. f \in [S -> 0..m]
    BY <1>5
  <2>2. \A p, q \in S : f[p] = f[q] => p = q
    BY <1>2
  <2>3. f \in Injection(S, 0..m)
    BY <2>1, <2>2 DEF Injection, IsInjective
  <2>4. IsFiniteSet(0..m)
    BY FS_Interval
  <2> HIDE DEF f
  <2>5. QED
    BY <2>3, <2>4, FS_Injection
<1>6. IsFiniteSet(S) /\ c \in Nat
  <2>1. IsFiniteSet(S)
    BY <1>1, <1>2, <1>5
  <2>2. QED
    BY <2>1, FS_CardinalityType
<1>7. LogFile(d, c) \notin S
  <2> SUFFICES ASSUME LogFile(d, c) \in S PROVE FALSE
    OBVIOUS
  <2>1. c \in 0..(MaxFiles - 1)
    BY <1>2, <1>4
  <2>2. \A i \in 0..c : LogFile(d, i) \in S
    BY <1>1, <1>3, <2>1 DEF Numbered
  <2> DEFINE f == [i \in 0..c |-> LogFile(d, i)]
  <2>3. f \in [0..c -> S]
    BY <2>2
  <2>4. \A i, j \in 0..c : f[i] = f[j] => i = j
    BY <1>4
  <2>5. f \in Injection(0..c, S)
    BY <2>3, <2>4 DEF Injection, IsInjective
  <2> HIDE DEF f
  <2>6. Cardinality(0..c) <= Cardinality(S)
    BY <1>6, <2>5, FS_Injection
  <2>7. Cardinality(0..c) = c + 1
    BY <1>6, FS_Interval
  <2>8. QED
    BY <1>6, <2>6, <2>7
<1>8. ASSUME NEW i \in 0..(MaxFiles - 1), i < c, LogFile(d, i) \notin DOMAIN card
      PROVE  FALSE
  <2>1. ASSUME NEW p \in S PROVE p.n \in 0..(i - 1)
    <3>1. p = LogFile(d, p.n) /\ p.n \in 0..(MaxFiles - 1) /\ p \in DOMAIN card
      BY <1>2, <1>3, <2>1
    <3>2. p.n # i
      BY <1>8, <3>1
    <3>3. ~(i < p.n)
      BY <1>1, <1>8, <3>1 DEF Numbered
    <3>4. QED
      BY <1>1, <3>1, <3>2, <3>3
  <2>2. Cardinality(S) <= Cardinality(0..(i - 1))
    BY <1>1, <1>5, <2>1
  <2>3. Cardinality(0..(i - 1)) = i
    BY <1>1, FS_Interval
  <2>4. QED
    BY <1>1, <1>6, <1>8, <2>2, <2>3
<1>9. QED
  BY <1>6, <1>7, <1>8 DEF S, Entries

-----------------------------------------------------------------------------
(* No file that is open has something to write to p. *)
NotWritten(p) ==
    \A h \in Handle : handle[h].open /\ handle[h].buf # <<>> => handle[h].path # p

LEMMA CommittedKeeps ==
    ASSUME FilesOK, NEW hs \in SUBSET Handle, NEW p \in DOMAIN card, NotWritten(p)
    PROVE  Committed(hs)[p] = card[p]
<1>1. CASE cardOk /\ \E h \in hs : handle[h].open /\ handle[h].path = p
  <2> DEFINE h == CHOOSE h \in hs : handle[h].open /\ handle[h].path = p
  <2>1. h \in Handle /\ handle[h].open /\ handle[h].path = p
    BY <1>1
  <2>2. handle[h].buf = <<>>
    BY <2>1 DEF NotWritten
  <2>3. Committed(hs)[p] = card[p] \o handle[h].buf
    BY <1>1 DEF Committed
  <2> HIDE DEF h
  <2>4. QED
    BY <2>2, <2>3, TextKept DEF FilesOK, CardOK
<1>2. CASE ~(cardOk /\ \E h \in hs : handle[h].open /\ handle[h].path = p)
  BY <1>2 DEF Committed
<1>3. QED
  BY <1>1, <1>2

(* what open() does to the files on the card and to those that are open     *)
OpenEffect(path, mode, create) ==
    /\ DOMAIN card \subseteq DOMAIN card' /\ DOMAIN card' \subseteq DOMAIN card \cup {path}
    /\ mode = "read" /\ ~create => DOMAIN card' = DOMAIN card
    /\ managerStatus # "good" => card' = card
    /\ \A p \in DOMAIN card \ {path} : NotWritten(p) => card'[p] = card[p]
    /\ \A h \in Handle :
         handle'[h].open /\ handle'[h].buf # <<>> =>
           handle[h].open /\ handle[h].buf # <<>> /\ handle'[h].path = handle[h].path
    /\ Len(guards') = Len(guards) + 1
    /\ \A i \in 1..Len(guards) :
         /\ guards'[i] = guards[i]
         /\ guards[i] \in Handle => handle'[guards[i]].path = handle[guards[i]].path
    /\ guards'[Len(guards) + 1] # None =>
         managerStatus = "good" /\ handle'[guards'[Len(guards) + 1]].path = path

LEMMA OpenHasEffect ==
    ASSUME FilesOK, AtRest \/ OneFresh, NEW path, NEW mode, NEW create,
           create \in BOOLEAN, OpenGuard(path, mode, create)
    PROVE  OpenEffect(path, mode, create)
<1>1. PtrAfterDrop = 0 /\ ~ReusesTop
  BY DEF AtRest, OneFresh, OneGood, PtrAfterDrop, ReusesTop, Available
<1>0. Len(guards) \in Nat
  BY DEF AtRest, OneFresh, OneGood
<1>2. CASE OpenRefused \/ OpenFails(path, mode, create)
  <2>1. /\ guards' = Append(guards, None) /\ UNCHANGED handle
        /\ card' = card \/ (card' = Created(path, create) /\ managerStatus = "good")
    BY <1>2 DEF OpenRefused, OpenFails, GuardBad
  <2>2. /\ Len(guards') = Len(guards) + 1 /\ guards'[Len(guards) + 1] = None
        /\ \A i \in 1..Len(guards) : guards'[i] = guards[i]
    BY <2>1, GuardAdded DEF FilesOK
  <2>3. CASE card' = card
    BY <2>1, <2>2, <2>3 DEF OpenEffect
  <2>4. CASE card' = Created(path, create) /\ managerStatus = "good"
    <3>1. /\ DOMAIN card \subseteq DOMAIN card' /\ DOMAIN card' \subseteq DOMAIN card \cup {path}
          /\ ~create => DOMAIN card' = DOMAIN card
          /\ \A p \in DOMAIN card \ {path} : card'[p] = card[p]
      BY <2>4 DEF Created
    <3>2. QED
      BY <2>1, <2>2, <2>4, <3>1 DEF OpenEffect
  <2>5. QED
    BY <2>1, <2>3, <2>4
<1>3. CASE OpenSucceeds(path, mode, create)
  <2> DEFINE h     == FreshHandle
             stack == [fileStack EXCEPT ![PtrAfterDrop] = h]
             gone  == Referenced(fileStack, guards) \ (Referenced(stack, guards) \cup {None})
             kept  == Committed(gone)
             old   == IF Exists(path) /\ ~(mode = "write" /\ fileWrite = "truncate")
                      THEN kept[path] ELSE <<>>
             new   == [path |-> path, open |-> TRUE, buf |-> <<>>,
                       left |-> IF mode = "read" THEN Len(old) ELSE 0]
  <2>1. \E g \in Handle : g \notin Referenced(fileStack, guards)
    <3>1. Referenced(fileStack, guards) \subseteq {fileStack[0], None}
      BY DEF Referenced, AtRest, OneFresh, OneGood, FilesOK, StackOK
    <3>2. PICK g \in Handle : g # fileStack[0]
      BY NoneIsNoHandle
    <3>3. QED
      BY <3>1, <3>2, NoneIsNoHandle
  <2>2. h \in Handle /\ h \notin Referenced(fileStack, guards)
    BY <2>1 DEF FreshHandle
  <2>3. /\ guards' = Append(guards, h)
        /\ card' = [p \in DOMAIN card \cup {path} |-> IF p = path THEN old ELSE kept[p]]
        /\ handle' = [Closed(gone) EXCEPT ![h] = new]
        /\ managerStatus = "good" /\ OpensFile(path, mode, create)
    BY <1>3 DEF OpenSucceeds
  <2>4. gone \subseteq Handle
    BY RefsAreHandles DEF FilesOK
  <2> HIDE DEF h, gone
  <2>5. /\ Len(guards') = Len(guards) + 1 /\ guards'[Len(guards) + 1] = h
        /\ \A i \in 1..Len(guards) : guards'[i] = guards[i]
    BY <2>2, <2>3, GuardAdded DEF FilesOK
  <2>6. /\ handle'[h] = new /\ \A g \in Handle \ {h} : handle'[g] = Closed(gone)[g]
    BY <2>2, <2>3, <2>4, ClosedOK DEF FilesOK
  <2>7. /\ handle'[h].path = path /\ handle'[h].buf = <<>>
    BY <2>6
  <2>8. ASSUME NEW g \in Handle \ {h}
        PROVE  /\ handle'[g].path = handle[g].path
               /\ handle'[g].open /\ handle'[g].buf # <<>>
                    => handle[g].open /\ handle[g].buf # <<>>
    <3>1. handle'[g] = Closed(gone)[g]
      BY <2>6
    <3>2. /\ Closed(gone)[g].path = handle[g].path
          /\ Closed(gone)[g].open = (handle[g].open /\ g \notin gone)
          /\ Closed(gone)[g].buf = (IF g \in gone THEN <<>> ELSE handle[g].buf)
      BY <2>4, ClosedOK DEF FilesOK
    <3>3. QED
      BY <3>1, <3>2
  <2>9. \A i \in 1..Len(guards) : guards[i] # h
    BY <2>2 DEF Referenced
  <2>10. /\ DOMAIN card' = DOMAIN card \cup {path}
         /\ \A p \in DOMAIN card \ {path} : NotWritten(p) => card'[p] = card[p]
    BY <2>3, <2>4, CommittedKeeps
  <2>11. mode = "read" /\ ~create => path \in DOMAIN card
    BY <2>3 DEF OpensFile, Exists
  <2>12. \A g \in Handle :
           handle'[g].open /\ handle'[g].buf # <<>> =>
             handle[g].open /\ handle[g].buf # <<>> /\ handle'[g].path = handle[g].path
    BY <2>7, <2>8
  <2>13. \A i \in 1..Len(guards) :
           guards[i] \in Handle => handle'[guards[i]].path = handle[guards[i]].path
    BY <2>8, <2>9
  <2>14. QED
    BY <2>3, <2>5, <2>7, <2>10, <2>11, <2>12, <2>13 DEF OpenEffect
<1>4. QED
  BY <1>1, <1>2, <1>3 DEF OpenGuard, OpenReuse

LEMMA CloseHasEffect ==
    ASSUME FilesOK, Len(guards) >= 1, CloseGuard
    PROVE  /\ DOMAIN card' = DOMAIN card
           /\ \A p \in DOMAIN card : NotWritten(p) => card'[p] = card[p]
           /\ \A h \in Handle :
                /\ handle'[h].path = handle[h].path
                /\ handle'[h].open /\ handle'[h].buf # <<>>
                     => handle[h].open /\ handle[h].buf # <<>>
<1>1. CloseTop \cup CloseGone \subseteq Handle
  BY RefsAreHandles DEF CloseTop, CloseGone, FilesOK, StackOK
<1>2. /\ card' = Committed(CloseTop \cup CloseGone)
      /\ handle' = Closed(CloseTop \cup CloseGone)
  BY DEF CloseGuard, CloseTop, CloseGone
<1>3. DOMAIN card' = DOMAIN card
  BY <1>2 DEF Committed
<1>4. \A p \in DOMAIN card : NotWritten(p) => card'[p] = card[p]
  BY <1>1, <1>2, CommittedKeeps
<1>5. ASSUME NEW h \in Handle
      PROVE  /\ handle'[h].path = handle[h].path
             /\ handle'[h].open /\ handle'[h].buf # <<>>
                  => handle[h].open /\ handle[h].buf # <<>>
  <2>1. /\ handle'[h].path = handle[h].path
        /\ handle'[h].open = (handle[h].open /\ h \notin CloseTop \cup CloseGone)
        /\ handle'[h].buf = (IF h \in CloseTop \cup CloseGone THEN <<>> ELSE handle[h].buf)
    BY <1>1, <1>2, ClosedOK DEF FilesOK
  <2>2. QED
    BY <2>1
<1>6. QED
  BY <1>3, <1>4, <1>5

(* where nobody holds a file, nothing is left to be written *)
LEMMA RestHasNothing ==
    ASSUME StackOK, AtRest, NEW h \in Handle
    PROVE  ~(handle[h].open /\ handle[h].buf # <<>>)
BY DEF AtRest, StackOK, OnlyOpen, OpenIsEmpty

LEMMA FileNames ==
    /\ Config \notin LogPath
    /\ \A d \in Dir, i \in 0..(MaxFiles - 1) : LogFile(d, i) \in LogPath
    /\ \A d, e, i, j : LogFile(d, i) = LogFile(e, j) => d = e /\ i = j
    /\ \A d, i : LogFile(d, i).dir = d /\ LogFile(d, i).n = i
    /\ \A d \in Dir : \A i : LogFile(d, i) # Config
<1>1. None \notin Dir
  BY ManagerAssumption
<1>2. \A d, i : LogFile(d, i).dir = d /\ LogFile(d, i).n = i
  BY DEF LogFile
<1>3. Config.dir = None /\ \A p \in LogPath : p.dir \in Dir
  BY DEF Config, LogPath
<1>4. \A d \in Dir, i \in 0..(MaxFiles - 1) : LogFile(d, i) \in LogPath
  BY DEF LogFile, LogPath
<1>5. QED
  BY <1>1, <1>2, <1>3, <1>4

-----------------------------------------------------------------------------
(* Steps that add at most one file, and steps that change no old one. *)
LEMMA NumberedKept ==
    ASSUME Numbered, FilenameOK, NEW path,
           DOMAIN card \subseteq DOMAIN card', DOMAIN card' \subseteq DOMAIN card \cup {path},
           path = Config \/ (path = filename /\ pc \in AfterDir)
    PROVE  Numbered'
<1> SUFFICES ASSUME NEW d \in Dir, NEW n \in 0..(MaxFiles - 1), NEW i \in 0..(n - 1),
                    LogFile(d, n) \in DOMAIN card'
             PROVE  LogFile(d, i) \in DOMAIN card
  BY DEF Numbered, LogFile
<1>0. MaxFiles \in Nat
  BY ManagerAssumption
<1>1. CASE LogFile(d, n) \in DOMAIN card
  BY <1>1 DEF Numbered
<1>2. CASE LogFile(d, n) = path
  <2>1. path = filename /\ pc \in AfterDir
    BY <1>2, FileNames
  <2>2. filename.dir = d /\ filename.n = n
    BY <1>2, <2>1, FileNames
  <2>3. i \in 0..(MaxFiles - 1) /\ i < n
    BY <1>0
  <2>4. QED
    BY <2>1, <2>2, <2>3 DEF FilenameOK
<1>3. QED
  BY <1>1, <1>2

LEMMA FilenameKept ==
    ASSUME FilenameOK, UNCHANGED filename, DOMAIN card \subseteq DOMAIN card',
           pc' \in AfterDir => pc \in AfterDir
    PROVE  FilenameOK'
BY DEF FilenameOK, LogFile

LEMMA OldOnesKept ==
    ASSUME EarlierLogsKept, pc # "off", UNCHANGED <<atBoot, miscounted>>,
           DOMAIN card \subseteq DOMAIN card',
           \A p \in OldLogs \cap DOMAIN card : ~miscounted => card'[p] = card[p]
    PROVE  EarlierLogsKept'
<1> SUFFICES ASSUME ~miscounted, NEW p \in DOMAIN atBoot \cap LogPath
             PROVE  p \in DOMAIN card' /\ card'[p] = atBoot[p]
  BY DEF EarlierLogsKept
<1>1. p \in DOMAIN card /\ card[p] = atBoot[p]
  BY DEF EarlierLogsKept
<1>2. QED
  BY <1>1 DEF OldLogs

LEMMA OldNotWritten ==
    ASSUME OnlyLogWritten, ~miscounted, NEW p \in OldLogs
    PROVE  NotWritten(p)
BY DEF OnlyLogWritten, NotWritten, OwnLog

-----------------------------------------------------------------------------
(* Steps that touch neither files nor names. *)
SteadyStep ==
    \/ MountCard \/ Build \/ NoLog \/ NoConfig \/ CopyDone \/ NoRun
    \/ CardGone \/ CardBack \/ UNCHANGED vars

LEMMA SteadyLogsInv ==
    ASSUME StackInv, LogsInv, SteadyStep
    PROVE  LogsInv'
<1>1. UNCHANGED <<guards, handle, card, filename, atBoot, miscounted>>
  BY DEF SteadyStep, MountCard, Build, NoLog, NoConfig, CopyDone, NoRun, CardGone, CardBack,
         CardFails, CardAnswers, Mount, KeepCard, KeepLogger, bootVars, loggerVars, cardVars,
         managerVars, vars
<1>2. \/ UNCHANGED pc
      \/ pc = "mount" /\ pc' = "setup"
      \/ pc = "build" /\ pc' = "setup_end"
      \/ pc = "log_opened" /\ pc' = "log_end"
      \/ pc \in {"config_opened", "copy"} /\ pc' = "config_end"
      \/ pc = "run" /\ pc' = "run_end"
  BY DEF SteadyStep, MountCard, Build, NoLog, NoConfig, CopyDone, NoRun, CardGone, CardBack,
         vars, loggerVars
<1>3. pc \in AfterCount => UNCHANGED managerStatus
  BY DEF SteadyStep, MountCard, Build, NoLog, NoConfig, CopyDone, NoRun, CardGone, CardBack,
         CardFails, CardAnswers, KeepCard, managerVars, vars, AfterCount, AfterDir
<1>4. /\ pc' \in AfterDir <=> pc \in AfterDir
      /\ pc' \in AfterCount <=> pc \in AfterCount
      /\ pc' = "off" <=> pc = "off"
  BY <1>2 DEF AfterCount, AfterDir, PC
<1>5. UNCHANGED <<OwnLog, OldLogs, Numbered>>
  BY <1>1 DEF OwnLog, OldLogs, Numbered
<1>6. FilenameOK' /\ OnlyLogWritten'
  BY <1>1, <1>4, <1>5 DEF LogsInv, FilenameOK, OnlyLogWritten, LogFile
<1>7. GuardOfLog'
  BY <1>1, <1>2, <1>5 DEF LogsInv, GuardOfLog
<1>8. CountInv'
  BY <1>1, <1>3, <1>4, <1>5 DEF LogsInv, CountInv
<1>9. EarlierLogsKept'
  BY <1>1, <1>4 DEF LogsInv, EarlierLogsKept
<1>10. QED
  BY <1>5, <1>6, <1>7, <1>8, <1>9 DEF LogsInv

LEMMA PowerOnLogsInv ==
    ASSUME StackInv, LogsInv, PowerOn
    PROVE  LogsInv'
<1>1. /\ pc = "off" /\ pc' = "mount" /\ atBoot' = card
      /\ UNCHANGED <<handle, card>>
  BY DEF PowerOn, managerVars
<1>2. OldLogs' = DOMAIN card' \cap LogPath
  BY <1>1 DEF OldLogs
<1>3. OnlyLogWritten'
  BY <1>1, RestHasNothing DEF StackInv, PlaceInv, FilesOK, OnlyLogWritten
<1>4. Numbered' /\ FilenameOK' /\ GuardOfLog' /\ CountInv'
  BY <1>1, <1>2 DEF LogsInv, Numbered, FilenameOK, GuardOfLog, CountInv, AfterDir, AfterCount,
     PowerOn
<1>5. EarlierLogsKept'
  BY <1>1 DEF EarlierLogsKept
<1>6. QED
  BY <1>3, <1>4, <1>5 DEF LogsInv

LEMMA MakeDirLogsInv ==
    ASSUME StackInv, LogsInv, NEW dir \in Dir, MakeDir(dir)
    PROVE  LogsInv'
<1>1. /\ pc = "dir" /\ pc' = "count" /\ filename' = LogFile(dir, 0)
      /\ UNCHANGED <<handle, card, atBoot, miscounted>>
  BY DEF MakeDir, CreateDir, LogFile, bootVars
<1>2. OnlyLogWritten'
  BY <1>1, RestHasNothing DEF StackInv, PlaceInv, FilesOK, OnlyLogWritten
<1>3. FilenameOK'
  <2>1. filename'.dir = dir /\ filename'.n = 0
    BY <1>1, FileNames
  <2>2. \A i \in 0..(MaxFiles - 1) : ~(i < 0)
    OBVIOUS
  <2>3. QED
    BY <1>1, <2>1, <2>2 DEF FilenameOK
<1>4. Numbered' /\ GuardOfLog' /\ EarlierLogsKept'
  BY <1>1 DEF LogsInv, Numbered, GuardOfLog, EarlierLogsKept
<1>5. CountInv'
  BY <1>1 DEF LogsInv, CountInv, OldLogs, AfterDir, AfterCount
<1>6. QED
  BY <1>2, <1>3, <1>4, <1>5 DEF LogsInv

(* The count: what has been counted is there, and a count that ends with    *)
(* the card answering is the number of a log there is not.                  *)
LEMMA CountIsNew ==
    ASSUME LogsInv, CountEnds, cardOk
    PROVE  filename \notin OldLogs
<1> DEFINE d == filename.dir
           n == filename.n
           c == Cardinality(Entries(d))
<1>1. /\ pc = "counting" /\ ~NextEntry(d, n)
  BY DEF CountEnds
<1>2. d \in Dir /\ n \in Nat /\ filename = LogFile(d, n)
  BY <1>1 DEF LogsInv, FilenameOK, AfterDir, PC
<1>3. c \in Nat /\ LogFile(d, c) \notin Entries(d)
  BY <1>2, CountIsFree DEF LogsInv
<1>4. c <= n
  BY <1>1, <1>2, <1>3 DEF NextEntry
<1> SUFFICES ASSUME filename \in OldLogs PROVE FALSE
  OBVIOUS
<1>5. filename \in DOMAIN card \cap LogPath
  BY <1>1 DEF LogsInv, CountInv, OldLogs, AfterCount
<1>6. n \in 0..(MaxFiles - 1) /\ MaxFiles \in Nat
  BY <1>5, ManagerAssumption DEF LogPath
<1> HIDE DEF c, n
<1>7. c \in 0..(MaxFiles - 1) /\ (c < n => c \in 0..(n - 1))
  BY <1>3, <1>4, <1>6
<1>8. LogFile(d, c) \in DOMAIN card
  <2>1. CASE c = n
    BY <1>2, <1>5, <2>1
  <2>2. CASE c # n
    <3>1. c \in 0..(n - 1)
      BY <1>2, <1>3, <1>4, <1>7, <2>2
    <3>2. LogFile(d, n) \in DOMAIN card
      BY <1>2, <1>5
    <3>3. QED
      BY <1>2, <1>6, <3>1, <3>2 DEF LogsInv, Numbered
  <2>3. QED
    BY <2>1, <2>2
<1>9. LogFile(d, c) \in Entries(d)
  BY <1>2, <1>7, <1>8, FileNames DEF Entries, LogPath, LogFile
<1>10. QED
  BY <1>3, <1>9

CountStep == CountFiles \/ CountEntry \/ CountEnds

LEMMA CountStepLogsInv ==
    ASSUME StackInv, LogsInv, CountStep
    PROVE  LogsInv'
<1> DEFINE d == filename.dir
<1>1. /\ pc \in {"count", "counting"} /\ pc' \in {"counting", "open_log"}
      /\ filename' # filename => CountEntry
      /\ UNCHANGED <<handle, card, atBoot, managerStatus, cardOk>>
  BY DEF CountStep, CountFiles, CountEntry, CountEnds, KeepCard, managerVars, cardVars, bootVars
<1>2. d \in Dir /\ filename.n \in Nat /\ filename = LogFile(d, filename.n)
  BY <1>1 DEF LogsInv, FilenameOK, AfterDir, PC
<1>3. \A p \in OldLogs : p \in DOMAIN card /\ card[p] = atBoot[p]
  <2>1. ~miscounted /\ pc # "off"
    BY <1>1 DEF LogsInv, CountInv, AfterCount
  <2>2. QED
    BY <2>1 DEF LogsInv, EarlierLogsKept, OldLogs
<1>4. DOMAIN card \cap LogPath = OldLogs /\ ~miscounted
  BY <1>1 DEF LogsInv, CountInv, AfterCount
<1>5. FilenameOK'
  <2>1. CASE UNCHANGED filename
    BY <1>1, <2>1 DEF LogsInv, FilenameOK, AfterDir, PC
  <2>2. CASE CountEntry
    <3> DEFINE c == Cardinality(Entries(d))
    <3>1. filename' = LogFile(d, filename.n + 1) /\ filename.n < c
      BY <1>2, <2>2 DEF CountEntry, NextEntry, LogFile
    <3>2. filename'.dir = d /\ filename'.n = filename.n + 1
      BY <3>1, FileNames
    <3>3. /\ c \in Nat
          /\ \A i \in 0..(MaxFiles - 1) : i < c => LogFile(d, i) \in DOMAIN card
      BY <1>2, CountIsFree DEF LogsInv
    <3> HIDE DEF c
    <3>4. \A i \in 0..(MaxFiles - 1) : i < filename.n + 1 => i < c
      BY <1>2, <3>1, <3>3
    <3>5. QED
      BY <1>1, <1>2, <3>1, <3>2, <3>3, <3>4 DEF FilenameOK
  <2>3. QED
    BY <1>1, <2>1, <2>2
<1>6. CountInv'
  <2>1. CASE pc' = "counting"
    <3>1. ~miscounted'
      BY <1>4, <2>1 DEF CountStep, CountFiles, CountEntry, CountEnds, Lists, bootVars
    <3>2. QED
      BY <1>1, <1>4, <2>1, <3>1 DEF CountInv, AfterCount, OldLogs
  <2>2. CASE pc' = "open_log"
    <3>1. /\ CountFiles \/ CountEnds
          /\ UNCHANGED filename /\ miscounted' = ~cardOk
      BY <1>1, <2>2 DEF CountStep, CountFiles, CountEntry, CountEnds
    <3>2. managerStatus = "good" /\ cardOk => CountEnds
      BY <2>2, <3>1 DEF CountFiles, Lists
    <3>3. managerStatus = "good" /\ cardOk => filename \notin OldLogs
      BY <3>2, CountIsNew
    <3>4. managerStatus = "good" => OwnLog'
      BY <1>1, <3>1, <3>3 DEF OwnLog, OldLogs
    <3>5. pc' \in AfterCount
      BY <2>2 DEF AfterCount, AfterDir, PC
    <3>6. QED
      BY <1>1, <3>4, <3>5 DEF CountInv
  <2>3. QED
    BY <1>1, <2>1, <2>2
<1>7. OnlyLogWritten'
  BY <1>1, RestHasNothing DEF StackInv, PlaceInv, FilesOK, OnlyLogWritten
<1>8. Numbered' /\ GuardOfLog'
  BY <1>1 DEF LogsInv, Numbered, GuardOfLog
<1>9. EarlierLogsKept'
  BY <1>1, <1>3 DEF EarlierLogsKept, OldLogs
<1>10. QED
  BY <1>5, <1>6, <1>7, <1>8, <1>9 DEF LogsInv

-----------------------------------------------------------------------------
(* Opening.  The path is the log of this boot, or the configuration, which  *)
(* is opened for reading.                                                   *)
LEMMA OpenKeeps ==
    ASSUME StackInv, LogsInv, NEW path, NEW mode, NEW create,
           OpenEffect(path, mode, create),
           UNCHANGED <<filename, atBoot, miscounted>>,
           pc # "off", pc' \in AfterDir => pc \in AfterDir,
           path = Config \/ (path = filename /\ pc \in AfterCount)
    PROVE  Numbered' /\ FilenameOK' /\ OnlyLogWritten' /\ EarlierLogsKept'
<1>1. DOMAIN card \subseteq DOMAIN card' /\ DOMAIN card' \subseteq DOMAIN card \cup {path}
  BY DEF OpenEffect
<1>2. Numbered'
  BY <1>1, NumberedKept DEF LogsInv, AfterCount
<1>3. FilenameOK'
  BY <1>1, FilenameKept DEF LogsInv
<1>4. UNCHANGED <<OwnLog, OldLogs>>
  BY DEF OwnLog, OldLogs
<1>5. OnlyLogWritten'
  BY <1>4 DEF LogsInv, OnlyLogWritten, OpenEffect
<1>6. ASSUME NEW p \in OldLogs \cap DOMAIN card, ~miscounted PROVE card'[p] = card[p]
  <2>1. CASE managerStatus = "good"
    <3>1. p # path
      BY <1>6, <2>1, FileNames DEF LogsInv, CountInv, OwnLog, OldLogs
    <3>2. NotWritten(p)
      BY <1>6, OldNotWritten DEF LogsInv
    <3>3. QED
      BY <3>1, <3>2 DEF OpenEffect
  <2>2. CASE managerStatus # "good"
    BY <2>2 DEF OpenEffect
  <2>3. QED
    BY <2>1, <2>2
<1>7. EarlierLogsKept'
  BY <1>1, <1>6, OldOnesKept DEF LogsInv
<1>8. QED
  BY <1>2, <1>3, <1>5, <1>7

LEMMA OpenConfigLogsInv ==
    ASSUME StackInv, LogsInv, OpenSetup \/ OpenConfig
    PROVE  LogsInv'
<1>1. /\ \/ pc = "setup" /\ pc' = "build"
         \/ pc = "log_opened" /\ pc' = "config_opened" /\ guards[1] # None
      /\ UNCHANGED <<filename, atBoot, miscounted>>
      /\ OpenGuard(Config, "read", FALSE)
  BY DEF OpenSetup, OpenConfig, KeepLogger, bootVars
<1>2. FilesOK /\ (AtRest \/ OneFresh)
  BY <1>1 DEF StackInv, PlaceInv, OneBad
<1>3. OpenEffect(Config, "read", FALSE)
  BY <1>1, <1>2, OpenHasEffect
<1>4. pc # "off" /\ (pc' \in AfterDir => pc \in AfterDir)
  BY <1>1 DEF AfterDir, PC
<1>5. Numbered' /\ FilenameOK' /\ OnlyLogWritten' /\ EarlierLogsKept'
  BY <1>1, <1>3, <1>4, OpenKeeps
<1>6. UNCHANGED <<OwnLog, OldLogs>>
  BY <1>1 DEF OwnLog, OldLogs
<1>7. GuardOfLog'
  <2>1. CASE pc = "setup"
    BY <1>1, <2>1 DEF GuardOfLog
  <2>2. CASE pc = "log_opened"
    <3>1. guards[1] \in Handle /\ Len(guards) = 1
      BY <1>1, <2>2 DEF StackInv, PlaceInv, OneBad, OneFresh, OneGood
    <3>2. guards'[1] = guards[1] /\ handle'[guards[1]].path = handle[guards[1]].path
      BY <1>3, <3>1 DEF OpenEffect
    <3>3. handle[guards[1]].path = filename /\ OwnLog
      BY <1>1, <2>2 DEF LogsInv, GuardOfLog
    <3>4. QED
      BY <1>1, <1>6, <3>2, <3>3 DEF GuardOfLog
  <2>3. QED
    BY <1>1, <2>1, <2>2
<1>8. CountInv'
  <2>1. DOMAIN card' = DOMAIN card
    BY <1>3 DEF OpenEffect
  <2>2. CASE pc = "setup"
    BY <1>1, <1>6, <2>1, <2>2 DEF LogsInv, CountInv, AfterCount, AfterDir
  <2>3. CASE pc = "log_opened"
    <3>1. managerStatus = "good"
      BY <1>1, <2>3 DEF StackInv, PlaceInv, OneBad, OneFresh, OneGood
    <3>2. OwnLog
      BY <2>3, <3>1 DEF LogsInv, CountInv, AfterCount, AfterDir, PC
    <3>3. QED
      BY <1>1, <1>6, <2>3, <3>2 DEF CountInv, AfterCount, AfterDir, PC
  <2>4. QED
    BY <1>1, <2>2, <2>3
<1>9. QED
  BY <1>5, <1>7, <1>8 DEF LogsInv

LEMMA OpenLogLogsInv ==
    ASSUME StackInv, LogsInv, OpenLog \/ OpenRun
    PROVE  LogsInv'
<1>1. PICK create \in BOOLEAN :
      /\ \/ pc = "open_log" /\ pc' = "log_opened"
         \/ pc = "wait" /\ pc' = "run"
      /\ UNCHANGED <<filename, atBoot, miscounted>>
      /\ OpenGuard(filename, "write", create)
  BY DEF OpenLog, OpenRun, KeepLogger, bootVars
<1>2. FilesOK /\ AtRest /\ Len(guards) = 0
  BY <1>1 DEF StackInv, PlaceInv, AtRest
<1>3. OpenEffect(filename, "write", create)
  BY <1>1, <1>2, OpenHasEffect
<1>4. pc # "off" /\ pc \in AfterCount /\ pc' \in AfterCount /\ pc \in AfterDir
  BY <1>1 DEF AfterDir, AfterCount, PC
<1>5. Numbered' /\ FilenameOK' /\ OnlyLogWritten' /\ EarlierLogsKept'
  BY <1>1, <1>3, <1>4, OpenKeeps
<1>6. UNCHANGED <<OwnLog, OldLogs>>
  BY <1>1 DEF OwnLog, OldLogs
<1>7. managerStatus = "good" => OwnLog
  BY <1>4 DEF LogsInv, CountInv
<1>8. guards'[1] # None => managerStatus = "good" /\ handle'[guards'[1]].path = filename
  BY <1>2, <1>3 DEF OpenEffect
<1>9. GuardOfLog'
  BY <1>1, <1>6, <1>7, <1>8 DEF GuardOfLog
<1>10. managerStatus' = "good" => managerStatus = "good"
  BY <1>1 DEF OpenGuard, OpenRefused, OpenReuse, OpenFails, OpenSucceeds
<1>11. CountInv'
  BY <1>4, <1>6, <1>7, <1>10 DEF CountInv
<1>12. QED
  BY <1>5, <1>9, <1>11 DEF LogsInv

-----------------------------------------------------------------------------
(* Writing goes through the guard of the log. *)
LEMMA WriteLogsInv ==
    ASSUME StackInv, LogsInv, WriteHeader \/ CopyConfig \/ WriteRecord
    PROVE  LogsInv'
<1>1. /\ \/ pc = "config_opened" /\ pc' = "copy"
         \/ pc = "copy" /\ pc' = "copy"
         \/ pc = "run" /\ pc' = "run_end"
      /\ UNCHANGED <<filename, atBoot, miscounted, guards, card, managerStatus>>
  BY DEF WriteHeader, CopyConfig, WriteRecord, Write, CopyChunk, KeepLogger, bootVars, cardVars
<1>2. guards[1] \in Handle /\ FilesOK
  <2>1. CASE WriteHeader
    BY <2>1 DEF WriteHeader, StackInv, PlaceInv, TwoBad, TwoGood
  <2>2. CASE CopyConfig
    BY <2>2 DEF CopyConfig, StackInv, PlaceInv, TwoGood
  <2>3. CASE WriteRecord
    BY <2>3 DEF WriteRecord, StackInv, PlaceInv, OneBad, OneGood
  <2>4. QED
    BY <2>1, <2>2, <2>3
<1>3. handle[guards[1]].path = filename /\ OwnLog
  BY <1>1, <1>2, NoneIsNoHandle DEF LogsInv, GuardOfLog
<1>4. \A h \in Handle :
        /\ handle'[h].path = handle[h].path
        /\ h # guards[1] => handle'[h].open = handle[h].open /\ handle'[h].buf = handle[h].buf
  <2>1. CASE WriteHeader \/ WriteRecord
    <3>1. PICK items : handle' = [handle EXCEPT ![guards[1]].buf = @ \o items]
      BY <2>1 DEF WriteHeader, WriteRecord, Write
    <3>2. QED
      BY <1>2, <3>1 DEF FilesOK, HandlesOK
  <2>2. CASE CopyConfig
    <3>1. PICK left, e : handle' = [handle EXCEPT ![guards[2]].left = left,
                                                  ![guards[1]].buf = e]
      BY <2>2 DEF CopyConfig, CopyChunk
    <3>2. guards[2] \in Handle /\ guards[2] # guards[1]
      BY <2>2 DEF CopyConfig, StackInv, PlaceInv, TwoGood
    <3>3. QED
      BY <1>2, <3>1, <3>2 DEF FilesOK, HandlesOK
  <2>3. QED
    BY <2>1, <2>2
<1>5. UNCHANGED <<OwnLog, OldLogs, Numbered>>
  BY <1>1 DEF OwnLog, OldLogs, Numbered
<1>6. OnlyLogWritten'
  BY <1>1, <1>3, <1>4, <1>5 DEF LogsInv, OnlyLogWritten
<1>7. GuardOfLog'
  BY <1>1, <1>2, <1>3, <1>4, <1>5 DEF GuardOfLog
<1>8. {pc, pc'} \subseteq AfterCount /\ {pc, pc'} \subseteq AfterDir /\ pc # "off" /\ pc' # "off"
  BY <1>1 DEF AfterCount, AfterDir, PC
<1>9. FilenameOK' /\ CountInv' /\ EarlierLogsKept'
  BY <1>1, <1>5, <1>8 DEF LogsInv, FilenameOK, LogFile, CountInv, EarlierLogsKept
<1>10. QED
  BY <1>5, <1>6, <1>7, <1>9 DEF LogsInv

-----------------------------------------------------------------------------
LEMMA CloseLogsInv ==
    ASSUME StackInv, LogsInv, EndSetup \/ EndConfig \/ EndLog \/ EndRun
    PROVE  LogsInv'
<1>1. /\ \/ pc = "setup_end" /\ pc' \in {"dir", "halt"}
         \/ pc = "config_end" /\ pc' = "log_end"
         \/ pc \in {"log_end", "run_end"} /\ pc' = "wait"
      /\ CloseGuard
      /\ UNCHANGED <<filename, atBoot, miscounted, managerStatus>>
  BY DEF EndSetup, EndConfig, EndLog, EndRun, CloseGuard, KeepLogger, bootVars
<1>2. FilesOK /\ Len(guards) >= 1
  BY <1>1 DEF StackInv, PlaceInv, OneBad, OneGood, TwoBad, TwoGood, OneDropped
<1>3. /\ DOMAIN card' = DOMAIN card
      /\ \A p \in DOMAIN card : NotWritten(p) => card'[p] = card[p]
      /\ \A h \in Handle :
           /\ handle'[h].path = handle[h].path
           /\ handle'[h].open /\ handle'[h].buf # <<>> => handle[h].open /\ handle[h].buf # <<>>
  BY <1>1, <1>2, CloseHasEffect
<1>4. UNCHANGED <<OwnLog, OldLogs>> /\ Numbered'
  BY <1>1, <1>3 DEF OwnLog, OldLogs, LogsInv, Numbered
<1>5. /\ pc' \in AfterDir <=> pc \in AfterDir
      /\ pc' \in AfterCount <=> pc \in AfterCount
      /\ pc # "off" /\ pc' # "off"
  BY <1>1 DEF AfterCount, AfterDir, PC
<1>6. FilenameOK'
  BY <1>1, <1>3, <1>5, FilenameKept DEF LogsInv
<1>7. OnlyLogWritten'
  BY <1>1, <1>3, <1>4 DEF LogsInv, OnlyLogWritten
<1>8. GuardOfLog'
  <2>1. CASE pc' = "log_end"
    <3>1. pc = "config_end" /\ guards[1] \in Handle /\ guards[1] # None
      BY <1>1, <2>1, NoneIsNoHandle DEF StackInv, PlaceInv, TwoBad, TwoGood
    <3>2. handle[guards[1]].path = filename /\ OwnLog
      BY <3>1 DEF LogsInv, GuardOfLog
    <3>3. guards'[1] = guards[1]
      <4>1. Len(guards) = 2
        BY <3>1 DEF StackInv, PlaceInv, TwoBad, TwoGood
      <4>2. QED
        BY <1>1, <1>2, <4>1, CloseKeepsFiles
    <3>4. QED
      BY <1>1, <1>3, <1>4, <2>1, <3>1, <3>2, <3>3 DEF GuardOfLog
  <2>2. CASE pc' # "log_end"
    BY <1>1, <2>2 DEF GuardOfLog
  <2>3. QED
    BY <2>1, <2>2
<1>9. CountInv'
  BY <1>1, <1>3, <1>4, <1>5 DEF LogsInv, CountInv
<1>10. ASSUME NEW p \in OldLogs \cap DOMAIN card, ~miscounted PROVE card'[p] = card[p]
  BY <1>3, <1>10, OldNotWritten DEF LogsInv
<1>11. EarlierLogsKept'
  BY <1>1, <1>3, <1>5, <1>10, OldOnesKept DEF LogsInv
<1>12. QED
  BY <1>4, <1>6, <1>7, <1>8, <1>9, <1>11 DEF LogsInv

LEMMA PowerOffLogsInv ==
    ASSUME StackInv, LogsInv, PowerOff
    PROVE  LogsInv'
<1>1. /\ pc' = "off" /\ DOMAIN card' = DOMAIN card /\ handle' = [h \in Handle |-> NoFile]
  BY DEF PowerOff
<1>2. Numbered' /\ FilenameOK' /\ GuardOfLog' /\ CountInv' /\ EarlierLogsKept'
  BY <1>1 DEF LogsInv, Numbered, FilenameOK, GuardOfLog, CountInv, EarlierLogsKept, AfterDir,
     AfterCount
<1>3. OnlyLogWritten'
  BY <1>1 DEF OnlyLogWritten, NoFile
<1>4. QED
  BY <1>2, <1>3 DEF LogsInv

LEMMA InitLogsInv == Init => LogsInv
<1> SUFFICES ASSUME Init PROVE LogsInv
  OBVIOUS
<1>1. pc = "off" /\ DOMAIN card \subseteq {Config}
  BY DEF Init, CardInit
<1>2. Numbered
  BY <1>1, FileNames DEF Numbered
<1>3. OnlyLogWritten
  BY DEF Init, ManagerReset, NoFile, OnlyLogWritten
<1>4. FilenameOK /\ GuardOfLog /\ CountInv /\ EarlierLogsKept
  BY <1>1 DEF FilenameOK, GuardOfLog, CountInv, EarlierLogsKept, AfterDir, AfterCount
<1>5. QED
  BY <1>2, <1>3, <1>4 DEF LogsInv

LEMMA NextLogsInv == StackInv /\ LogsInv /\ [Next]_vars => LogsInv'
<1> SUFFICES ASSUME StackInv, LogsInv, [Next]_vars PROVE LogsInv'
  OBVIOUS
<1>1. CASE SteadyStep
  BY <1>1, SteadyLogsInv
<1>2. CASE PowerOn \/ CountStep \/ PowerOff
  BY <1>2, PowerOnLogsInv, CountStepLogsInv, PowerOffLogsInv
<1>3. CASE \E dir \in Dir : MakeDir(dir)
  BY <1>3, MakeDirLogsInv
<1>4. CASE OpenSetup \/ OpenLog \/ OpenConfig \/ OpenRun
  BY <1>4, OpenConfigLogsInv, OpenLogLogsInv
<1>5. CASE WriteHeader \/ CopyConfig \/ WriteRecord
  BY <1>5, WriteLogsInv
<1>6. CASE EndSetup \/ EndConfig \/ EndLog \/ EndRun
  BY <1>6, CloseLogsInv
<1>7. QED
  BY <1>1, <1>2, <1>3, <1>4, <1>5, <1>6 DEF Next, SteadyStep, CountStep

(* EarlierLogsKept: no boot touches a log of an earlier one                 *)
(* (sd_logger.hpp:39-46), however often the power and the card fail and     *)
(* whatever FILE_WRITE does, unless the card did not answer when the count  *)
(* of the files ended.                                                      *)
THEOREM OldLogsStay == Spec => []EarlierLogsKept
<1>1. Spec => []LogsInv
  BY InitLogsInv, NextLogsInv, StackInvariant, PTL DEF Spec
<1>2. LogsInv => EarlierLogsKept
  BY DEF LogsInv
<1>3. QED
  BY <1>1, <1>2, PTL

-----------------------------------------------------------------------------
(* The record of a period that ended well is the end of the log. *)
OpenLogFile ==
    /\ guards[1] \in Handle /\ handle[guards[1]].open
    /\ handle[guards[1]].path = filename /\ filename \in DOMAIN card

RecordInv ==
    /\ pc # "off" /\ ~cardFailed => cardOk
    /\ records \in Nat
    /\ pc \notin {"off", "wait", "run", "run_end"} => records = 0
    /\ pc = "run" /\ guards[1] # None => OpenLogFile
    /\ pc = "run_end" /\ loggerState = "good" =>
         /\ OpenLogFile
         /\ handle[guards[1]].buf # <<>>
         /\ Last(handle[guards[1]].buf) = Record(records)
    /\ LatestRecordIsLast

LEMMA LastOfConcat ==
    ASSUME NEW a, NEW b, IsText(a), IsText(b), b # <<>>
    PROVE  a \o b # <<>> /\ Last(a \o b) = Last(b)
<1>1. PICK S : a \in Seq(S)
  BY DEF IsText
<1>2. PICK T : b \in Seq(T)
  BY DEF IsText
<1> DEFINE U == S \cup T
<1>3. a \in Seq(U) /\ b \in Seq(U)
  BY <1>1, <1>2, SeqMonotonic
<1> HIDE DEF U
<1>4. Len(a) \in Nat /\ Len(b) \in Nat \ {0}
  BY <1>3, EmptySeq
<1>5. Len(a \o b) = Len(a) + Len(b) /\ (a \o b)[Len(a) + Len(b)] = b[Len(b)]
  BY <1>3, <1>4
<1>6. a \o b # <<>>
  BY <1>4, <1>5
<1>7. QED
  BY <1>5, <1>6 DEF Last

LEMMA OpenRunRecordInv ==
    ASSUME StackInv, RecordInv, OpenRun
    PROVE  RecordInv'
<1>1. /\ pc = "wait" /\ pc' = "run" /\ OpenGuard(filename, "write", FALSE)
      /\ UNCHANGED <<filename, records, cardFailed, cardOk>>
  BY DEF OpenRun, KeepLogger, bootVars, OpenGuard, OpenRefused, OpenReuse, OpenFails,
         OpenSucceeds, GuardBad, cardVars
<1>2. FilesOK /\ AtRest /\ PtrAfterDrop = 0 /\ ~ReusesTop
  BY <1>1 DEF StackInv, PlaceInv, AtRest, PtrAfterDrop, ReusesTop
<1>3. ASSUME guards'[1] # None PROVE OpenLogFile'
  <2>1. CASE OpenRefused \/ OpenFails(filename, "write", FALSE)
    <3>1. guards' = Append(guards, None)
      BY <2>1 DEF OpenRefused, OpenFails, GuardBad
    <3>2. guards'[1] = None
      BY <1>2, <3>1, GuardAdded DEF FilesOK, AtRest
    <3>3. QED
      BY <1>3, <3>2
  <2>2. CASE OpenSucceeds(filename, "write", FALSE)
    <3>1. \E g \in Handle : g \notin Referenced(fileStack, guards)
      <4>1. Referenced(fileStack, guards) \subseteq {fileStack[0], None}
        BY <1>2 DEF Referenced, AtRest, FilesOK, StackOK
      <4>2. PICK g \in Handle : g # fileStack[0]
        BY NoneIsNoHandle
      <4>3. QED
        BY <4>1, <4>2, NoneIsNoHandle
    <3>2. PICK h \in Handle :
            /\ guards' = Append(guards, h)
            /\ handle'[h].open /\ handle'[h].path = filename /\ filename \in DOMAIN card'
      BY <1>2, <2>2, <3>1, GuardWithFile
    <3>3. guards'[1] = h
      BY <1>2, <3>2, GuardAdded DEF FilesOK, AtRest
    <3>4. QED
      BY <1>1, <3>2, <3>3 DEF OpenLogFile
  <2>3. QED
    BY <1>1, <1>2, <2>1, <2>2 DEF OpenGuard, OpenReuse
<1>4. QED
  BY <1>1, <1>3 DEF RecordInv, LatestRecordIsLast

LEMMA WriteRecordRecordInv ==
    ASSUME StackInv, RecordInv, WriteRecord
    PROVE  RecordInv'
<1> DEFINE g == guards[1]
<1>1. /\ pc = "run" /\ pc' = "run_end" /\ g # None /\ records' = records + 1
      /\ handle' = [handle EXCEPT ![g].buf = @ \o <<Record(records + 1)>>]
      /\ UNCHANGED <<filename, cardFailed, cardOk, guards, card>>
  BY DEF WriteRecord, Write, bootVars, cardVars
<1>2. OpenLogFile /\ g \in Handle /\ HandlesOK
  BY <1>1 DEF RecordInv, OpenLogFile, StackInv, FilesOK
<1>3. /\ handle'[g].open = handle[g].open /\ handle'[g].path = handle[g].path
      /\ handle'[g].buf = handle[g].buf \o <<Record(records + 1)>>
  BY <1>1, <1>2 DEF HandlesOK
<1>4. /\ handle'[g].buf # <<>>
      /\ Last(handle'[g].buf) = Record(records + 1)
  <2>1. IsText(handle[g].buf) /\ IsText(<<Record(records + 1)>>)
    BY <1>2, TextOne DEF HandlesOK
  <2>2. Last(<<Record(records + 1)>>) = Record(records + 1)
    BY DEF Last
  <2>3. QED
    BY <1>3, <2>1, <2>2, LastOfConcat
<1>5. OpenLogFile'
  BY <1>1, <1>2, <1>3 DEF OpenLogFile
<1>6. QED
  BY <1>1, <1>4, <1>5 DEF RecordInv, LatestRecordIsLast

LEMMA EndRunRecordInv ==
    ASSUME StackInv, RecordInv, EndRun
    PROVE  RecordInv'
<1> DEFINE g == guards[1]
           hs == CloseTop \cup CloseGone
<1>1. /\ pc = "run_end" /\ pc' = "wait" /\ CloseGuard
      /\ UNCHANGED <<loggerState, filename, records, cardFailed, cardOk>>
  BY DEF EndRun, CloseGuard, KeepLogger, bootVars
<1>2. ASSUME loggerState = "good", ~cardFailed
      PROVE  /\ filename \in DOMAIN card' /\ card'[filename] # <<>>
             /\ Last(card'[filename]) = Record(records)
  <2>1. /\ OpenLogFile /\ handle[g].buf # <<>> /\ Last(handle[g].buf) = Record(records)
        /\ cardOk
    BY <1>1, <1>2 DEF RecordInv
  <2>2. OneGood /\ FilesOK
    BY <1>1, <2>1, NoneIsNoHandle DEF StackInv, PlaceInv, OneBad, OpenLogFile
  <2>3. g \in hs /\ card' = Committed(hs) /\ hs \subseteq Handle
    <3>1. g \in hs
      BY <2>2, NoneIsNoHandle DEF OneGood, CloseTop
    <3>2. card' = Committed(hs)
      BY <1>1 DEF CloseGuard, CloseTop, CloseGone
    <3>3. hs \subseteq Handle
      BY <2>2, RefsAreHandles DEF CloseTop, CloseGone, FilesOK, OneGood
    <3>4. QED
      BY <3>1, <3>2, <3>3
  <2>4. (CHOOSE h \in hs : handle[h].open /\ handle[h].path = filename) = g
    <3>1. \A h \in hs : handle[h].open => h = g
      BY <2>2, <2>3 DEF OneGood, OnlyOpen
    <3>2. handle[g].open /\ handle[g].path = filename
      BY <2>1 DEF OpenLogFile
    <3>3. QED
      BY <2>3, <3>1, <3>2
  <2>5. card'[filename] = card[filename] \o handle[g].buf
    <3>1. filename \in DOMAIN card /\ cardOk
      BY <2>1 DEF OpenLogFile
    <3>2. \E h \in hs : handle[h].open /\ handle[h].path = filename
      BY <2>1, <2>3 DEF OpenLogFile
    <3>3. QED
      BY <2>3, <2>4, <3>1, <3>2 DEF Committed
  <2>6. IsText(card[filename]) /\ IsText(handle[g].buf)
    BY <2>1, <2>2 DEF OpenLogFile, FilesOK, CardOK, HandlesOK
  <2>7. filename \in DOMAIN card'
    BY <2>1, <2>3 DEF OpenLogFile, Committed
  <2>8. QED
    BY <2>1, <2>5, <2>6, <2>7, LastOfConcat
<1>3. LatestRecordIsLast'
  BY <1>1, <1>2 DEF LatestRecordIsLast
<1>4. QED
  BY <1>1, <1>3 DEF RecordInv

(* every other step leaves the records and what they are in alone *)
OtherStep ==
    \/ PowerOn \/ MountCard \/ OpenSetup \/ Build \/ EndSetup
    \/ \E dir \in Dir : MakeDir(dir)
    \/ CountStep \/ OpenLog \/ NoLog \/ OpenConfig \/ NoConfig \/ WriteHeader
    \/ CopyConfig \/ CopyDone \/ EndConfig \/ EndLog \/ NoRun
    \/ PowerOff \/ CardGone \/ CardBack \/ UNCHANGED vars

LEMMA OtherRecordInv ==
    ASSUME StackInv, RecordInv, OtherStep
    PROVE  RecordInv'
<1>1. CASE PowerOn
  BY <1>1 DEF PowerOn, RecordInv, LatestRecordIsLast
<1>2. CASE PowerOff
  BY <1>2 DEF PowerOff, RecordInv, LatestRecordIsLast, KeepLogger
<1>3. CASE CardGone \/ CardBack \/ UNCHANGED vars
  <2>1. UNCHANGED <<pc, loggerState, filename, records, managerVars, card>>
    BY <1>3 DEF CardGone, CardBack, CardFails, CardAnswers, vars, loggerVars, cardVars
  <2>2. pc' # "off" /\ ~cardFailed' => cardOk'
    BY <1>3 DEF CardGone, CardBack, CardFails, CardAnswers, vars, loggerVars, cardVars,
       bootVars, RecordInv
  <2>3. ~cardFailed' => ~cardFailed
    BY <1>3 DEF CardGone, CardBack, vars, loggerVars, bootVars
  <2>4. QED
    BY <2>1, <2>2, <2>3 DEF RecordInv, LatestRecordIsLast, OpenLogFile, managerVars
<1>4. CASE NoRun
  BY <1>4 DEF NoRun, KeepCard, cardVars, bootVars, RecordInv, LatestRecordIsLast
<1>5. CASE \/ MountCard \/ OpenSetup \/ Build \/ EndSetup \/ \E dir \in Dir : MakeDir(dir)
           \/ CountStep \/ OpenLog \/ NoLog \/ OpenConfig \/ NoConfig \/ WriteHeader
           \/ CopyConfig \/ CopyDone \/ EndConfig \/ EndLog
  <2>1. /\ pc \notin {"off", "wait", "run", "run_end"} /\ pc' \notin {"off", "run", "run_end"}
        /\ UNCHANGED <<records, cardFailed, cardOk>>
    BY <1>5 DEF MountCard, OpenSetup, Build, EndSetup, MakeDir, CountStep, CountFiles,
       CountEntry, CountEnds, OpenLog, NoLog, OpenConfig, NoConfig, WriteHeader, CopyConfig, CopyDone, EndConfig, EndLog, KeepLogger,
       KeepCard, bootVars, cardVars, Mount, CreateDir, OpenGuard, OpenRefused, OpenReuse,
       OpenFails, OpenSucceeds, GuardBad, CloseGuard, Write, CopyChunk
  <2>2. records = 0
    BY <2>1 DEF RecordInv
  <2>3. QED
    BY <2>1, <2>2 DEF RecordInv, LatestRecordIsLast
<1>6. QED
  BY <1>1, <1>2, <1>3, <1>4, <1>5 DEF OtherStep

LEMMA RecordInvariant == Spec => []RecordInv
<1>1. Init => RecordInv
  BY DEF Init, CardInit, RecordInv, LatestRecordIsLast
<1>2. StackInv /\ RecordInv /\ [Next]_vars => RecordInv'
  BY OpenRunRecordInv, WriteRecordRecordInv, EndRunRecordInv, OtherRecordInv
     DEF Next, OtherStep, CountStep
<1>3. QED
  BY <1>1, <1>2, StackInvariant, PTL DEF Spec

(* LatestRecordIsLast: after a period that ended well, on a card that has   *)
(* answered since the power came on, its record is the last of the log      *)
(* (sd_logger.hpp:81-117), with either FILE_WRITE.                          *)
THEOREM LatestRecordStays == Spec => []LatestRecordIsLast
<1>1. RecordInv => LatestRecordIsLast
  BY DEF RecordInv
<1>2. QED
  BY <1>1, RecordInvariant, PTL
=============================================================================
