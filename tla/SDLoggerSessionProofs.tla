------------------------ MODULE SDLoggerSessionProofs ------------------------
(***************************************************************************)
(* What the files hold: the types of everything the logger keeps; what a   *)
(* log has in it at every point of a boot where FILE_WRITE appends; and    *)
(* what remains of that when the card fails and whatever FILE_WRITE does.  *)
(***************************************************************************)
EXTENDS SDLoggerLogsProofs

(* no boot leaves more than one log behind *)
Logs      == DOMAIN card \cap LogPath
AfterOpen == {"log_opened", "config_opened", "copy", "config_end", "log_end", "wait", "run",
              "run_end"}
BeforeLog == PC \ (AfterOpen \cup {"off"})

LogsCounted ==
    /\ IsFiniteSet(Logs)
    /\ pc = "off" => Cardinality(Logs) <= boots
    /\ pc \in BeforeLog => Cardinality(Logs) < boots
    /\ pc \in AfterOpen => Cardinality(Logs \cup {filename}) <= boots

(* the configuration is never written *)
CardTyped ==
    /\ DOMAIN card \subseteq Path
    /\ \A p \in DOMAIN card : card[p] \in Seq(Item)
    /\ Config \in DOMAIN card => card[Config] = ConfigText

HandlesTyped ==
    \A h \in Handle :
      /\ handle[h].path \in Path \cup {None} /\ handle[h].left \in 0..Chunks
      /\ handle[h].buf \in Seq(Item)
      /\ handle[h].open /\ handle[h].buf # <<>> => handle[h].path \in LogPath

LoggerTyped ==
    /\ boots \in 0..MaxBoots
    /\ filename \in LogPath \cup {None}
    /\ pc \in AfterDir => filename \in LogPath
    /\ records \in 0..MaxRecords
    /\ pc = "run" => records < MaxRecords
    /\ loggerState \in {"good", "bad"} /\ configOk \in BOOLEAN
    /\ DOMAIN atBoot \subseteq Path
    /\ miscounted \in BOOLEAN /\ cardFailed \in BOOLEAN

SlotTyped == dirs \subseteq Dir /\ cardOk \in BOOLEAN /\ fileWrite \in FileWriteModes

TypedInv == LogsCounted /\ CardTyped /\ HandlesTyped /\ LoggerTyped /\ SlotTyped
-----------------------------------------------------------------------------
LEMMA ItemTypes ==
    /\ Header \in Item /\ \A i \in Nat : Record(i) \in Item /\ Chunk(i) \in Item
    /\ Chunks \in Nat \ {0} /\ ConfigText \in Seq(Item) /\ Len(ConfigText) = Chunks
    /\ \A i \in 1..Chunks : ConfigText[i] = Chunk(i)
<1>1. Header \in Item /\ \A i \in Nat : Record(i) \in Item /\ Chunk(i) \in Item
  BY DEF Header, Record, Chunk, Item
<1>2. Chunks \in Nat \ {0}
  BY ManagerAssumption
<1>3. ConfigText \in [1..Chunks -> Item]
  BY <1>1, <1>2 DEF ConfigText
<1>4. ConfigText \in Seq(Item) /\ Len(ConfigText) = Chunks
  BY <1>2, <1>3
<1>5. QED
  BY <1>1, <1>2, <1>4 DEF ConfigText

LEMMA CommittedItems ==
    ASSUME CardTyped, HandlesTyped, FilesOK, NEW hs \in SUBSET Handle
    PROVE  LET C == Committed(hs) IN
           /\ DOMAIN C = DOMAIN card
           /\ \A p \in DOMAIN card : C[p] \in Seq(Item)
           /\ Config \in DOMAIN card => C[Config] = ConfigText
<1>1. ASSUME NEW p \in DOMAIN card PROVE Committed(hs)[p] \in Seq(Item)
  <2>1. CASE cardOk /\ \E h \in hs : handle[h].open /\ handle[h].path = p
    <3> DEFINE h == CHOOSE h \in hs : handle[h].open /\ handle[h].path = p
    <3>1. h \in Handle
      BY <2>1
    <3>2. Committed(hs)[p] = card[p] \o handle[h].buf
      BY <2>1 DEF Committed
    <3> HIDE DEF h
    <3>3. card[p] \in Seq(Item) /\ handle[h].buf \in Seq(Item)
      BY <3>1 DEF CardTyped, HandlesTyped
    <3>4. QED
      BY <3>2, <3>3, ConcatProperties
  <2>2. CASE ~(cardOk /\ \E h \in hs : handle[h].open /\ handle[h].path = p)
    BY <2>2 DEF Committed, CardTyped
  <2>3. QED
    BY <2>1, <2>2
<1>2. NotWritten(Config)
  BY FileNames DEF NotWritten, HandlesTyped
<1>3. Config \in DOMAIN card => Committed(hs)[Config] = card[Config]
  BY <1>2, CommittedKeeps
<1>4. DOMAIN Committed(hs) = DOMAIN card
  BY DEF Committed
<1>5. QED
  BY <1>1, <1>3, <1>4 DEF CardTyped

(* where a guard is asked for, nothing is waiting to be written *)
LEMMA NothingToWrite ==
    ASSUME StackOK, AtRest \/ OneFresh
    PROVE  \A p : NotWritten(p)
BY DEF AtRest, OneFresh, OneGood, StackOK, OnlyOpen, OpenIsEmpty, NotWritten

(* what a guard that got its file finds in it *)
Opened(path, mode) ==
    IF path \in DOMAIN card /\ ~(mode = "write" /\ fileWrite = "truncate")
    THEN card[path] ELSE <<>>

CardOpened(path, mode) ==
    /\ DOMAIN card' = DOMAIN card \cup {path} /\ card'[path] = Opened(path, mode)
    /\ \A p \in DOMAIN card \ {path} : card'[p] = card[p]

GuardOpened(path, mode, h) ==
    /\ guards'[Len(guards) + 1] = h
    /\ \A i \in 1..Len(guards) : guards[i] # h
    /\ handle'[h] = [path |-> path, open |-> TRUE, buf |-> <<>>,
                     left |-> IF mode = "read" THEN Len(Opened(path, mode)) ELSE 0]
    /\ \A g \in Handle \ {h} :
         /\ handle'[g].path = handle[g].path /\ handle'[g].left = handle[g].left
         /\ handle'[g].open => handle[g].open
         /\ handle'[g].buf \in {<<>>, handle[g].buf}

GuardsKept ==
    /\ Len(guards') = Len(guards) + 1
    /\ \A i \in 1..Len(guards) :
         /\ guards'[i] = guards[i]
         /\ guards[i] \in Handle => handle'[guards[i]] = handle[guards[i]]

LEMMA OpenContents ==
    ASSUME FilesOK, AtRest \/ OneFresh, NEW path, NEW mode, NEW create,
           OpenSucceeds(path, mode, create)
    PROVE  /\ managerStatus = "good" /\ managerStatus' = "good" /\ cardOk
           /\ mode = "read" /\ ~create => path \in DOMAIN card
           /\ CardOpened(path, mode) /\ GuardsKept
           /\ \E h \in Handle : GuardOpened(path, mode, h)
<1> DEFINE h     == FreshHandle
           stack == [fileStack EXCEPT ![PtrAfterDrop] = h]
           gone  == Referenced(fileStack, guards) \ (Referenced(stack, guards) \cup {None})
           kept  == Committed(gone)
           old   == IF Exists(path) /\ ~(mode = "write" /\ fileWrite = "truncate")
                    THEN kept[path] ELSE <<>>
           new   == [path |-> path, open |-> TRUE, buf |-> <<>>,
                     left |-> IF mode = "read" THEN Len(old) ELSE 0]
<1>0. Len(guards) \in Nat
  BY DEF AtRest, OneFresh, OneGood
<1>1. \E g \in Handle : g \notin Referenced(fileStack, guards)
  <2>1. Referenced(fileStack, guards) \subseteq {fileStack[0], None}
    BY DEF Referenced, AtRest, OneFresh, OneGood, FilesOK, StackOK
  <2>2. PICK g \in Handle : g # fileStack[0]
    BY NoneIsNoHandle
  <2>3. QED
    BY <2>1, <2>2, NoneIsNoHandle
<1>2. h \in Handle /\ h \notin Referenced(fileStack, guards)
  BY <1>1 DEF FreshHandle
<1>3. /\ guards' = Append(guards, h)
      /\ card' = [p \in DOMAIN card \cup {path} |-> IF p = path THEN old ELSE kept[p]]
      /\ handle' = [Closed(gone) EXCEPT ![h] = new]
      /\ managerStatus = "good" /\ managerStatus' = "good" /\ OpensFile(path, mode, create)
  BY DEF OpenSucceeds
<1>4. gone \subseteq Handle /\ \A i \in 1..Len(guards) : guards[i] \notin gone
  BY RefsAreHandles DEF FilesOK, Referenced
<1> HIDE DEF h, gone
<1>5. /\ Len(guards') = Len(guards) + 1 /\ guards'[Len(guards) + 1] = h
      /\ \A i \in 1..Len(guards) : guards'[i] = guards[i]
  BY <1>2, <1>3, GuardAdded DEF FilesOK
<1>6. /\ handle'[h] = new /\ \A g \in Handle \ {h} : handle'[g] = Closed(gone)[g]
  BY <1>2, <1>3, <1>4, ClosedOK DEF FilesOK
<1>7. \A i \in 1..Len(guards) : guards[i] # h
  BY <1>2 DEF Referenced
<1>8. \A p \in DOMAIN card : kept[p] = card[p]
  BY <1>4, NothingToWrite, CommittedKeeps DEF FilesOK
<1>9. old = Opened(path, mode)
  BY <1>8 DEF Opened, Exists
<1>10. ASSUME NEW i \in 1..Len(guards), guards[i] \in Handle
       PROVE  handle'[guards[i]] = handle[guards[i]]
  <2>1. handle'[guards[i]] = Closed(gone)[guards[i]] /\ guards[i] \notin gone
    BY <1>4, <1>6, <1>7, <1>10
  <2>2. QED
    BY <1>10, <2>1 DEF Closed
<1>11. ASSUME NEW g \in Handle \ {h}
       PROVE  /\ handle'[g].path = handle[g].path /\ handle'[g].left = handle[g].left
              /\ handle'[g].open => handle[g].open
              /\ handle'[g].buf \in {<<>>, handle[g].buf}
  <2>1. handle'[g] = Closed(gone)[g]
    BY <1>6
  <2>2. /\ Closed(gone)[g].path = handle[g].path /\ Closed(gone)[g].left = handle[g].left
        /\ Closed(gone)[g].open = (handle[g].open /\ g \notin gone)
        /\ Closed(gone)[g].buf = (IF g \in gone THEN <<>> ELSE handle[g].buf)
    BY <1>4, ClosedOK DEF FilesOK
  <2>3. QED
    BY <2>1, <2>2
<1>12. cardOk /\ (mode = "read" /\ ~create => path \in DOMAIN card)
  BY <1>3 DEF OpensFile, Exists
<1>13. CardOpened(path, mode)
  <2> HIDE DEF old, kept
  <2>1. card' = [p \in DOMAIN card \cup {path} |-> IF p = path THEN old ELSE kept[p]]
    BY <1>3
  <2>2. DOMAIN card' = DOMAIN card \cup {path} /\ card'[path] = old
    BY <2>1
  <2>3. ASSUME NEW p \in DOMAIN card \ {path} PROVE card'[p] = card[p]
    BY <1>8, <2>1
  <2>4. QED
    BY <1>9, <2>2, <2>3 DEF CardOpened
<1>14. GuardsKept
  BY <1>5, <1>10 DEF GuardsKept
<1>15. GuardOpened(path, mode, h)
  BY <1>5, <1>6, <1>7, <1>9, <1>11 DEF GuardOpened
<1>16. QED
  BY <1>2, <1>3, <1>12, <1>13, <1>14, <1>15

-----------------------------------------------------------------------------
(* Type correctness, by what the steps do to the files. *)
StillStep ==
    \/ PowerOn \/ MountCard \/ Build \/ \E dir \in Dir : MakeDir(dir)
    \/ CountStep \/ NoLog \/ NoConfig \/ CopyDone \/ NoRun
    \/ CardGone \/ CardBack \/ UNCHANGED vars

LEMMA StillFiles == ASSUME StillStep PROVE UNCHANGED <<card, handle, guards>>
BY DEF StillStep, PowerOn, MountCard, Build, MakeDir, CountStep, CountFiles, CountEntry, CountEnds,
       NoLog, NoConfig, CopyDone, NoRun, CardGone, CardBack, CardFails, CardAnswers, Mount, CreateDir, KeepCard,
       managerVars, cardVars, vars

OpenStep  == OpenSetup \/ OpenLog \/ OpenConfig \/ OpenRun
WriteStep == WriteHeader \/ CopyConfig \/ WriteRecord
CloseStep == EndSetup \/ EndConfig \/ EndLog \/ EndRun

LEMMA NextSteps ==
    [Next]_vars => StillStep \/ OpenStep \/ WriteStep \/ CloseStep \/ PowerOff
BY DEF Next, StillStep, CountStep, OpenStep, WriteStep, CloseStep

(* which file a guard is asked for, and how *)
LEMMA OpenCalls ==
    ASSUME StackInv, OpenStep
    PROVE  /\ AtRest \/ OneFresh
           /\ UNCHANGED <<filename, records, atBoot, boots, configOk, miscounted, cardFailed>>
           /\ \/ /\ pc = "setup" /\ pc' = "build" /\ OpenGuard(Config, "read", FALSE)
                 /\ UNCHANGED loggerState
              \/ /\ pc = "open_log" /\ pc' = "log_opened" /\ OpenGuard(filename, "write", TRUE)
                 /\ UNCHANGED loggerState
              \/ /\ pc = "log_opened" /\ pc' = "config_opened"
                 /\ OpenGuard(Config, "read", FALSE) /\ loggerState' = "good" /\ OneFresh
              \/ /\ pc = "wait" /\ pc' = "run" /\ OpenGuard(filename, "write", FALSE)
                 /\ records < MaxRecords /\ UNCHANGED loggerState
<1>1. CASE OpenSetup \/ OpenLog \/ OpenRun
  BY <1>1 DEF OpenSetup, OpenLog, OpenRun, KeepLogger, bootVars, StackInv, PlaceInv
<1>2. CASE OpenConfig
  BY <1>2 DEF OpenConfig, bootVars, StackInv, PlaceInv, OneBad
<1>3. QED
  BY <1>1, <1>2 DEF OpenStep

LEMMA OpenOutcome ==
    ASSUME FilesOK, AtRest \/ OneFresh, NEW path, NEW mode, NEW create,
           OpenGuard(path, mode, create)
    PROVE  /\ UNCHANGED <<dirs, cardOk, fileWrite>>
           /\ \/ OpenSucceeds(path, mode, create)
              \/ /\ guards' = Append(guards, None) /\ UNCHANGED handle
                 /\ managerStatus' = "bad"
                 /\ card' \in {card, Created(path, create)}
<1>1. ~ReusesTop
  BY DEF AtRest, OneFresh, OneGood, ReusesTop, Available
<1>2. QED
  BY <1>1 DEF OpenGuard, OpenRefused, OpenReuse, OpenFails, OpenSucceeds, GuardBad, FilesOK,
     StackOK

LEMMA TypedLogger ==
    ASSUME StackInv, LogsInv, TypedInv, [Next]_vars
    PROVE  LoggerTyped' /\ SlotTyped'
<1>1. CASE StillStep
  <2>1. CASE CountStep
    <3>1. /\ pc \in {"count", "counting"} /\ pc' \in {"counting", "open_log"}
          /\ filename' # filename => CountEntry
          /\ UNCHANGED <<records, boots, atBoot, cardFailed, configOk, loggerState>>
          /\ UNCHANGED <<dirs, cardOk, fileWrite>> /\ miscounted' \in {miscounted, ~cardOk}
      BY <2>1 DEF CountStep, CountFiles, CountEntry, CountEnds, KeepCard, cardVars, bootVars
    <3>2. filename \in LogPath
      BY <3>1 DEF TypedInv, LoggerTyped, AfterDir, PC
    <3>3. ASSUME CountEntry PROVE filename' \in LogPath
      <4> DEFINE d == filename.dir
      <4>1. filename' = LogFile(d, filename.n + 1) /\ filename.n < Cardinality(Entries(d))
        BY <3>2, <3>3 DEF CountEntry, NextEntry, LogFile, LogPath
      <4>2. Entries(d) \subseteq Logs /\ IsFiniteSet(Logs) /\ Cardinality(Logs) < boots
        BY <3>1 DEF Entries, Logs, TypedInv, LogsCounted, BeforeLog, AfterOpen, PC
      <4>3. /\ Cardinality(Entries(d)) \in Nat /\ Cardinality(Logs) \in Nat
            /\ Cardinality(Entries(d)) <= Cardinality(Logs)
        BY <4>2, FS_Subset, FS_CardinalityType
      <4>4. boots \in Nat /\ boots <= MaxBoots /\ MaxBoots <= MaxFiles
            /\ MaxBoots \in Nat /\ MaxFiles \in Nat
        BY LoggerAssumption, ManagerAssumption DEF TypedInv, LoggerTyped
      <4>5. d \in Dir /\ filename.n \in 0..(MaxFiles - 1)
        BY <3>2 DEF LogPath
      <4>6. filename.n + 1 \in 0..(MaxFiles - 1)
        BY <4>1, <4>2, <4>3, <4>4, <4>5
      <4>7. QED
        BY <4>1, <4>5, <4>6, FileNames
    <3>4. filename' \in LogPath
      BY <3>1, <3>2, <3>3
    <3>5. QED
      BY <3>1, <3>4 DEF TypedInv, LoggerTyped, SlotTyped, AfterDir, PC
  <2>2. CASE \E dir \in Dir : MakeDir(dir)
    <3>1. PICK dir \in Dir : MakeDir(dir)
      BY <2>2
    <3>2. /\ pc = "dir" /\ pc' = "count" /\ filename' = LogFile(dir, 0)
          /\ UNCHANGED <<records, bootVars, configOk, loggerState, cardOk, fileWrite>>
          /\ dirs' \in {dirs, dirs \cup {dir}}
      BY <3>1 DEF MakeDir, CreateDir, LogFile
    <3>3. 0 \in 0..(MaxFiles - 1)
      <4>1. IsFiniteSet(Logs) /\ Cardinality(Logs) < boots
        BY <3>2 DEF TypedInv, LogsCounted, BeforeLog, AfterOpen, PC
      <4>2. Cardinality(Logs) \in Nat
        BY <4>1, FS_CardinalityType
      <4>3. QED
        BY <4>1, <4>2, LoggerAssumption, ManagerAssumption DEF TypedInv, LoggerTyped
    <3>4. filename' \in LogPath
      BY <3>2, <3>3, FileNames
    <3>5. QED
      BY <3>2, <3>4 DEF TypedInv, LoggerTyped, SlotTyped, AfterDir, PC, bootVars
  <2>3. CASE PowerOn
    <3>1. /\ boots \in Nat /\ boots < MaxBoots /\ boots' = boots + 1 /\ pc' = "mount"
          /\ filename' = None /\ records' = 0 /\ atBoot' = card /\ loggerState' = "bad"
          /\ UNCHANGED <<dirs, fileWrite>>
      BY <2>3, LoggerAssumption DEF PowerOn, TypedInv, LoggerTyped
    <3>2. /\ configOk' \in BOOLEAN /\ miscounted' \in BOOLEAN /\ cardOk' \in BOOLEAN
          /\ cardFailed' \in BOOLEAN
      BY <2>3, Zenon DEF PowerOn
    <3>3. boots' \in 0..MaxBoots /\ records' \in 0..MaxRecords
      BY <3>1, LoggerAssumption
    <3>4. SlotTyped'
      BY <3>1, <3>2 DEF TypedInv, SlotTyped
    <3>5. QED
      BY <3>1, <3>2, <3>3, <3>4 DEF TypedInv, LoggerTyped, CardTyped, AfterDir
  <2>4. CASE CardGone \/ CardBack \/ UNCHANGED vars
    BY <2>4 DEF CardGone, CardBack, CardFails, CardAnswers, vars, cardVars, loggerVars,
       bootVars, TypedInv, LoggerTyped, SlotTyped
  <2>5. CASE Build
    <3>1. /\ pc = "build" /\ pc' = "setup_end" /\ configOk' \in BOOLEAN
          /\ UNCHANGED <<loggerState, filename, records, bootVars, cardVars>>
      BY <2>5 DEF Build, KeepCard
    <3>2. QED
      BY <3>1 DEF bootVars, cardVars, TypedInv, LoggerTyped, SlotTyped, AfterDir
  <2>6. CASE MountCard \/ NoLog \/ NoConfig \/ CopyDone \/ NoRun
    <3>1. /\ UNCHANGED <<configOk, filename, records, bootVars, cardVars>>
          /\ loggerState' \in {loggerState, "bad"}
          /\ pc' \in AfterDir => pc \in AfterDir
          /\ pc' # "run"
      BY <2>6 DEF MountCard, Mount, NoLog, NoConfig, CopyDone, NoRun, KeepCard, KeepLogger,
         AfterDir, PC
    <3>2. QED
      BY <3>1 DEF bootVars, cardVars, TypedInv, LoggerTyped, SlotTyped
  <2>7. QED
    BY <1>1, <2>1, <2>2, <2>3, <2>4, <2>5, <2>6 DEF StillStep
<1>2. CASE OpenStep
  <2>1. UNCHANGED <<dirs, cardOk, fileWrite>>
    BY <1>2, OpenCalls, OpenOutcome DEF StackInv
  <2>2. QED
    BY <1>2, <2>1, OpenCalls DEF TypedInv, LoggerTyped, SlotTyped, AfterDir, PC
<1>3. CASE WriteStep
  <2>1. CASE WriteHeader \/ CopyConfig
    BY <2>1 DEF WriteHeader, CopyConfig, Write, CopyChunk, KeepLogger, bootVars, cardVars,
       TypedInv, LoggerTyped, SlotTyped, AfterDir, PC
  <2>2. CASE WriteRecord
    BY <2>2, LoggerAssumption DEF WriteRecord, Write, bootVars, cardVars,
       TypedInv, LoggerTyped, SlotTyped, AfterDir, PC
  <2>3. QED
    BY <1>3, <2>1, <2>2 DEF WriteStep
<1>4. CASE CloseStep
  BY <1>4 DEF CloseStep, EndSetup, EndConfig, EndLog, EndRun, CloseGuard, KeepLogger, bootVars,
     TypedInv, LoggerTyped, SlotTyped, AfterDir, PC
<1>5. CASE PowerOff
  BY <1>5 DEF PowerOff, KeepLogger, bootVars, TypedInv, LoggerTyped, SlotTyped, AfterDir
<1>6. QED
  BY <1>1, <1>2, <1>3, <1>4, <1>5, NextSteps

-----------------------------------------------------------------------------
LEMMA StillTyped ==
    ASSUME TypedInv, UNCHANGED <<card, handle>>
    PROVE  CardTyped' /\ HandlesTyped'
BY DEF TypedInv, CardTyped, HandlesTyped

LEMMA OpenTyped ==
    ASSUME StackInv, TypedInv, OpenStep
    PROVE  CardTyped' /\ HandlesTyped'
<1>1. PICK path \in Path \cup {None}, mode \in {"read", "write"}, create \in BOOLEAN :
        /\ OpenGuard(path, mode, create)
        /\ (path = Config /\ mode = "read") \/ (path \in LogPath /\ mode = "write")
        /\ path = Config => create = FALSE
  <2>1. filename \in LogPath \/ pc = "setup" \/ pc = "log_opened"
    BY OpenCalls DEF TypedInv, LoggerTyped, AfterDir, PC
  <2>2. CASE OpenGuard(Config, "read", FALSE)
    BY <2>2 DEF Path
  <2>3. CASE \E create \in BOOLEAN : OpenGuard(filename, "write", create) /\ filename \in LogPath
    BY <2>3, FileNames DEF Path
  <2>4. QED
    BY <2>1, <2>2, <2>3, OpenCalls
<1>2. FilesOK /\ (AtRest \/ OneFresh)
  BY OpenCalls DEF StackInv
<1>3. CASE OpenSucceeds(path, mode, create)
  <2>1. CardOpened(path, mode) /\ (mode = "read" /\ ~create => path \in DOMAIN card)
    BY <1>2, <1>3, OpenContents
  <2>2. PICK h \in Handle : GuardOpened(path, mode, h)
    BY <1>2, <1>3, OpenContents
  <2>3. Opened(path, mode) \in Seq(Item)
    BY EmptySeq DEF Opened, TypedInv, CardTyped
  <2>4. path = Config => Opened(path, mode) = ConfigText /\ path \in DOMAIN card
    BY <1>1, <2>1, FileNames DEF Opened, TypedInv, CardTyped
  <2>5. path \in Path
    BY <1>1 DEF Path
  <2>6. CardTyped'
    <3>1. DOMAIN card' = DOMAIN card \cup {path}
      BY <2>1 DEF CardOpened
    <3>2. \A p \in DOMAIN card' : card'[p] \in Seq(Item)
      BY <2>1, <2>3 DEF CardOpened, TypedInv, CardTyped
    <3>3. Config \in DOMAIN card' => card'[Config] = ConfigText
      BY <2>1, <2>4 DEF CardOpened, TypedInv, CardTyped
    <3>4. QED
      BY <2>5, <3>1, <3>2, <3>3 DEF TypedInv, CardTyped
  <2>7. handle'[h].left \in 0..Chunks
    <3>1. CASE path = Config
      <4>1. handle'[h].left = Len(ConfigText)
        BY <1>1, <2>2, <2>4, <3>1, FileNames DEF GuardOpened
      <4>2. QED
        BY <4>1, ItemTypes
    <3>2. CASE path # Config
      BY <1>1, <2>2, <3>2, ItemTypes DEF GuardOpened
    <3>3. QED
      BY <3>1, <3>2
  <2>8. HandlesTyped'
    <3> SUFFICES ASSUME NEW g \in Handle
        PROVE /\ handle'[g].path \in Path \cup {None} /\ handle'[g].left \in 0..Chunks
              /\ handle'[g].buf \in Seq(Item)
              /\ handle'[g].open /\ handle'[g].buf # <<>> => handle'[g].path \in LogPath
      BY DEF HandlesTyped, LogPath
    <3>1. CASE g = h
      <4>1. handle'[h].path = path /\ handle'[h].buf = <<>>
        BY <2>2 DEF GuardOpened
      <4>2. QED
        BY <2>5, <2>7, <3>1, <4>1, EmptySeq
    <3>2. CASE g # h
      BY <2>2, <3>2, EmptySeq DEF GuardOpened, TypedInv, HandlesTyped
    <3>3. QED
      BY <3>1, <3>2
  <2>9. QED
    BY <2>6, <2>8
<1>4. CASE UNCHANGED handle /\ card' \in {card, Created(path, create)}
  <2>1. CASE card' = card
    BY <1>4, <2>1, StillTyped
  <2>2. CASE card' = Created(path, create) /\ card' # card
    <3>1. /\ path \notin DOMAIN card /\ path # Config
          /\ card' = [p \in DOMAIN card \cup {path} |-> IF p = path THEN <<>> ELSE card[p]]
      BY <1>1, <2>2 DEF Created, Exists
    <3>2. DOMAIN card' = DOMAIN card \cup {path}
      BY <3>1
    <3>3. CardTyped'
      BY <1>1, <3>1, <3>2, EmptySeq DEF TypedInv, CardTyped, Path
    <3>4. QED
      BY <1>4, <3>3 DEF TypedInv, HandlesTyped
  <2>3. QED
    BY <1>4, <2>1, <2>2
<1>5. QED
  BY <1>1, <1>2, <1>3, <1>4, OpenOutcome

LEMMA WriteTyped ==
    ASSUME StackInv, LogsInv, TypedInv, WriteStep
    PROVE  CardTyped' /\ HandlesTyped'
<1> DEFINE to == guards[1]
<1>1. pc \in AfterDir /\ UNCHANGED card
  BY DEF WriteStep, WriteHeader, CopyConfig, WriteRecord, Write, CopyChunk, cardVars,
         AfterDir, PC
<1>2. to \in Handle /\ HandlesOK /\ handle[to].path = filename /\ filename \in LogPath
  <2>1. to \in Handle /\ FilesOK
    BY DEF WriteStep, WriteHeader, CopyConfig, WriteRecord, StackInv, PlaceInv, OneBad,
           OneGood, TwoBad, TwoGood
  <2>2. handle[to].path = filename
    BY <2>1, NoneIsNoHandle DEF WriteStep, WriteHeader, CopyConfig, WriteRecord, LogsInv,
       GuardOfLog
  <2>3. QED
    BY <1>1, <2>1, <2>2 DEF FilesOK, TypedInv, LoggerTyped
<1>3. CASE WriteHeader \/ WriteRecord
  <2>1. PICK items \in Seq(Item) : Write(to, items)
    <3>1. records + 1 \in Nat
      BY DEF TypedInv, LoggerTyped
    <3>2. <<Header>> \in Seq(Item) /\ <<Record(records + 1)>> \in Seq(Item)
      BY <3>1, ItemTypes
    <3>3. QED
      BY <1>3, <3>2 DEF WriteHeader, WriteRecord
  <2>2. handle' = [handle EXCEPT ![to].buf = @ \o items]
    BY <2>1 DEF Write
  <2>3. handle[to].buf \o items \in Seq(Item)
    BY <1>2, ConcatProperties DEF TypedInv, HandlesTyped
  <2>4. /\ handle'[to].path = handle[to].path /\ handle'[to].left = handle[to].left
        /\ handle'[to].buf = handle[to].buf \o items
        /\ \A g \in Handle \ {to} : handle'[g] = handle[g]
    BY <1>2, <2>2 DEF HandlesOK
  <2>5. HandlesTyped'
    BY <1>2, <2>3, <2>4 DEF TypedInv, HandlesTyped, LogPath, Path
  <2>6. QED
    BY <1>1, <2>5 DEF TypedInv, CardTyped
<1>4. CASE CopyConfig
  <2> DEFINE from == guards[2]
             e == ConfigText[Chunks + 1 - handle[from].left]
  <2>1. /\ from \in Handle /\ from # to /\ handle[from].left > 0
        /\ handle' = [handle EXCEPT ![from].left = @ - 1, ![to].buf = Append(@, e)]
    BY <1>4 DEF CopyConfig, CopyChunk, StackInv, PlaceInv, TwoGood
  <2>2. handle[from].left \in 1..Chunks /\ handle[from].left - 1 \in 0..Chunks
    BY <2>1, ItemTypes DEF TypedInv, HandlesTyped
  <2>3. e \in Item
    BY <2>2, ItemTypes
  <2> HIDE DEF e, from
  <2>4. Append(handle[to].buf, e) \in Seq(Item)
    BY <1>2, <2>3, AppendProperties DEF TypedInv, HandlesTyped
  <2>5. /\ handle'[to].path = handle[to].path /\ handle'[to].left = handle[to].left
        /\ handle'[to].buf = Append(handle[to].buf, e)
        /\ handle'[from].path = handle[from].path /\ handle'[from].buf = handle[from].buf
        /\ handle'[from].left = handle[from].left - 1
        /\ handle'[from].open = handle[from].open
        /\ \A g \in Handle \ {to, from} : handle'[g] = handle[g]
    BY <1>2, <2>1 DEF HandlesOK
  <2>6. HandlesTyped'
    <3> SUFFICES ASSUME NEW g \in Handle
        PROVE /\ handle'[g].path \in Path \cup {None} /\ handle'[g].left \in 0..Chunks
              /\ handle'[g].buf \in Seq(Item)
              /\ handle'[g].open /\ handle'[g].buf # <<>> => handle'[g].path \in LogPath
      BY DEF HandlesTyped, LogPath
    <3>1. CASE g = to
      BY <1>2, <2>4, <2>5, <3>1 DEF TypedInv, HandlesTyped
    <3>2. CASE g = from
      BY <2>1, <2>2, <2>5, <3>2 DEF TypedInv, HandlesTyped
    <3>3. CASE g \notin {to, from}
      BY <2>5, <3>3 DEF TypedInv, HandlesTyped
    <3>4. QED
      BY <3>1, <3>2, <3>3
  <2>7. QED
    BY <1>1, <2>6 DEF TypedInv, CardTyped
<1>5. QED
  BY <1>3, <1>4 DEF WriteStep

LEMMA CloseCalls ==
    ASSUME StackInv, CloseStep
    PROVE  CloseGuard /\ Len(guards) >= 1 /\ FilesOK
BY DEF CloseStep, EndSetup, EndConfig, EndLog, EndRun, StackInv, PlaceInv, OneBad, OneGood,
       TwoBad, TwoGood, OneDropped

LEMMA CloseTyped ==
    ASSUME StackInv, TypedInv, CloseStep
    PROVE  CardTyped' /\ HandlesTyped'
<1> DEFINE hs == CloseTop \cup CloseGone
<1>1. FilesOK /\ card' = Committed(hs) /\ handle' = Closed(hs)
  BY CloseCalls DEF CloseGuard, CloseTop, CloseGone
<1>2. hs \subseteq Handle
  BY <1>1, RefsAreHandles DEF CloseTop, CloseGone, FilesOK, StackOK
<1> HIDE DEF hs
<1>3. CardTyped'
  BY <1>1, <1>2, CommittedItems DEF TypedInv, CardTyped
<1>4. ASSUME NEW h \in Handle
      PROVE  /\ handle'[h].path = handle[h].path /\ handle'[h].left = handle[h].left
             /\ handle'[h].buf \in {<<>>, handle[h].buf}
             /\ handle'[h].open => handle[h].open
  <2>1. /\ handle'[h].path = handle[h].path /\ handle'[h].left = handle[h].left
        /\ handle'[h].open = (handle[h].open /\ h \notin hs)
        /\ handle'[h].buf = (IF h \in hs THEN <<>> ELSE handle[h].buf)
    BY <1>1, <1>2, ClosedOK DEF FilesOK
  <2>2. QED
    BY <2>1
<1>5. HandlesTyped'
  BY <1>4, EmptySeq DEF TypedInv, HandlesTyped, LogPath, Path
<1>6. QED
  BY <1>3, <1>5

LEMMA NoFileTyped ==
    /\ NoFile.path = None /\ NoFile.open = FALSE /\ NoFile.left \in 0..Chunks
    /\ NoFile.buf \in Seq(Item)
<1>1. NoFile.path = None /\ NoFile.open = FALSE /\ NoFile.left = 0 /\ NoFile.buf = <<>>
  BY DEF NoFile
<1>2. 0 \in 0..Chunks /\ <<>> \in Seq(Item)
  BY ManagerAssumption, EmptySeq
<1>3. QED
  BY <1>1, <1>2

(* what a power cut adds to a file on the card *)
LEMMA PowerOffAdds ==
    ASSUME StackInv, HandlesTyped, CardTyped, PowerOff
    PROVE  /\ DOMAIN card' = DOMAIN card
           /\ \A p \in DOMAIN card :
                \E t \in Seq(Item) : card'[p] = card[p] \o t /\ (NotWritten(p) => t = <<>>)
<1> DEFINE open == {h \in Handle : handle[h].open}
<1>1. PICK k \in [open -> 0..(Chunks + 1)] :
        /\ \A h \in open : k[h] <= Len(handle[h].buf) /\ (~cardOk => k[h] = 0)
        /\ card' = [p \in DOMAIN card |->
                card[p] \o (IF \E h \in open : handle[h].path = p
                            THEN LET h == CHOOSE h \in open : handle[h].path = p
                                 IN  SubSeq(handle[h].buf, 1, k[h])
                            ELSE <<>>)]
  BY DEF PowerOff
<1>2. ASSUME NEW p \in DOMAIN card
      PROVE  \E t \in Seq(Item) : card'[p] = card[p] \o t /\ (NotWritten(p) => t = <<>>)
  <2> DEFINE h == CHOOSE h \in open : handle[h].path = p
  <2>1. CASE \E g \in open : handle[g].path = p
    <3>1. h \in open /\ handle[h].path = p
      BY <2>1
    <3>2. card'[p] = card[p] \o SubSeq(handle[h].buf, 1, k[h])
      BY <1>1, <2>1
    <3>3. h \in Handle /\ handle[h].open
      BY <3>1
    <3>4. k[h] \in Nat /\ k[h] <= Len(handle[h].buf) /\ handle[h].buf \in Seq(Item)
      BY <1>1, <3>1, <3>3, ManagerAssumption DEF HandlesTyped
    <3>5. NotWritten(p) => handle[h].buf = <<>>
      BY <3>1, <3>3 DEF NotWritten
    <3> HIDE DEF h, open
    <3>6. SubSeq(handle[h].buf, 1, k[h]) \in Seq(Item)
      BY <3>4
    <3>7. handle[h].buf = <<>> => SubSeq(handle[h].buf, 1, k[h]) = <<>>
      <4>1. SUFFICES ASSUME handle[h].buf = <<>> PROVE SubSeq(handle[h].buf, 1, k[h]) = <<>>
        OBVIOUS
      <4>2. k[h] = 0
        BY <3>4, <4>1
      <4>3. QED
        BY <4>1, <4>2
    <3>8. QED
      BY <3>2, <3>5, <3>6, <3>7
  <2>2. CASE ~\E g \in open : handle[g].path = p
    <3>1. card'[p] = card[p] \o <<>>
      BY <1>1, <2>2
    <3>2. <<>> \in Seq(Item)
      BY EmptySeq
    <3>3. QED
      BY <3>1, <3>2
  <2>3. QED
    BY <2>1, <2>2
<1>3. QED
  BY <1>1, <1>2

LEMMA PowerOffTyped ==
    ASSUME StackInv, TypedInv, PowerOff
    PROVE  CardTyped' /\ HandlesTyped'
<1>1. /\ DOMAIN card' = DOMAIN card
      /\ \A p \in DOMAIN card :
           \E t \in Seq(Item) : card'[p] = card[p] \o t /\ (NotWritten(p) => t = <<>>)
  BY PowerOffAdds DEF TypedInv
<1>2. ASSUME NEW p \in DOMAIN card
      PROVE  card'[p] \in Seq(Item) /\ (NotWritten(p) => card'[p] = card[p])
  <2>1. card[p] \in Seq(Item)
    BY DEF TypedInv, CardTyped
  <2>2. PICK t \in Seq(Item) : card'[p] = card[p] \o t /\ (NotWritten(p) => t = <<>>)
    BY <1>1
  <2>3. card[p] \o t \in Seq(Item)
    BY <2>1, ConcatProperties
  <2>4. card[p] \o <<>> = card[p]
    BY <2>1, ConcatEmptySeq
  <2>5. QED
    BY <2>2, <2>3, <2>4
<1>3. NotWritten(Config)
  BY FileNames DEF NotWritten, TypedInv, HandlesTyped
<1>4. CardTyped'
  BY <1>1, <1>2, <1>3 DEF TypedInv, CardTyped
<1>5. handle' = [h \in Handle |-> NoFile]
  BY DEF PowerOff
<1>6. HandlesTyped'
  BY <1>5, NoFileTyped DEF HandlesTyped
<1>7. QED
  BY <1>4, <1>6

LEMMA CountedStep ==
    ASSUME StackInv, LogsInv, TypedInv, [Next]_vars
    PROVE  LogsCounted'
<1>0. boots \in Nat /\ IsFiniteSet(Logs)
  BY DEF TypedInv, LoggerTyped, LogsCounted
<1>1. /\ IsFiniteSet(Logs \cup {filename})
      /\ Cardinality(Logs) \in Nat /\ Cardinality(Logs \cup {filename}) \in Nat
      /\ Cardinality(Logs) <= Cardinality(Logs \cup {filename})
      /\ Cardinality(Logs \cup {filename}) <= Cardinality(Logs) + 1
  <2>1. /\ IsFiniteSet(Logs \cup {filename})
        /\ \/ Cardinality(Logs \cup {filename}) = Cardinality(Logs)
           \/ Cardinality(Logs \cup {filename}) = Cardinality(Logs) + 1
    BY <1>0, FS_AddElement
  <2>2. Cardinality(Logs) \in Nat
    BY <1>0, FS_CardinalityType
  <2>3. QED
    BY <2>1, <2>2
<1>2. CASE StillStep
  <2>1. Logs' = Logs
    BY <1>2, StillFiles DEF Logs
  <2>2. CASE PowerOn
    BY <1>0, <1>1, <2>1, <2>2 DEF PowerOn, TypedInv, LogsCounted, BeforeLog, AfterOpen
  <2>3. CASE ~PowerOn
    <3>1. UNCHANGED boots /\ (pc \in AfterOpen => UNCHANGED filename)
      BY <1>2, <2>3 DEF StillStep, MountCard, Build, MakeDir, CountStep,
         CountFiles, CountEntry, CountEnds, NoLog, NoConfig, CopyDone, NoRun, CardGone, CardBack, KeepLogger, bootVars, loggerVars, vars, AfterOpen
    <3>2. /\ pc' = "off" <=> pc = "off"
          /\ pc' \in BeforeLog <=> pc \in BeforeLog
          /\ pc' \in AfterOpen <=> pc \in AfterOpen
      BY <1>2, <2>3 DEF StillStep, MountCard, Build, MakeDir, CountStep,
         CountFiles, CountEntry, CountEnds, NoLog, NoConfig, CopyDone, NoRun, CardGone, CardBack, loggerVars, vars, AfterOpen, BeforeLog, PC
    <3>3. QED
      BY <2>1, <3>1, <3>2 DEF TypedInv, LogsCounted
  <2>4. QED
    BY <2>2, <2>3
<1>3. CASE WriteStep \/ CloseStep
  <2>1. DOMAIN card' = DOMAIN card
    <3>1. CASE WriteStep
      BY <3>1 DEF WriteStep, WriteHeader, CopyConfig, WriteRecord, Write, CopyChunk, cardVars
    <3>2. CASE CloseStep
      BY <3>2, CloseCalls, CloseHasEffect
    <3>3. QED
      BY <1>3, <3>1, <3>2
  <2>2. Logs' = Logs /\ UNCHANGED <<boots, filename>>
    BY <1>3, <2>1 DEF Logs, WriteStep, WriteHeader, CopyConfig, WriteRecord, CloseStep,
       EndSetup, EndConfig, EndLog, EndRun, KeepLogger, bootVars
  <2>3. /\ pc' = "off" <=> pc = "off"
        /\ pc' \in BeforeLog <=> pc \in BeforeLog
        /\ pc' \in AfterOpen <=> pc \in AfterOpen
    BY <1>3 DEF WriteStep, WriteHeader, CopyConfig, WriteRecord, CloseStep,
       EndSetup, EndConfig, EndLog, EndRun, AfterOpen, BeforeLog, PC
  <2>4. QED
    BY <2>2, <2>3 DEF TypedInv, LogsCounted
<1>4. CASE OpenStep
  <2>0. FilesOK /\ (AtRest \/ OneFresh) /\ UNCHANGED <<filename, boots>>
    BY <1>4, OpenCalls DEF StackInv
  <2>1. CASE OpenGuard(Config, "read", FALSE) /\ (pc' \in AfterOpen <=> pc \in AfterOpen)
             /\ (pc' \in BeforeLog <=> pc \in BeforeLog) /\ pc # "off" /\ pc' # "off"
    <3>1. DOMAIN card' = DOMAIN card
      BY <2>0, <2>1, OpenHasEffect DEF OpenEffect
    <3>2. QED
      BY <2>0, <2>1, <3>1 DEF Logs, TypedInv, LogsCounted
  <2>2. CASE /\ \E create \in BOOLEAN : OpenGuard(filename, "write", create)
             /\ pc \in {"open_log", "wait"} /\ pc' \in AfterOpen
    <3>1. /\ DOMAIN card \subseteq DOMAIN card' /\ DOMAIN card' \subseteq DOMAIN card \cup {filename}
      BY <2>0, <2>2, OpenHasEffect DEF OpenEffect
    <3>2. Logs' \subseteq Logs \cup {filename} /\ Logs' \cup {filename} = Logs \cup {filename}
      BY <3>1 DEF Logs
    <3>3. IsFiniteSet(Logs')
      BY <1>1, <3>2, FS_Subset
    <3>4. Cardinality(Logs \cup {filename}) <= boots
      BY <1>0, <1>1, <2>2 DEF TypedInv, LogsCounted, BeforeLog, AfterOpen, PC
    <3>5. pc' # "off" /\ pc' \notin BeforeLog
      BY <2>2 DEF BeforeLog, AfterOpen
    <3>6. QED
      BY <2>0, <3>2, <3>3, <3>4, <3>5 DEF LogsCounted
  <2>3. QED
    BY <1>4, <2>1, <2>2, OpenCalls DEF AfterOpen, BeforeLog, PC
<1>5. CASE PowerOff
  <2>1. Logs' = Logs /\ UNCHANGED boots /\ pc' = "off" /\ pc # "off" /\ pc \in PC
    BY <1>5 DEF PowerOff, Logs, KeepLogger, bootVars, StackInv
  <2>2. Cardinality(Logs) <= boots
    BY <1>0, <1>1, <2>1 DEF TypedInv, LogsCounted, BeforeLog
  <2>3. QED
    BY <1>0, <2>1, <2>2 DEF LogsCounted, BeforeLog, AfterOpen
<1>6. QED
  BY <1>2, <1>3, <1>4, <1>5, NextSteps

LEMMA InitTyped == Init => TypedInv
<1> SUFFICES ASSUME Init PROVE TypedInv
  OBVIOUS
<1>1. Logs = {} /\ pc = "off" /\ boots = 0
  BY FileNames DEF Init, CardInit, Logs
<1>2. LogsCounted
  BY <1>1, FS_EmptySet DEF LogsCounted, BeforeLog, AfterOpen
<1>3. CardTyped
  <2>1. ConfigText \in Seq(Item)
    BY ItemTypes
  <2>2. \/ DOMAIN card = {Config} /\ card[Config] = ConfigText
        \/ DOMAIN card = {}
    BY DEF Init, CardInit
  <2>3. QED
    BY <2>1, <2>2 DEF CardTyped, Path
<1>4. HandlesTyped
  BY NoFileTyped DEF Init, ManagerReset, HandlesTyped
<1>5. LoggerTyped /\ SlotTyped
  <2>1. boots \in 0..MaxBoots /\ records \in 0..MaxRecords
    BY LoggerAssumption DEF Init
  <2>2. DOMAIN atBoot = {}
    BY DEF Init
  <2>3. QED
    BY <2>1, <2>2 DEF Init, CardInit, LoggerTyped, SlotTyped, AfterDir
<1>6. QED
  BY <1>2, <1>3, <1>4, <1>5 DEF TypedInv

LEMMA NextTyped == StackInv /\ LogsInv /\ TypedInv /\ [Next]_vars => TypedInv'
<1> SUFFICES ASSUME StackInv, LogsInv, TypedInv, [Next]_vars PROVE TypedInv'
  OBVIOUS
<1>1. LoggerTyped' /\ SlotTyped' /\ LogsCounted'
  BY TypedLogger, CountedStep
<1>2. CardTyped' /\ HandlesTyped'
  BY NextSteps, StillFiles, StillTyped, OpenTyped, WriteTyped, CloseTyped, PowerOffTyped
<1>3. QED
  BY <1>1, <1>2 DEF TypedInv

LEMMA LogsInvariant == Spec => []LogsInv
BY InitLogsInv, NextLogsInv, StackInvariant, PTL DEF Spec

LEMMA TypedInvariant == Spec => []TypedInv
BY InitTyped, NextTyped, StackInvariant, LogsInvariant, PTL DEF Spec

(* TypeOK of sd_logger.hpp on sd_manager.cpp: the logs of a directory never *)
(* run out of names, since no boot leaves more than one behind, and the     *)
(* configuration is read as it was written.                                 *)
THEOREM LoggerTypes == Spec => []TypeOK
<1>1. StackInv /\ TypedInv => TypeOK
  <2> SUFFICES ASSUME StackInv, TypedInv PROVE TypeOK
    OBVIOUS
  <2>1. \A s \in Seq(Item) : \A i \in 1..Len(s) : s[i] \in Item
    OBVIOUS
  <2>2. \A h \in Handle : /\ handle[h].path \in Path \cup {None} /\ handle[h].open \in BOOLEAN
                          /\ handle[h].left \in 0..Chunks
                          /\ \A i \in 1..Len(handle[h].buf) : handle[h].buf[i] \in Item
    BY <2>1 DEF TypedInv, HandlesTyped, StackInv, FilesOK, HandlesOK
  <2>3. DOMAIN card \subseteq Path
        /\ \A p \in DOMAIN card : \A i \in 1..Len(card[p]) : card[p][i] \in Item
    BY <2>1 DEF TypedInv, CardTyped
  <2>4. fileStackPtr \in 0..MAX_STACK_SIZE /\ \A i \in 1..Len(guards) : guards[i] \in Handle \cup {None}
    BY ManagerAssumption DEF StackInv, FilesOK, StackOK
  <2>5. ManagerTypeOK
    BY <2>2, <2>3, <2>4 DEF ManagerTypeOK, StackInv, FilesOK, StackOK, TypedInv, SlotTyped
  <2>6. QED
    BY <2>5 DEF TypeOK, StackInv, TypedInv, LoggerTyped
<1>2. QED
  BY <1>1, StackInvariant, TypedInvariant, PTL

-----------------------------------------------------------------------------
(* The contents of the log, where FILE_WRITE appends and the card answers.  *)
Claim == fileWrite = "append" /\ ~cardFailed /\ ~miscounted

Holds(text)    == filename \in DOMAIN card /\ card[filename] = text
Buffered(text) == OpenLogFile /\ handle[guards[1]].buf = text

Copied(left) == <<Header>> \o SubSeq(ConfigText, 1, Chunks - left)

ReadsConfig(left) ==
    /\ handle[guards[2]].open /\ handle[guards[2]].path = Config
    /\ handle[guards[2]].left = left

HeaderInv ==
    /\ pc = "open_log" /\ managerStatus = "good" => filename \notin DOMAIN card
    /\ pc = "log_opened" /\ guards[1] # None => Buffered(<<>>) /\ Holds(<<>>)
    /\ pc = "config_opened" /\ guards[2] # None =>
         Buffered(<<>>) /\ Holds(<<>>) /\ ReadsConfig(Chunks)
    /\ pc = "copy" =>
         /\ Holds(<<>>) /\ ReadsConfig(handle[guards[2]].left)
         /\ Buffered(Copied(handle[guards[2]].left))
    /\ pc = "config_end" /\ loggerState = "good" =>
         Buffered(Session(0)) /\ Holds(<<>>) /\ ReadsConfig(0) /\ managerStatus = "good"
    /\ pc = "log_end" /\ loggerState = "good" =>
         Buffered(Session(0)) /\ Holds(<<>>) /\ managerStatus = "good"

PeriodInv ==
    /\ pc \in {"wait", "run"} /\ (records >= 1 \/ loggerState = "good") => Holds(Session(records))
    /\ pc = "run" /\ guards[1] # None => Buffered(<<>>)
    /\ pc = "run_end" /\ guards[1] = None /\ records >= 1 => Holds(Session(records))
    /\ pc = "run_end" /\ guards[1] # None =>
         records >= 1 /\ Buffered(<<Record(records)>>) /\ Holds(Session(records - 1))
    /\ pc = "off" => LogKeepsSession

SessionInv == Claim => HeaderInv /\ PeriodInv

(* the places of which the two say nothing *)
Elsewhere == {"mount", "setup", "build", "setup_end", "halt", "dir", "count", "counting"}
-----------------------------------------------------------------------------
LEMMA SessionText ==
    ASSUME NEW k \in Nat
    PROVE  /\ Session(k) \in Seq(Item)
           /\ Session(k) \o <<Record(k + 1)>> = Session(k + 1)
<1> DEFINE R(n) == [i \in 1..n |-> Record(i)]
           B == <<Header>> \o ConfigText
<1>1. B \in Seq(Item)
  BY ItemTypes, ConcatProperties
<1>2. \A n \in Nat : R(n) \in Seq(Item) /\ Len(R(n)) = n
  BY ItemTypes
<1>3. <<Record(k + 1)>> \in Seq(Item)
  BY ItemTypes
<1>4. R(k) \o <<Record(k + 1)>> = R(k + 1)
  <2>1. R(k) \o <<Record(k + 1)>> \in Seq(Item) /\ Len(R(k) \o <<Record(k + 1)>>) = k + 1
    BY <1>2, <1>3, ConcatProperties
  <2>2. ASSUME NEW i \in 1..(k + 1) PROVE (R(k) \o <<Record(k + 1)>>)[i] = R(k + 1)[i]
    BY <1>2, <1>3, ConcatProperties
  <2>3. R(k + 1) \in Seq(Item) /\ Len(R(k + 1)) = k + 1
    BY <1>2
  <2> HIDE DEF R
  <2>4. QED
    BY <2>1, <2>2, <2>3, SeqEqual
<1>5. Session(k) = B \o R(k) /\ Session(k + 1) = B \o R(k + 1)
  BY DEF Session
<1> HIDE DEF R, B
<1>6. Session(k) \in Seq(Item)
  BY <1>1, <1>2, <1>5, ConcatProperties
<1>7. (B \o R(k)) \o <<Record(k + 1)>> = B \o (R(k) \o <<Record(k + 1)>>)
  <2> DEFINE r == R(k)
             e == <<Record(k + 1)>>
  <2>1. r \in Seq(Item) /\ e \in Seq(Item) /\ B \in Seq(Item)
    BY <1>1, <1>2, <1>3
  <2> HIDE DEF r, e
  <2>2. (B \o r) \o e = B \o (r \o e)
    BY <2>1, ConcatAssociative
  <2>3. QED
    BY <2>2 DEF r, e
<1>8. QED
  BY <1>4, <1>5, <1>6, <1>7

LEMMA SessionStarts == Session(0) = <<Header>> \o ConfigText
<1>1. <<Header>> \o ConfigText \in Seq(Item)
  BY ItemTypes, ConcatProperties
<1>2. [i \in 1..0 |-> Record(i)] = <<>>
  OBVIOUS
<1>3. QED
  BY <1>1, <1>2, ConcatEmptySeq DEF Session

LEMMA PrefixOfConcat ==
    ASSUME NEW s \in Seq(Item), NEW t \in Seq(Item)
    PROVE  IsPrefix(s, s \o t)
<1>1. s \o t \in Seq(Item) /\ Len(s \o t) = Len(s) + Len(t) /\ Len(s) \in Nat /\ Len(t) \in Nat
  BY ConcatProperties, LenProperties
<1>2. SubSeq(s \o t, 1, Len(s)) = SubSeq(s, 1, Len(s))
  <2>1. CASE Len(s) = 0
    BY <2>1, SubSeqEmpty
  <2>2. CASE Len(s) # 0
    <3>1. 1 \in 1..Len(s) /\ Len(s) \in 1..Len(s)
      BY <1>1, <2>2
    <3>2. QED
      BY <3>1, SubSeqOfConcat1
  <2>3. QED
    BY <2>1, <2>2
<1>3. Len(s) <= Len(s \o t)
  BY <1>1
<1>4. QED
  BY <1>2, <1>3 DEF IsPrefix

LEMMA CopiedText ==
    /\ Copied(Chunks) = <<Header>> /\ Copied(0) = Session(0)
    /\ \A left \in 1..Chunks :
         /\ Copied(left) \in Seq(Item)
         /\ Append(Copied(left), ConfigText[Chunks + 1 - left]) = Copied(left - 1)
<1>1. Chunks \in Nat \ {0} /\ ConfigText \in Seq(Item) /\ Len(ConfigText) = Chunks
  BY ItemTypes
<1>2. <<Header>> \in Seq(Item)
  BY ItemTypes
<1>3. Copied(Chunks) = <<Header>>
  <2>1. SubSeq(ConfigText, 1, Chunks - Chunks) = <<>>
    BY <1>1
  <2>2. QED
    BY <1>2, <2>1, ConcatEmptySeq DEF Copied
<1>4. Copied(0) = Session(0)
  <2>1. SubSeq(ConfigText, 1, Chunks - 0) = ConfigText
    BY <1>1, SubSeqFull
  <2>2. QED
    BY <2>1, SessionStarts DEF Copied
<1>5. ASSUME NEW left \in 1..Chunks
      PROVE  /\ Copied(left) \in Seq(Item)
             /\ Append(Copied(left), ConfigText[Chunks + 1 - left]) = Copied(left - 1)
  <2> DEFINE n == Chunks - left
             s == SubSeq(ConfigText, 1, n)
             e == ConfigText[Chunks + 1 - left]
  <2>1. /\ n \in Nat /\ n < Chunks /\ n + 1 = Chunks + 1 - left
        /\ Chunks - (left - 1) = n + 1 /\ n + 1 \in 1..Chunks
    BY <1>1
  <2>2. s \in Seq(Item) /\ e \in Item
    BY <1>1, <2>1
  <2>3. SubSeq(ConfigText, 1, n + 1) = Append(s, e)
    <3> HIDE DEF n
    <3>1. SubSeq(ConfigText, 1, n + 1) \in Seq(Item) /\ Len(SubSeq(ConfigText, 1, n + 1)) = n + 1
      BY <1>1, <2>1
    <3>2. Append(s, e) \in Seq(Item) /\ Len(Append(s, e)) = n + 1
      BY <1>1, <2>1, <2>2
    <3>3. \A i \in 1..(n + 1) : SubSeq(ConfigText, 1, n + 1)[i] = Append(s, e)[i]
      BY <1>1, <2>1, <2>2
    <3>4. QED
      BY <3>1, <3>2, <3>3, SeqEqual
  <2>4. Copied(left) = <<Header>> \o s /\ Copied(left - 1) = <<Header>> \o Append(s, e)
    BY <2>1, <2>3 DEF Copied
  <2> HIDE DEF s, e
  <2>5. <<Header>> \o s \in Seq(Item)
    BY <1>2, <2>2, ConcatProperties
  <2>6. Append(<<Header>> \o s, e) = <<Header>> \o Append(s, e)
    <3>1. <<e>> \in Seq(Item) /\ Append(s, e) = s \o <<e>>
      BY <2>2, AppendIsConcat
    <3>2. Append(<<Header>> \o s, e) = (<<Header>> \o s) \o <<e>>
      BY <2>2, <2>5, AppendIsConcat
    <3>3. QED
      BY <1>2, <2>2, <3>1, <3>2, ConcatAssociative
  <2>7. QED
    BY <2>4, <2>5, <2>6 DEF e
<1>6. QED
  BY <1>3, <1>4, <1>5

-----------------------------------------------------------------------------
AllInv == StackInv /\ LogsInv /\ RecordInv /\ TypedInv

LEMMA AllInvariant == Spec => []AllInv
BY StackInvariant, LogsInvariant, RecordInvariant, TypedInvariant, PTL DEF AllInv

LEMMA FilenameIsLog ==
    ASSUME TypedInv, pc \in AfterDir
    PROVE  filename \in LogPath /\ filename # Config
BY FileNames DEF TypedInv, LoggerTyped

(* closing a file that is open writes what is waiting for it, and to no     *)
(* other file                                                               *)
LEMMA CommittedLog ==
    ASSUME NEW hs \in SUBSET Handle, OpenLogFile, cardOk, guards[1] \in hs,
           \A h \in hs : handle[h].open /\ handle[h].path = filename => h = guards[1]
    PROVE  /\ filename \in DOMAIN Committed(hs)
           /\ Committed(hs)[filename] = card[filename] \o handle[guards[1]].buf
<1> DEFINE g == guards[1]
<1>1. g \in hs /\ handle[g].open /\ handle[g].path = filename /\ filename \in DOMAIN card
  BY DEF OpenLogFile
<1>2. (CHOOSE h \in hs : handle[h].open /\ handle[h].path = filename) = g
  BY <1>1
<1>3. QED
  BY <1>1, <1>2 DEF Committed

LEMMA CountStepSession ==
    ASSUME AllInv, CountStep, Claim'
    PROVE  HeaderInv' /\ PeriodInv'
<1>1. CASE pc' = "counting"
  BY <1>1 DEF HeaderInv, PeriodInv, AfterOpen
<1>2. CASE pc' = "open_log"
  <2>1. /\ CountFiles \/ CountEnds
        /\ miscounted' = ~cardOk /\ UNCHANGED <<filename, card, managerStatus>>
    BY <1>2 DEF CountStep, CountFiles, CountEntry, CountEnds, KeepCard, managerVars, cardVars
  <2>2. cardOk
    BY <2>1 DEF Claim
  <2>3. ASSUME managerStatus = "good" PROVE filename' \notin DOMAIN card'
    <3>1. CountEnds
      BY <1>2, <2>1, <2>2, <2>3 DEF CountFiles, Lists
    <3>2. filename \notin OldLogs /\ filename \in LogPath
      BY <2>2, <3>1, CountIsNew DEF AllInv, TypedInv, LoggerTyped, CountEnds, AfterDir, PC
    <3>3. DOMAIN card \cap LogPath = OldLogs
      BY <3>1 DEF AllInv, LogsInv, CountInv, CountEnds, AfterCount
    <3>4. QED
      BY <2>1, <3>2, <3>3
  <2>4. QED
    BY <1>2, <2>1, <2>3 DEF HeaderInv, PeriodInv, AfterOpen
<1>3. QED
  BY <1>1, <1>2 DEF CountStep, CountFiles, CountEntry, CountEnds

(* the log of this boot is new: it is created empty *)
LEMMA OpenLogSession ==
    ASSUME AllInv, HeaderInv, OpenLog
    PROVE  HeaderInv' /\ PeriodInv'
<1>1. /\ pc = "open_log" /\ pc' = "log_opened" /\ OpenGuard(filename, "write", TRUE)
      /\ UNCHANGED filename
  BY DEF OpenLog, KeepLogger
<1>2. FilesOK /\ AtRest /\ Len(guards) = 0
  BY <1>1 DEF AllInv, StackInv, PlaceInv, AtRest
<1>3. ASSUME guards'[1] # None PROVE Buffered(<<>>)' /\ Holds(<<>>)'
  <2>1. OpenSucceeds(filename, "write", TRUE)
    <3>1. guards' = Append(guards, None) => guards'[1] = None
      BY <1>2, GuardAdded DEF FilesOK
    <3>2. QED
      BY <1>1, <1>2, <1>3, <3>1, OpenOutcome
  <2>2. managerStatus = "good" /\ CardOpened(filename, "write")
    BY <1>2, <2>1, OpenContents
  <2>3. PICK h \in Handle : GuardOpened(filename, "write", h)
    BY <1>2, <2>1, OpenContents
  <2>4. Opened(filename, "write") = <<>>
    BY <1>1, <2>2 DEF HeaderInv, Opened
  <2>5. guards'[1] = h /\ handle'[h].open /\ handle'[h].path = filename /\ handle'[h].buf = <<>>
    BY <1>2, <2>3 DEF GuardOpened
  <2>6. filename \in DOMAIN card' /\ card'[filename] = <<>>
    BY <2>2, <2>4 DEF CardOpened
  <2>7. QED
    BY <1>1, <2>5, <2>6 DEF Buffered, Holds, OpenLogFile
<1>4. QED
  BY <1>1, <1>3 DEF HeaderInv, PeriodInv

LEMMA OpenConfigSession ==
    ASSUME AllInv, HeaderInv, OpenConfig
    PROVE  HeaderInv' /\ PeriodInv'
<1>1. /\ pc = "log_opened" /\ pc' = "config_opened" /\ OpenGuard(Config, "read", FALSE)
      /\ UNCHANGED filename /\ guards[1] # None
  BY DEF OpenConfig
<1>2. FilesOK /\ OneFresh /\ Len(guards) = 1 /\ guards[1] \in Handle
  BY <1>1 DEF AllInv, StackInv, PlaceInv, OneBad, OneFresh, OneGood
<1>3. Buffered(<<>>) /\ Holds(<<>>) /\ filename # Config
  BY <1>1, FilenameIsLog DEF HeaderInv, AllInv, AfterDir, PC
<1>4. ASSUME guards'[2] # None
      PROVE  Buffered(<<>>)' /\ Holds(<<>>)' /\ ReadsConfig(Chunks)'
  <2>1. OpenSucceeds(Config, "read", FALSE)
    <3>1. guards' = Append(guards, None) => guards'[2] = None
      BY <1>2, GuardAdded DEF FilesOK
    <3>2. QED
      BY <1>1, <1>2, <1>4, <3>1, OpenOutcome
  <2>2. CardOpened(Config, "read") /\ GuardsKept /\ Config \in DOMAIN card
    BY <1>2, <2>1, OpenContents
  <2>3. PICK h \in Handle : GuardOpened(Config, "read", h)
    BY <1>2, <2>1, OpenContents
  <2>4. Len(Opened(Config, "read")) = Chunks
    <3>1. Opened(Config, "read") = ConfigText
      BY <2>2 DEF Opened, AllInv, TypedInv, CardTyped
    <3>2. QED
      BY <3>1, ItemTypes
  <2>5. ReadsConfig(Chunks)'
    BY <1>2, <2>3, <2>4 DEF GuardOpened, ReadsConfig
  <2>6. filename \in DOMAIN card' /\ card'[filename] = <<>>
    BY <1>3, <2>2 DEF CardOpened, Holds
  <2>7. guards'[1] = guards[1] /\ handle'[guards[1]] = handle[guards[1]]
    BY <1>2, <2>2 DEF GuardsKept
  <2>8. QED
    BY <1>1, <1>3, <2>5, <2>6, <2>7 DEF Buffered, Holds, OpenLogFile
<1>5. QED
  BY <1>1, <1>4 DEF HeaderInv, PeriodInv

LEMMA WriteHeaderSession ==
    ASSUME AllInv, HeaderInv, WriteHeader
    PROVE  HeaderInv' /\ PeriodInv'
<1> DEFINE g == guards[1]
<1>1. /\ pc = "config_opened" /\ pc' = "copy" /\ guards[2] # None
      /\ handle' = [handle EXCEPT ![g].buf = @ \o <<Header>>]
      /\ UNCHANGED <<filename, guards, card>>
  BY DEF WriteHeader, Write, KeepLogger, cardVars
<1>2. Buffered(<<>>) /\ Holds(<<>>) /\ ReadsConfig(Chunks)
  BY <1>1 DEF HeaderInv
<1>3. g \in Handle /\ guards[2] \in Handle /\ g # guards[2] /\ HandlesOK
  BY <1>1 DEF AllInv, StackInv, FilesOK, PlaceInv, TwoBad, TwoGood
<1>4. handle[g].buf \o <<Header>> = Copied(Chunks)
  <2>1. <<Header>> \in Seq(Item)
    BY ItemTypes
  <2>2. <<>> \o <<Header>> = <<Header>>
    BY <2>1, ConcatEmptySeq
  <2>3. QED
    BY <1>2, <2>2, CopiedText DEF Buffered
<1>5. /\ handle'[g].open = handle[g].open /\ handle'[g].path = handle[g].path
      /\ handle'[g].buf = Copied(Chunks) /\ handle'[guards[2]] = handle[guards[2]]
  BY <1>1, <1>3, <1>4 DEF HandlesOK
<1>6. ReadsConfig(Chunks)' /\ Buffered(Copied(Chunks))' /\ Holds(<<>>)'
  BY <1>1, <1>2, <1>5 DEF Buffered, Holds, OpenLogFile, ReadsConfig, Copied
<1>7. QED
  BY <1>1, <1>6 DEF HeaderInv, PeriodInv, ReadsConfig, Copied

LEMMA CopyConfigSession ==
    ASSUME AllInv, HeaderInv, CopyConfig
    PROVE  HeaderInv' /\ PeriodInv'
<1> DEFINE to   == guards[1]
           from == guards[2]
           left == handle[from].left
           e    == ConfigText[Chunks + 1 - left]
<1>1. /\ pc = "copy" /\ pc' = "copy" /\ left > 0
      /\ handle' = [handle EXCEPT ![from].left = @ - 1, ![to].buf = Append(@, e)]
      /\ UNCHANGED <<filename, guards, card>>
  BY DEF CopyConfig, CopyChunk, KeepLogger, cardVars
<1>2. Holds(<<>>) /\ ReadsConfig(left) /\ Buffered(Copied(left))
  BY <1>1 DEF HeaderInv
<1>3. to \in Handle /\ from \in Handle /\ to # from /\ HandlesOK
  BY <1>1 DEF AllInv, StackInv, FilesOK, PlaceInv, TwoGood
<1>4. left \in 1..Chunks
  BY <1>1, <1>3, ItemTypes DEF AllInv, TypedInv, HandlesTyped
<1>5. Append(handle[to].buf, e) = Copied(left - 1)
  BY <1>2, <1>4, CopiedText DEF Buffered
<1> HIDE DEF e
<1>6. /\ handle'[to].open = handle[to].open /\ handle'[to].path = handle[to].path
      /\ handle'[to].buf = Append(handle[to].buf, e)
      /\ handle'[from].open = handle[from].open /\ handle'[from].path = handle[from].path
      /\ handle'[from].left = left - 1
  BY <1>1, <1>3 DEF HandlesOK
<1>7. /\ Holds(<<>>)' /\ ReadsConfig(handle[guards[2]].left)'
      /\ Buffered(Copied(handle[guards[2]].left))'
  BY <1>1, <1>2, <1>5, <1>6 DEF Holds, ReadsConfig, Buffered, OpenLogFile, Copied
<1>8. QED
  BY <1>1, <1>7 DEF HeaderInv, PeriodInv

LEMMA CopyDoneSession ==
    ASSUME AllInv, HeaderInv, CopyDone
    PROVE  HeaderInv' /\ PeriodInv'
<1> DEFINE left == handle[guards[2]].left
<1>1. /\ pc = "copy" /\ pc' = "config_end" /\ ~Available(guards[2])
      /\ UNCHANGED <<filename, guards, card, handle, managerStatus>>
  BY DEF CopyDone, KeepLogger, KeepCard, managerVars, cardVars
<1>2. Holds(<<>>) /\ ReadsConfig(left) /\ Buffered(Copied(left))
  BY <1>1 DEF HeaderInv
<1>3. left = 0
  <2>1. guards[2] \in Handle
    BY <1>1 DEF AllInv, StackInv, PlaceInv, TwoGood
  <2>2. left \in Nat
    BY <2>1 DEF AllInv, TypedInv, HandlesTyped
  <2>3. ~(left > 0)
    BY <1>1, <1>2 DEF Available, ReadsConfig
  <2>4. QED
    BY <2>2, <2>3
<1>4. managerStatus = "good"
  BY <1>1 DEF AllInv, StackInv, PlaceInv, TwoGood
<1>5. Buffered(Session(0)) /\ ReadsConfig(0)
  BY <1>2, <1>3, CopiedText
<1>6. QED
  BY <1>1, <1>2, <1>4, <1>5
     DEF HeaderInv, PeriodInv, Holds, ReadsConfig, Buffered, OpenLogFile, Session

(* the configuration is closed; the log stays open, with its text waiting *)
LEMMA EndConfigSession ==
    ASSUME AllInv, HeaderInv, EndConfig
    PROVE  HeaderInv' /\ PeriodInv'
<1> DEFINE g  == guards[1]
           hs == CloseTop \cup CloseGone
<1>1. /\ pc = "config_end" /\ pc' = "log_end" /\ CloseGuard
      /\ UNCHANGED <<filename, loggerState>>
  BY DEF EndConfig, KeepLogger
<1>2. ASSUME loggerState = "good"
      PROVE  Buffered(Session(0))' /\ Holds(<<>>)' /\ managerStatus' = "good"
  <2>1. Buffered(Session(0)) /\ Holds(<<>>) /\ ReadsConfig(0) /\ managerStatus = "good"
    BY <1>1, <1>2 DEF HeaderInv
  <2>2. TwoGood /\ FilesOK
    BY <1>1, <2>1 DEF AllInv, StackInv, PlaceInv, TwoBad
  <2>3. Len(guards) = 2 /\ g \in Handle /\ guards[2] \in Handle /\ g # guards[2]
    BY <2>2 DEF TwoGood
  <2>4. /\ guards'[1] = g /\ UNCHANGED managerStatus
        /\ Len(SubSeq(guards, 1, Len(guards) - 1)) = 1
        /\ SubSeq(guards, 1, Len(guards) - 1)[1] = g
    BY <1>1, <2>2, <2>3, CloseKeepsFiles, GuardPopped DEF FilesOK
  <2>5. g \notin hs
    <3>1. CloseTop \subseteq {guards[2]}
      BY <2>2 DEF TwoGood, CloseTop
    <3>2. g \notin CloseGone
      BY <2>4 DEF CloseGone, Referenced
    <3>3. QED
      BY <2>3, <3>1, <3>2
  <2>6. hs \subseteq Handle
    BY <2>2, RefsAreHandles DEF CloseTop, CloseGone, FilesOK, StackOK
  <2>7. card' = Committed(hs) /\ handle' = Closed(hs)
    BY <1>1 DEF CloseGuard, CloseTop, CloseGone
  <2> HIDE DEF hs
  <2>8. handle'[g] = handle[g]
    BY <2>3, <2>5, <2>7 DEF Closed
  <2>9. ~\E h \in hs : handle[h].open /\ handle[h].path = filename
    <3>1. filename # Config
      BY <1>1, FilenameIsLog DEF AllInv, AfterDir, PC
    <3>2. QED
      BY <2>1, <2>2, <2>5, <2>6, <3>1 DEF TwoGood, OnlyOpen, ReadsConfig
  <2>10. filename \in DOMAIN card' /\ card'[filename] = <<>>
    BY <2>1, <2>7, <2>9 DEF Committed, Holds
  <2>11. QED
    BY <1>1, <2>1, <2>4, <2>8, <2>10 DEF Buffered, Holds, OpenLogFile, Session
<1>3. QED
  BY <1>1, <1>2 DEF HeaderInv, PeriodInv

(* the guard of the log goes last, and with it what was waiting *)
LEMMA EndLogSession ==
    ASSUME AllInv, HeaderInv, Claim, EndLog
    PROVE  HeaderInv' /\ PeriodInv'
<1> DEFINE g  == guards[1]
           hs == CloseTop \cup CloseGone
<1>1. /\ pc = "log_end" /\ pc' = "wait" /\ CloseGuard
      /\ UNCHANGED <<filename, loggerState, records>>
  BY DEF EndLog, KeepLogger
<1>2. records = 0 /\ cardOk
  BY <1>1 DEF AllInv, RecordInv, Claim
<1>3. ASSUME loggerState = "good" PROVE Holds(Session(0))'
  <2>1. Buffered(Session(0)) /\ Holds(<<>>) /\ managerStatus = "good" /\ OpenLogFile
    BY <1>1, <1>3 DEF HeaderInv, Buffered
  <2>2. OneDropped /\ FilesOK
    BY <1>1, <2>1 DEF AllInv, StackInv, PlaceInv, OneBad
  <2>3. g \in hs
    <3> DEFINE rest == SubSeq(guards, 1, Len(guards) - 1)
    <3>1. g \in Referenced(fileStack, guards)
      BY <2>2 DEF Referenced, OneDropped
    <3>2. Len(rest) = 0
      BY <1>1, <2>2, CloseKeepsFiles DEF OneDropped
    <3>3. {fileStack[i] : i \in Slots} \subseteq {fileStack[0], None}
      BY <2>2 DEF FilesOK, StackOK
    <3> HIDE DEF rest
    <3>4. Referenced(fileStack, rest) \subseteq {fileStack[0], None}
      BY <3>2, <3>3 DEF Referenced
    <3>5. g # fileStack[0] /\ g # None
      BY <2>1, <2>2, NoneIsNoHandle DEF OneDropped
    <3>6. QED
      BY <3>1, <3>4, <3>5 DEF CloseGone, rest
  <2>4. hs \subseteq Handle /\ \A h \in hs : handle[h].open => h = g
    <3>1. hs \subseteq Handle
      BY <2>2, RefsAreHandles DEF CloseTop, CloseGone, FilesOK, StackOK
    <3>2. QED
      BY <2>1, <2>2, <3>1 DEF OneDropped, OnlyOpen
  <2>5. card' = Committed(hs)
    BY <1>1 DEF CloseGuard, CloseTop, CloseGone
  <2> HIDE DEF hs
  <2>6. filename \in DOMAIN card' /\ card'[filename] = card[filename] \o handle[g].buf
    BY <1>2, <2>1, <2>3, <2>4, <2>5, CommittedLog
  <2>7. <<>> \o Session(0) = Session(0)
    BY SessionText, ConcatEmptySeq
  <2>8. QED
    BY <1>1, <2>1, <2>6, <2>7 DEF Holds, Buffered, Session
<1>4. QED
  BY <1>1, <1>2, <1>3 DEF HeaderInv, PeriodInv

LEMMA OpenRunSession ==
    ASSUME AllInv, PeriodInv, Claim, OpenRun
    PROVE  HeaderInv' /\ PeriodInv'
<1>1. /\ pc = "wait" /\ pc' = "run" /\ OpenGuard(filename, "write", FALSE)
      /\ UNCHANGED <<filename, records, loggerState>>
  BY DEF OpenRun, KeepLogger
<1>2. FilesOK /\ AtRest /\ Len(guards) = 0
  BY <1>1 DEF AllInv, StackInv, PlaceInv, AtRest
<1>3. CASE OpenSucceeds(filename, "write", FALSE)
  <2>1. managerStatus = "good" /\ CardOpened(filename, "write")
    BY <1>2, <1>3, OpenContents
  <2>2. PICK h \in Handle : GuardOpened(filename, "write", h)
    BY <1>2, <1>3, OpenContents
  <2>3. loggerState = "good"
    BY <1>1, <2>1 DEF AllInv, StackInv, StateInv, TypedInv, LoggerTyped
  <2>4. Holds(Session(records))
    BY <1>1, <2>3 DEF PeriodInv
  <2>5. Opened(filename, "write") = card[filename]
    BY <2>4 DEF Opened, Holds, Claim
  <2>6. Holds(Session(records))'
    BY <1>1, <2>1, <2>4, <2>5 DEF Holds, CardOpened, Session
  <2>7. Buffered(<<>>)'
    BY <1>1, <1>2, <2>2, <2>6 DEF GuardOpened, Buffered, Holds, OpenLogFile
  <2>8. QED
    BY <1>1, <2>6, <2>7 DEF HeaderInv, PeriodInv
<1>4. CASE ~OpenSucceeds(filename, "write", FALSE)
  <2>1. guards' = Append(guards, None) /\ card' \in {card, Created(filename, FALSE)}
    BY <1>1, <1>2, <1>4, OpenOutcome
  <2>2. guards'[1] = None
    BY <1>2, <2>1, GuardAdded DEF FilesOK
  <2>3. card' = card
    BY <2>1 DEF Created
  <2>4. QED
    BY <1>1, <2>2, <2>3 DEF HeaderInv, PeriodInv, Holds, Session
<1>5. QED
  BY <1>3, <1>4

LEMMA NoRunSession ==
    ASSUME PeriodInv, NoRun
    PROVE  HeaderInv' /\ PeriodInv'
<1>1. /\ pc = "run" /\ pc' = "run_end" /\ guards[1] = None
      /\ UNCHANGED <<filename, records, card, guards>>
  BY DEF NoRun, KeepCard, managerVars, cardVars
<1>2. QED
  BY <1>1 DEF HeaderInv, PeriodInv, Holds, Session

LEMMA WriteRecordSession ==
    ASSUME AllInv, PeriodInv, WriteRecord
    PROVE  HeaderInv' /\ PeriodInv'
<1> DEFINE g == guards[1]
           r == <<Record(records + 1)>>
<1>1. /\ pc = "run" /\ pc' = "run_end" /\ g # None /\ records' = records + 1
      /\ handle' = [handle EXCEPT ![g].buf = @ \o r]
      /\ UNCHANGED <<filename, guards, card>>
  BY DEF WriteRecord, Write, cardVars
<1>2. OneGood /\ HandlesOK /\ records \in Nat
  BY <1>1 DEF AllInv, StackInv, FilesOK, PlaceInv, OneBad, RecordInv
<1>3. loggerState = "good"
  BY <1>1, <1>2 DEF AllInv, StackInv, StateInv, TypedInv, LoggerTyped, OneGood
<1>4. Holds(Session(records)) /\ Buffered(<<>>)
  BY <1>1, <1>3 DEF PeriodInv
<1>5. <<>> \o r = r
  <2>1. r \in Seq(Item)
    BY <1>2, ItemTypes
  <2> HIDE DEF r
  <2>2. QED
    BY <2>1, ConcatEmptySeq
<1> HIDE DEF r
<1>6. /\ handle'[g].open = handle[g].open /\ handle'[g].path = handle[g].path
      /\ handle'[g].buf = r
  BY <1>1, <1>2, <1>4, <1>5 DEF HandlesOK, OneGood, Buffered
<1>7. Buffered(<<Record(records)>>)'
  BY <1>1, <1>4, <1>6 DEF Buffered, OpenLogFile, Record, r
<1>8. Holds(Session(records - 1))'
  <2>1. records' - 1 = records
    BY <1>1, <1>2
  <2>2. QED
    BY <1>1, <1>4, <2>1 DEF Holds, Session, Record
<1>9. records' >= 1
  BY <1>1, <1>2
<1>10. QED
  BY <1>1, <1>7, <1>8, <1>9 DEF HeaderInv, PeriodInv

LEMMA EndRunSession ==
    ASSUME AllInv, PeriodInv, Claim, EndRun
    PROVE  HeaderInv' /\ PeriodInv'
<1> DEFINE g  == guards[1]
           hs == CloseTop \cup CloseGone
<1>1. /\ pc = "run_end" /\ pc' = "wait" /\ CloseGuard
      /\ UNCHANGED <<filename, records, loggerState>>
  BY DEF EndRun, KeepLogger
<1>2. records \in Nat /\ cardOk /\ FilesOK
  BY <1>1 DEF AllInv, RecordInv, StackInv, Claim
<1>3. CASE g = None
  <2>1. OneBad
    BY <1>1, <1>3, NoneIsNoHandle DEF AllInv, StackInv, PlaceInv, OneGood
  <2>2. loggerState = "bad"
    BY <1>1, <1>3, NoneIsNoHandle DEF AllInv, RecordInv, OpenLogFile, TypedInv, LoggerTyped
  <2>3. NotWritten(filename)
    BY <2>1 DEF OneBad, OpenIsEmpty, NotWritten
  <2>4. DOMAIN card' = DOMAIN card /\ (filename \in DOMAIN card => card'[filename] = card[filename])
    BY <1>1, <1>2, <2>1, <2>3, CloseHasEffect DEF OneBad
  <2>5. records >= 1 => Holds(Session(records))'
    BY <1>1, <1>3, <2>4 DEF PeriodInv, Holds, Session
  <2>6. QED
    BY <1>1, <2>2, <2>5 DEF HeaderInv, PeriodInv
<1>4. CASE g # None
  <2>1. records >= 1 /\ Buffered(<<Record(records)>>) /\ Holds(Session(records - 1)) /\ OpenLogFile
    BY <1>1, <1>4 DEF PeriodInv, Buffered
  <2>2. OneGood
    BY <1>1, <1>4 DEF AllInv, StackInv, PlaceInv, OneBad
  <2>3. g \in hs
    BY <2>2, NoneIsNoHandle DEF OneGood, CloseTop
  <2>4. hs \subseteq Handle /\ \A h \in hs : handle[h].open => h = g
    <3>1. hs \subseteq Handle
      BY <1>2, RefsAreHandles DEF CloseTop, CloseGone, FilesOK, StackOK
    <3>2. QED
      BY <2>2, <3>1 DEF OneGood, OnlyOpen
  <2>5. card' = Committed(hs)
    BY <1>1 DEF CloseGuard, CloseTop, CloseGone
  <2> HIDE DEF hs
  <2>6. filename \in DOMAIN card' /\ card'[filename] = card[filename] \o handle[g].buf
    BY <1>2, <2>1, <2>3, <2>4, <2>5, CommittedLog
  <2>7. Session(records - 1) \o <<Record(records)>> = Session(records)
    <3>1. records - 1 \in Nat /\ (records - 1) + 1 = records
      BY <1>2, <2>1
    <3>2. Session(records - 1) \o <<Record((records - 1) + 1)>> = Session((records - 1) + 1)
      BY <3>1, SessionText
    <3>3. QED
      BY <3>1, <3>2
  <2>8. Holds(Session(records))'
    BY <1>1, <2>1, <2>6, <2>7 DEF Holds, Buffered, Session
  <2>9. QED
    BY <1>1, <2>8 DEF HeaderInv, PeriodInv
<1>5. QED
  BY <1>3, <1>4

(* whatever of the open file reaches the card comes after what is there *)
LEMMA PowerOffSession ==
    ASSUME AllInv, PeriodInv, Claim, PowerOff
    PROVE  HeaderInv' /\ PeriodInv'
<1>1. pc # "off" /\ pc' = "off" /\ UNCHANGED <<filename, records>>
  BY DEF PowerOff, KeepLogger
<1>2. records \in Nat
  BY DEF AllInv, RecordInv
<1>3. ASSUME records >= 1
      PROVE  filename \in DOMAIN card' /\ IsPrefix(Session(records - 1), card'[filename])
  <2>1. pc \in {"wait", "run", "run_end"}
    BY <1>1, <1>3 DEF AllInv, RecordInv
  <2>2. records - 1 \in Nat /\ (records - 1) + 1 = records
    BY <1>2, <1>3
  <2> DEFINE s == Session(records - 1)
             r == <<Record(records)>>
  <2>3. s \in Seq(Item) /\ r \in Seq(Item) /\ s \o r = Session(records)
    <3>1. s \in Seq(Item) /\ s \o <<Record((records - 1) + 1)>> = Session((records - 1) + 1)
      BY <2>2, SessionText
    <3>2. r \in Seq(Item)
      BY <1>2, ItemTypes
    <3>3. QED
      BY <2>2, <3>1, <3>2
  <2> HIDE DEF s, r
  <2>4. Holds(Session(records)) \/ Holds(s)
    BY <1>3, <2>1 DEF PeriodInv, s
  <2>5. filename \in DOMAIN card /\ DOMAIN card' = DOMAIN card
    BY <2>4, PowerOffAdds DEF Holds, AllInv, TypedInv
  <2>6. PICK t \in Seq(Item) : card'[filename] = card[filename] \o t
    BY <2>5, PowerOffAdds DEF AllInv, TypedInv
  <2>7. \E u \in Seq(Item) : card'[filename] = s \o u
    <3>1. CASE Holds(s)
      BY <2>6, <3>1 DEF Holds
    <3>2. CASE Holds(Session(records))
      <4>1. card'[filename] = (s \o r) \o t
        BY <2>3, <2>6, <3>2 DEF Holds
      <4>2. s \in Seq(Item) /\ r \in Seq(Item) /\ t \in Seq(Item)
        BY <2>3, <2>6
      <4>3. (s \o r) \o t = s \o (r \o t)
        BY <4>2, ConcatAssociative
      <4>4. r \o t \in Seq(Item)
        BY <4>2, ConcatProperties
      <4>5. QED
        BY <4>1, <4>3, <4>4
    <3>3. QED
      BY <2>4, <3>1, <3>2
  <2>8. QED
    BY <2>3, <2>5, <2>7, PrefixOfConcat DEF s
<1>4. LogKeepsSession'
  BY <1>1, <1>3 DEF LogKeepsSession, Session, Record
<1>5. QED
  BY <1>1, <1>4 DEF HeaderInv, PeriodInv

LEMMA NextSession ==
    AllInv /\ SessionInv /\ [Next]_vars => SessionInv'
<1> SUFFICES ASSUME AllInv, SessionInv, [Next]_vars, Claim'
             PROVE  HeaderInv' /\ PeriodInv'
  BY DEF SessionInv
<1>1. CASE \/ PowerOn \/ MountCard \/ OpenSetup \/ Build \/ EndSetup
           \/ \E dir \in Dir : MakeDir(dir)
  <2>1. pc' \in Elsewhere
    BY <1>1 DEF PowerOn, MountCard, OpenSetup, Build, EndSetup, MakeDir, Elsewhere
  <2>2. pc' # "open_log" /\ pc' \notin AfterOpen /\ pc' # "off"
    BY <2>1 DEF Elsewhere, AfterOpen
  <2>3. QED
    BY <2>2 DEF HeaderInv, PeriodInv, AfterOpen
<1>2. CASE CountStep
  BY <1>2, CountStepSession
<1>3. CASE CardGone
  BY <1>3 DEF CardGone, Claim
<1>4. CASE CardBack
  BY <1>4 DEF CardBack, CardAnswers, Claim, AllInv, RecordInv, loggerVars, bootVars
<1>5. CASE NoLog \/ NoConfig
  BY <1>5 DEF NoLog, NoConfig, HeaderInv, PeriodInv
<1>6. CASE UNCHANGED vars
  <2>1. UNCHANGED <<pc, loggerState, filename, records, miscounted, cardFailed, managerStatus,
                    guards, handle, card, fileWrite>>
    BY <1>6 DEF vars, managerVars, cardVars, loggerVars, bootVars
  <2>2. HeaderInv /\ PeriodInv
    BY <2>1 DEF SessionInv, Claim
  <2>3. HeaderInv'
    BY <2>1, <2>2 DEF HeaderInv, Holds, Buffered, OpenLogFile, ReadsConfig, Copied, Session
  <2>4. PeriodInv'
    BY <2>1, <2>2 DEF PeriodInv, Holds, Buffered, OpenLogFile, Session, LogKeepsSession
  <2>5. QED
    BY <2>3, <2>4
<1>7. CASE \/ OpenLog \/ OpenConfig \/ WriteHeader \/ CopyConfig \/ CopyDone \/ EndConfig
           \/ EndLog \/ OpenRun \/ NoRun \/ WriteRecord \/ EndRun \/ PowerOff
  <2>1. UNCHANGED <<miscounted, cardFailed, fileWrite>>
    BY <1>7 DEF OpenLog, OpenConfig, WriteHeader, CopyConfig, CopyDone, EndConfig, EndLog,
       OpenRun, NoRun, WriteRecord, EndRun, PowerOff, KeepLogger, KeepCard, bootVars, cardVars,
       OpenGuard, OpenRefused, OpenReuse, OpenFails, OpenSucceeds, GuardBad, CloseGuard, Write,
       CopyChunk
  <2>2. Claim /\ HeaderInv /\ PeriodInv
    BY <2>1 DEF SessionInv, Claim
  <2>3. QED
    BY <1>7, <2>2, OpenLogSession, OpenConfigSession, WriteHeaderSession, CopyConfigSession,
       CopyDoneSession, EndConfigSession, EndLogSession, OpenRunSession, NoRunSession,
       WriteRecordSession, EndRunSession, PowerOffSession
<1>8. QED
  BY <1>1, <1>2, <1>3, <1>4, <1>5, <1>6, <1>7 DEF Next, CountStep

LEMMA SessionKept == AllInv /\ SessionInv => AppendKeepsSession
<1> SUFFICES ASSUME AllInv, SessionInv, fileWrite = "append", records >= 1, ~cardFailed,
                    ~miscounted
             PROVE  filename \in DOMAIN card /\ IsPrefix(Session(records - 1), card[filename])
  BY DEF AppendKeepsSession, LogKeepsSession
<1>1. PeriodInv /\ pc \in {"off", "wait", "run", "run_end"} /\ records \in Nat
  BY DEF SessionInv, Claim, AllInv, RecordInv
<1>2. CASE pc = "off"
  BY <1>1, <1>2 DEF PeriodInv, LogKeepsSession
<1>3. CASE pc # "off"
  <2> DEFINE s == Session(records - 1)
             r == <<Record(records)>>
  <2>1. records - 1 \in Nat /\ (records - 1) + 1 = records
    BY <1>1
  <2>2. s \in Seq(Item) /\ r \in Seq(Item) /\ s \o r = Session(records)
    <3>1. s \in Seq(Item) /\ s \o <<Record((records - 1) + 1)>> = Session((records - 1) + 1)
      BY <2>1, SessionText
    <3>2. r \in Seq(Item)
      BY <1>1, ItemTypes
    <3>3. QED
      BY <2>1, <3>1, <3>2
  <2>3. Holds(Session(records)) \/ Holds(s)
    BY <1>1, <1>3 DEF PeriodInv
  <2> HIDE DEF s, r
  <2>4. <<>> \in Seq(Item) /\ s \o <<>> = s
    BY <2>2, ConcatEmptySeq, EmptySeq
  <2>5. filename \in DOMAIN card /\ \E t \in Seq(Item) : card[filename] = s \o t
    BY <2>2, <2>3, <2>4 DEF Holds
  <2>6. QED
    BY <2>2, <2>5, PrefixOfConcat DEF s
<1>4. QED
  BY <1>2, <1>3

(* AppendKeepsSession: where FILE_WRITE appends and the card answers, the   *)
(* log holds the header, the configuration and every record before the last *)
(* one, in order, at any point of a boot and after a power cut             *)
(* (sd_logger.hpp:27-117), for any number of records and any length of the  *)
(* configuration.                                                           *)
THEOREM SessionStays == Spec => []AppendKeepsSession
<1>1. Init => SessionInv
  BY DEF Init, SessionInv, HeaderInv, PeriodInv, LogKeepsSession
<1>2. QED
  BY <1>1, AllInvariant, NextSession, SessionKept, PTL DEF Spec
-----------------------------------------------------------------------------
(* What a log of this boot holds whatever fails and whatever FILE_WRITE     *)
(* does: card and buffer together are in the order of logging, and end      *)
(* where the logging has come to.                                           *)
NewLogs == Logs \ DOMAIN atBoot

InOrder(s, m) ==
    /\ \A i, j \in 1..Len(s) : i < j => Place(s[i]) < Place(s[j])
    /\ \A i \in 1..Len(s) : Place(s[i]) <= m

Unwritten == BeforeLog \cup {"log_opened", "config_opened"}

Reached ==
    IF pc \in Unwritten THEN -1
    ELSE IF pc = "copy" THEN Chunks - handle[guards[2]].left
    ELSE Chunks + records

Waiting(h) == handle[h].open /\ handle[h].buf # <<>>

FilesInOrder(m) ==
    /\ \A p \in NewLogs : InOrder(card[p], m)
    /\ \A h \in Handle : Waiting(h) /\ handle[h].path \in NewLogs =>
         InOrder(card[handle[h].path] \o handle[h].buf, m)

OnlyLogWaits == \A h \in Handle : Waiting(h) => Len(guards) > 0 /\ h = guards[1]

OrderInv == OnlyLogWaits /\ FilesInOrder(Reached)
-----------------------------------------------------------------------------
LEMMA Places ==
    /\ \A e \in Item : Place(e) \in Int
    /\ Place(Header) = 0
    /\ \A i \in Nat : Place(Chunk(i)) = i /\ Place(Record(i)) = Chunks + i
<1>1. Chunks \in Nat
  BY ManagerAssumption
<1>2. \A e \in Item : e.kind \in {"header", "chunk", "record"} /\ e.i \in Nat
  BY DEF Item
<1>3. \A e \in Item : Place(e) \in Int
  BY <1>1, <1>2 DEF Place
<1>4. Place(Header) = 0
  BY DEF Place, Header
<1>5. \A i \in Nat : Place(Chunk(i)) = i /\ Place(Record(i)) = Chunks + i
  BY DEF Place, Chunk, Record
<1>6. QED
  BY <1>3, <1>4, <1>5

LEMMA ReachedBounds ==
    AllInv => Reached \in Int /\ -1 <= Reached /\ Reached <= Chunks + records
<1> SUFFICES ASSUME AllInv
             PROVE  Reached \in Int /\ -1 <= Reached /\ Reached <= Chunks + records
  OBVIOUS
<1>1. Chunks \in Nat /\ records \in Nat
  BY ManagerAssumption DEF AllInv, RecordInv
<1>2. pc = "copy" => handle[guards[2]].left \in 0..Chunks
  BY DEF AllInv, StackInv, PlaceInv, TwoGood, TypedInv, HandlesTyped
<1>3. QED
  BY <1>1, <1>2 DEF Reached

LEMMA InOrderMore ==
    ASSUME NEW s \in Seq(Item), NEW m \in Int, NEW n \in Int, m <= n, InOrder(s, m)
    PROVE  InOrder(s, n)
<1>1. \A i \in 1..Len(s) : Place(s[i]) \in Int
  BY Places
<1>2. QED
  BY <1>1 DEF InOrder

LEMMA InOrderEmpty == ASSUME NEW m PROVE InOrder(<<>>, m)
<1>1. Len(<<>>) = 0
  OBVIOUS
<1>2. 1..Len(<<>>) = {}
  BY <1>1
<1>3. QED
  BY <1>2 DEF InOrder

LEMMA InOrderAppend ==
    ASSUME NEW s \in Seq(Item), NEW e \in Item, NEW m \in Int, m < Place(e), InOrder(s, m)
    PROVE  InOrder(s \o <<e>>, Place(e))
<1> DEFINE t == s \o <<e>>
           n == Len(s)
           q == Place(e)
<1>1. n \in Nat /\ Len(t) = n + 1 /\ t[n + 1] = e /\ \A i \in 1..n : t[i] = s[i]
  OBVIOUS
<1>2. q \in Int /\ \A i \in 1..n : Place(s[i]) \in Int
  BY Places
<1>3. /\ \A i, j \in 1..n : i < j => Place(s[i]) < Place(s[j])
      /\ \A i \in 1..n : Place(s[i]) <= m
  BY DEF InOrder
<1>4. m < q /\ q = Place(e)
  OBVIOUS
<1> HIDE DEF t, n, q
<1>5. \A i \in 1..n : Place(t[i]) < q
  BY <1>1, <1>2, <1>3, <1>4
<1>6. Place(t[n + 1]) = q
  BY <1>1, <1>4
<1>7. \A i \in 1..(n + 1) : i \in 1..n \/ i = n + 1
  BY <1>1
<1>8. ASSUME NEW i \in 1..(n + 1), NEW j \in 1..(n + 1), i < j
      PROVE  Place(t[i]) < Place(t[j])
  <2>1. i \in 1..n
    BY <1>1, <1>8
  <2>2. CASE j = n + 1
    BY <1>5, <1>6, <2>1, <2>2
  <2>3. CASE j \in 1..n
    BY <1>1, <1>3, <1>8, <2>1, <2>3
  <2>4. QED
    BY <1>7, <2>2, <2>3
<1>9. \A i \in 1..(n + 1) : Place(t[i]) <= q
  BY <1>2, <1>5, <1>6, <1>7, <1>1
<1>10. InOrder(t, q)
  BY <1>1, <1>8, <1>9 DEF InOrder
<1>11. QED
  BY <1>10 DEF t, q

LEMMA InOrderPrefix ==
    ASSUME NEW s \in Seq(Item), NEW t \in Seq(Item), NEW m, NEW k \in Nat, k <= Len(t),
           InOrder(s \o t, m)
    PROVE  InOrder(s \o SubSeq(t, 1, k), m)
<1> DEFINE u == SubSeq(t, 1, k)
           a == s \o t
           b == s \o u
<1>1. u \in Seq(Item) /\ Len(u) = k /\ \A i \in 1..k : u[i] = t[i]
  OBVIOUS
<1>2. Len(a) = Len(s) + Len(t)
      /\ \A i \in 1..Len(a) : a[i] = IF i <= Len(s) THEN s[i] ELSE t[i - Len(s)]
  OBVIOUS
<1> HIDE DEF u
<1>3. Len(b) = Len(s) + k
      /\ \A i \in 1..Len(b) : b[i] = IF i <= Len(s) THEN s[i] ELSE u[i - Len(s)]
  <2>1. /\ Len(b) = Len(s) + Len(u)
        /\ \A i \in 1..(Len(s) + Len(u)) : b[i] = IF i <= Len(s) THEN s[i] ELSE u[i - Len(s)]
    BY <1>1, ConcatProperties
  <2> HIDE DEF b
  <2>2. QED
    BY <1>1, <2>1
<1> HIDE DEF a, b
<1>4. Len(s) \in Nat /\ Len(t) \in Nat
  OBVIOUS
<1>5. \A i \in 1..Len(b) : i \in 1..Len(a) /\ b[i] = a[i]
  <2> SUFFICES ASSUME NEW i \in 1..Len(b) PROVE i \in 1..Len(a) /\ b[i] = a[i]
    OBVIOUS
  <2>1. i \in 1..Len(a)
    BY <1>2, <1>3, <1>4
  <2>2. CASE i <= Len(s)
    BY <1>2, <1>3, <2>1, <2>2
  <2>3. CASE ~(i <= Len(s))
    <3>1. i - Len(s) \in 1..k
      BY <1>3, <1>4, <2>3
    <3>2. QED
      BY <1>1, <1>2, <1>3, <2>1, <2>3, <3>1
  <2>4. QED
    BY <2>1, <2>2, <2>3
<1>6. InOrder(a, m)
  BY DEF a
<1>7. InOrder(b, m)
  BY <1>5, <1>6 DEF InOrder
<1>8. QED
  BY <1>7 DEF b, u
(* what is logged may only grow until the power comes on again *)
LEMMA ReachedGrows ==
    ASSUME AllInv, AllInv', [Next]_vars, ~PowerOn
    PROVE  Reached <= Reached'
<1>1. Reached \in Int /\ -1 <= Reached /\ Reached <= Chunks + records
  BY ReachedBounds
<1>2. Reached' \in Int /\ -1 <= Reached'
  <2>1. (Reached \in Int /\ -1 <= Reached /\ Reached <= Chunks + records)'
    BY ReachedBounds, PTL
  <2>2. QED
    BY <2>1
<1>3. pc \in PC /\ records \in Nat /\ Chunks \in Nat
  BY ManagerAssumption DEF AllInv, StackInv, RecordInv
<1>4. CASE pc \in Unwritten
  BY <1>1, <1>2, <1>4 DEF Reached
<1>5. CASE pc \notin Unwritten
  <2>1. /\ pc' \notin Unwritten /\ records' \in {records, records + 1}
        /\ pc' = "copy" => pc = "copy" /\ (CopyConfig \/ UNCHANGED <<handle, guards>>)
    BY <1>3, <1>5 DEF Next, PowerOn, MountCard, OpenSetup, Build, EndSetup, MakeDir, CountFiles,
       CountEntry, CountEnds, OpenLog, NoLog, OpenConfig, NoConfig, WriteHeader, CopyDone, EndConfig, EndLog, OpenRun,
       NoRun, WriteRecord, EndRun, PowerOff, CardGone, CardFails, CardBack, CardAnswers,
       KeepLogger, KeepCard, CopyConfig, managerVars, cardVars, loggerVars, bootVars, vars,
       Unwritten, BeforeLog, AfterOpen, PC
  <2>2. CASE pc' # "copy"
    BY <1>1, <1>3, <2>1, <2>2 DEF Reached
  <2>3. CASE pc' = "copy" /\ UNCHANGED <<handle, guards>>
    BY <1>1, <1>5, <2>1, <2>3 DEF Reached
  <2>4. CASE pc' = "copy" /\ CopyConfig
    <3> DEFINE from == guards[2]
               to   == guards[1]
    <3>1. /\ pc = "copy" /\ from \in Handle /\ to \in Handle /\ from # to /\ HandlesOK
          /\ UNCHANGED guards
          /\ handle' = [handle EXCEPT ![from].left = @ - 1,
                          ![to].buf = Append(@, ConfigText[Chunks + 1 - handle[from].left])]
      BY <2>4 DEF CopyConfig, CopyChunk, AllInv, StackInv, FilesOK, PlaceInv, TwoGood
    <3>2. handle'[from].left = handle[from].left - 1
      BY <3>1 DEF HandlesOK
    <3>3. handle[from].left \in 0..Chunks
      BY <3>1 DEF AllInv, TypedInv, HandlesTyped
    <3> HIDE DEF from, to
    <3>4. Reached = Chunks - handle[from].left
      BY <1>5, <3>1 DEF Reached, from
    <3>5. Reached' = Chunks - (handle[from].left - 1)
      BY <2>1, <2>4, <3>1, <3>2 DEF Reached, from
    <3>6. QED
      BY <1>3, <3>3, <3>4, <3>5
  <2>5. QED
    BY <2>1, <2>2, <2>3, <2>4
<1>6. QED
  BY <1>4, <1>5

LEMMA OrderMoves ==
    ASSUME TypedInv', NEW m \in Int, Reached' \in Int, m <= Reached', FilesInOrder(m)'
    PROVE  FilesInOrder(Reached)'
<1>1. ASSUME NEW s \in Seq(Item), InOrder(s, m) PROVE InOrder(s, Reached')
  BY <1>1, InOrderMore
<1>2. /\ \A p \in DOMAIN card' : card'[p] \in Seq(Item)
      /\ \A h \in Handle : handle'[h].buf \in Seq(Item)
  BY DEF TypedInv, CardTyped, HandlesTyped
<1>3. NewLogs' \subseteq DOMAIN card'
  BY DEF NewLogs, Logs
<1>4. \A s, t \in Seq(Item) : s \o t \in Seq(Item)
  BY ConcatProperties
<1>5. \A p \in NewLogs' : InOrder(card'[p], Reached')
  BY <1>1, <1>2, <1>3 DEF FilesInOrder
<1>6. ASSUME NEW h \in Handle, Waiting(h)', handle'[h].path \in NewLogs'
      PROVE  InOrder(card'[handle'[h].path] \o handle'[h].buf, Reached')
  <2> DEFINE s == card'[handle'[h].path] \o handle'[h].buf
  <2>1. s \in Seq(Item)
    BY <1>2, <1>3, <1>4, <1>6
  <2>2. InOrder(s, m)
    BY <1>6 DEF FilesInOrder
  <2> HIDE DEF s
  <2>3. InOrder(s, Reached')
    BY <1>1, <2>1, <2>2
  <2>4. QED
    BY <2>3 DEF s
<1>7. QED
  BY <1>5, <1>6 DEF FilesInOrder

LEMMA OpenOrder ==
    ASSUME AllInv, OpenStep, NEW m, FilesInOrder(m)
    PROVE  FilesInOrder(m)' /\ OnlyLogWaits'
<1>1. FilesOK /\ (AtRest \/ OneFresh) /\ UNCHANGED atBoot
  BY OpenCalls DEF AllInv, StackInv
<1>2. \A h \in Handle : ~Waiting(h)
  BY <1>1 DEF Waiting, AtRest, OneFresh, OneGood, FilesOK, StackOK, OnlyOpen, OpenIsEmpty
<1>3. PICK path, mode, create : OpenGuard(path, mode, create)
  BY OpenCalls DEF AllInv
<1>4. CASE OpenSucceeds(path, mode, create)
  <2>1. CardOpened(path, mode)
    BY <1>1, <1>4, OpenContents
  <2>2. PICK h \in Handle : GuardOpened(path, mode, h)
    BY <1>1, <1>4, OpenContents
  <2>3. ASSUME NEW g \in Handle PROVE ~Waiting(g)'
    <3>1. CASE g = h
      BY <2>2, <3>1 DEF GuardOpened, Waiting
    <3>2. CASE g # h
      BY <1>2, <2>2, <3>2 DEF GuardOpened, Waiting
    <3>3. QED
      BY <3>1, <3>2
  <2>4. ASSUME NEW p \in NewLogs' PROVE InOrder(card'[p], m)
    <3>1. p \in DOMAIN card' /\ p \in LogPath /\ p \notin DOMAIN atBoot
      BY <1>1 DEF NewLogs, Logs
    <3>2. p \in DOMAIN card => p \in NewLogs
      BY <3>1 DEF NewLogs, Logs
    <3>3. card'[p] = <<>> \/ (p \in DOMAIN card /\ card'[p] = card[p])
      BY <2>1, <3>1 DEF CardOpened, Opened
    <3>4. QED
      BY <3>2, <3>3, InOrderEmpty DEF FilesInOrder
  <2>5. QED
    BY <2>3, <2>4 DEF FilesInOrder, OnlyLogWaits
<1>5. CASE UNCHANGED handle /\ card' \in {card, Created(path, create)}
  <2>1. \A h \in Handle : ~Waiting(h)'
    BY <1>2, <1>5 DEF Waiting
  <2>2. ASSUME NEW p \in NewLogs' PROVE InOrder(card'[p], m)
    <3>1. p \in DOMAIN card' /\ p \in LogPath /\ p \notin DOMAIN atBoot
      BY <1>1 DEF NewLogs, Logs
    <3>2. p \in DOMAIN card => p \in NewLogs
      BY <3>1 DEF NewLogs, Logs
    <3>3. card'[p] = <<>> \/ (p \in DOMAIN card /\ card'[p] = card[p])
      BY <1>5, <3>1 DEF Created
    <3>4. QED
      BY <3>2, <3>3, InOrderEmpty DEF FilesInOrder
  <2>3. QED
    BY <2>1, <2>2 DEF FilesInOrder, OnlyLogWaits
<1>6. QED
  BY <1>1, <1>3, <1>4, <1>5, OpenOutcome
LEMMA CloseOrder ==
    ASSUME AllInv, StackInv', OnlyLogWaits, CloseStep, NEW m, FilesInOrder(m)
    PROVE  FilesInOrder(m)' /\ OnlyLogWaits'
<1> DEFINE hs == CloseTop \cup CloseGone
<1>1. CloseGuard /\ Len(guards) >= 1 /\ FilesOK
  BY CloseCalls DEF AllInv
<1>2. hs \subseteq Handle
  BY <1>1, RefsAreHandles DEF CloseTop, CloseGone, FilesOK, StackOK
<1>3. /\ card' = Committed(hs) /\ handle' = Closed(hs)
      /\ guards' = SubSeq(guards, 1, Len(guards) - 1)
  BY <1>1 DEF CloseGuard, CloseTop, CloseGone
<1>4. UNCHANGED atBoot
  BY DEF CloseStep, EndSetup, EndConfig, EndLog, EndRun, KeepLogger, bootVars
<1> HIDE DEF hs
<1>5. DOMAIN card' = DOMAIN card /\ NewLogs' = NewLogs /\ NewLogs \subseteq DOMAIN card
  BY <1>3, <1>4 DEF Committed, NewLogs, Logs
<1>6. \A s \in Seq(Item) : s \o <<>> = s
  BY ConcatEmptySeq
<1>7. \A p \in DOMAIN card : card[p] \in Seq(Item)
  BY DEF AllInv, TypedInv, CardTyped
<1>8. ASSUME NEW p \in DOMAIN card
      PROVE  \/ card'[p] = card[p]
             \/ \E h \in hs : Waiting(h) /\ handle[h].path = p /\ card'[p] = card[p] \o handle[h].buf
  <2>1. CASE cardOk /\ \E h \in hs : handle[h].open /\ handle[h].path = p
    <3> DEFINE h == CHOOSE h \in hs : handle[h].open /\ handle[h].path = p
    <3>1. h \in hs /\ handle[h].open /\ handle[h].path = p
      BY <2>1
    <3>2. card'[p] = card[p] \o handle[h].buf
      BY <1>3, <2>1 DEF Committed
    <3> HIDE DEF h
    <3>3. QED
      BY <1>6, <1>7, <3>1, <3>2 DEF Waiting
  <2>2. CASE ~(cardOk /\ \E h \in hs : handle[h].open /\ handle[h].path = p)
    BY <1>3, <2>2 DEF Committed
  <2>3. QED
    BY <2>1, <2>2
<1>9. ASSUME NEW p \in NewLogs' PROVE InOrder(card'[p], m)
  <2>1. p \in DOMAIN card /\ p \in NewLogs
    BY <1>5
  <2>2. CASE card'[p] = card[p]
    BY <2>1, <2>2 DEF FilesInOrder
  <2>3. CASE card'[p] # card[p]
    <3>1. PICK h \in hs : /\ Waiting(h) /\ handle[h].path = p
                          /\ card'[p] = card[p] \o handle[h].buf
      BY <1>8, <2>1, <2>3
    <3>2. InOrder(card[handle[h].path] \o handle[h].buf, m)
      BY <1>2, <2>1, <3>1 DEF FilesInOrder
    <3>3. QED
      BY <3>1, <3>2
  <2>4. QED
    BY <2>2, <2>3
<1>10. ASSUME NEW h \in Handle, Waiting(h)'
       PROVE  /\ h \notin hs /\ Waiting(h) /\ h = guards[1]
              /\ handle'[h].path = handle[h].path /\ handle'[h].buf = handle[h].buf
  <2>1. /\ handle'[h].path = handle[h].path
        /\ handle'[h].open = (handle[h].open /\ h \notin hs)
        /\ handle'[h].buf = (IF h \in hs THEN <<>> ELSE handle[h].buf)
    BY <1>1, <1>2, <1>3, ClosedOK DEF FilesOK
  <2>2. QED
    BY <1>10, <2>1 DEF Waiting, OnlyLogWaits
<1>11. ASSUME NEW h \in Handle, Waiting(h)', handle'[h].path \in NewLogs'
       PROVE  InOrder(card'[handle'[h].path] \o handle'[h].buf, m)
  <2>1. ~\E g \in hs : Waiting(g)
    BY <1>2, <1>10, <1>11 DEF OnlyLogWaits
  <2>2. card'[handle[h].path] = card[handle[h].path]
    BY <1>5, <1>8, <1>10, <1>11, <2>1
  <2>3. QED
    BY <1>5, <1>10, <1>11, <2>2 DEF FilesInOrder
<1>12. OnlyLogWaits'
  <2>1. CASE EndSetup \/ EndLog \/ EndRun
    <3>1. AtRest' /\ StackOK'
      BY <2>1 DEF EndSetup, EndLog, EndRun, StackInv, PlaceInv, FilesOK
    <3>2. QED
      BY <3>1 DEF AtRest, StackOK, OnlyOpen, OpenIsEmpty, OnlyLogWaits, Waiting
  <2>2. CASE EndConfig
    <3>1. Len(guards) = 2 /\ guards \in Seq(Handle \cup {None})
      BY <1>1, <2>2 DEF EndConfig, AllInv, StackInv, PlaceInv, TwoBad, TwoGood, FilesOK, StackOK
    <3>2. Len(guards') = 1 /\ guards'[1] = guards[1]
      BY <1>3, <3>1
    <3>3. QED
      BY <1>10, <3>2 DEF OnlyLogWaits
  <2>3. QED
    BY <2>1, <2>2 DEF CloseStep
<1>13. QED
  BY <1>9, <1>11, <1>12 DEF FilesInOrder

(* the next item, written to the log *)
AppendsToLog(e) ==
    /\ guards[1] \in Handle /\ Len(guards) > 0
    /\ UNCHANGED <<card, guards, atBoot>>
    /\ handle'[guards[1]].buf = handle[guards[1]].buf \o <<e>>
    /\ handle'[guards[1]].path = handle[guards[1]].path
    /\ handle'[guards[1]].open = handle[guards[1]].open
    /\ \A h \in Handle \ {guards[1]} :
         /\ handle'[h].open = handle[h].open /\ handle'[h].buf = handle[h].buf
         /\ handle'[h].path = handle[h].path

LEMMA WriteOrder ==
    ASSUME AllInv, OnlyLogWaits, NEW m \in Int, FilesInOrder(m),
           NEW e \in Item, m < Place(e), AppendsToLog(e)
    PROVE  FilesInOrder(Place(e))' /\ OnlyLogWaits'
<1> DEFINE g == guards[1]
           q == Place(e)
<1>1. g \in Handle /\ UNCHANGED <<card, guards, atBoot>> /\ NewLogs' = NewLogs
  BY DEF AppendsToLog, NewLogs, Logs
<1>2. q \in Int /\ m < q
  BY Places
<1>3. /\ \A p \in NewLogs : card[p] \in Seq(Item)
      /\ handle[g].buf \in Seq(Item)
  BY <1>1 DEF AllInv, TypedInv, CardTyped, HandlesTyped, NewLogs, Logs
<1> HIDE DEF q
<1>4. ASSUME NEW p \in NewLogs' PROVE InOrder(card'[p], q)
  <2>1. card'[p] = card[p] /\ card[p] \in Seq(Item) /\ InOrder(card[p], m)
    BY <1>1, <1>3 DEF FilesInOrder
  <2>2. QED
    BY <1>2, <2>1, InOrderMore
<1>5. ASSUME NEW h \in Handle, Waiting(h)'
      PROVE  h = g
  BY <1>5 DEF AppendsToLog, Waiting, OnlyLogWaits
<1>6. OnlyLogWaits'
  BY <1>1, <1>5 DEF OnlyLogWaits, AppendsToLog
<1>7. ASSUME NEW h \in Handle, Waiting(h)', handle'[h].path \in NewLogs'
      PROVE  InOrder(card'[handle'[h].path] \o handle'[h].buf, q)
  <2> DEFINE p == handle[g].path
             a == card[p]
             b == handle[g].buf
  <2>0. h = g
    BY <1>5, <1>7
  <2>1. p \in NewLogs /\ handle'[g].path = p /\ handle'[g].buf = b \o <<e>> /\ handle[g].open
    BY <1>1, <1>7, <2>0 DEF AppendsToLog, Waiting
  <2>2. a \in Seq(Item) /\ b \in Seq(Item) /\ <<e>> \in Seq(Item)
    BY <1>3, <2>1
  <2>3. InOrder(a \o b, m)
    <3>1. CASE b = <<>>
      <4>1. a \o <<>> = a
        BY <2>2, ConcatEmptySeq
      <4>2. InOrder(a, m)
        BY <2>1 DEF FilesInOrder
      <4>3. QED
        BY <3>1, <4>1, <4>2
    <3>2. CASE b # <<>>
      BY <1>1, <2>1, <3>2 DEF FilesInOrder, Waiting
    <3>3. QED
      BY <3>1, <3>2
  <2>4. card'[handle'[g].path] \o handle'[g].buf = a \o (b \o <<e>>)
    BY <1>1, <2>1
  <2> HIDE DEF a, b
  <2>5. a \o b \in Seq(Item) /\ (a \o b) \o <<e>> = a \o (b \o <<e>>)
    BY <2>2, ConcatProperties, ConcatAssociative
  <2>6. InOrder((a \o b) \o <<e>>, q)
    BY <2>3, <2>5, InOrderAppend DEF q
  <2>7. QED
    BY <2>0, <2>4, <2>5, <2>6
<1>8. FilesInOrder(q)'
  BY <1>4, <1>7 DEF FilesInOrder
<1>9. QED
  BY <1>6, <1>8 DEF q
(* of what was waiting for a file only a beginning may arrive *)
LEMMA PowerOffOrder ==
    ASSUME AllInv, PowerOff, NEW m, FilesInOrder(m)
    PROVE  FilesInOrder(m)' /\ OnlyLogWaits'
<1> DEFINE open == {h \in Handle : handle[h].open}
<1>1. PICK k \in [open -> 0..(Chunks + 1)] :
        /\ \A h \in open : k[h] <= Len(handle[h].buf) /\ (~cardOk => k[h] = 0)
        /\ card' = [p \in DOMAIN card |->
                card[p] \o (IF \E h \in open : handle[h].path = p
                            THEN LET h == CHOOSE h \in open : handle[h].path = p
                                 IN  SubSeq(handle[h].buf, 1, k[h])
                            ELSE <<>>)]
  BY DEF PowerOff
<1>2. UNCHANGED atBoot /\ handle' = [h \in Handle |-> NoFile]
  BY DEF PowerOff, KeepLogger, bootVars
<1>3. NewLogs' = NewLogs /\ NewLogs \subseteq DOMAIN card
  BY <1>1, <1>2 DEF NewLogs, Logs
<1>4. \A h \in Handle : ~Waiting(h)'
  BY <1>2, NoFileTyped DEF Waiting
<1>5. ASSUME NEW p \in NewLogs PROVE InOrder(card'[p], m)
  <2>1. card[p] \in Seq(Item) /\ p \in DOMAIN card /\ InOrder(card[p], m)
    BY <1>3 DEF AllInv, TypedInv, CardTyped, FilesInOrder
  <2>2. card[p] \o <<>> = card[p]
    BY <2>1, ConcatEmptySeq
  <2>3. CASE \E h \in open : handle[h].path = p
    <3> DEFINE h == CHOOSE h \in open : handle[h].path = p
    <3>1. h \in open /\ handle[h].path = p
      BY <2>3
    <3>2. card'[p] = card[p] \o SubSeq(handle[h].buf, 1, k[h])
      BY <1>1, <2>1, <2>3
    <3>3. h \in Handle /\ handle[h].open
      BY <3>1
    <3>4. k[h] \in Nat /\ k[h] <= Len(handle[h].buf) /\ handle[h].buf \in Seq(Item)
      BY <1>1, <3>1, <3>3, ManagerAssumption DEF AllInv, TypedInv, HandlesTyped
    <3> HIDE DEF h, open
    <3>5. CASE handle[h].buf = <<>>
      <4>1. k[h] = 0
        BY <3>4, <3>5
      <4>2. SubSeq(handle[h].buf, 1, k[h]) = <<>>
        BY <3>5, <4>1
      <4>3. QED
        BY <2>1, <2>2, <3>2, <4>2
    <3>6. CASE handle[h].buf # <<>>
      <4>1. InOrder(card[p] \o handle[h].buf, m)
        BY <3>1, <3>3, <3>6 DEF FilesInOrder, Waiting
      <4>2. QED
        BY <2>1, <3>2, <3>4, <4>1, InOrderPrefix
    <3>7. QED
      BY <3>5, <3>6
  <2>4. CASE ~\E h \in open : handle[h].path = p
    BY <1>1, <2>1, <2>2, <2>4
  <2>5. QED
    BY <2>3, <2>4
<1>6. QED
  BY <1>3, <1>4, <1>5 DEF FilesInOrder, OnlyLogWaits

(* what each write adds comes right after what was logged before it *)
LEMMA NextItem ==
    ASSUME AllInv, WriteStep
    PROVE  \E e \in Item : Reached < Place(e) /\ Place(e) <= Reached' /\ AppendsToLog(e)
<1> DEFINE g == guards[1]
<1>1. /\ g \in Handle /\ HandlesOK /\ Len(guards) > 0
      /\ UNCHANGED <<card, guards, atBoot>>
      /\ handle[g].buf \in Seq(Item)
  <2>1. /\ pc \in {"config_opened", "copy", "run"} /\ UNCHANGED <<card, guards, atBoot>>
        /\ pc = "config_opened" => guards[2] # None
        /\ pc = "run" => g # None
    BY DEF WriteStep, WriteHeader, CopyConfig, WriteRecord, Write, CopyChunk, KeepLogger,
       bootVars, cardVars
  <2>2. TwoGood \/ OneGood
    BY <2>1 DEF AllInv, StackInv, PlaceInv, TwoBad, OneBad
  <2>3. g \in Handle /\ Len(guards) > 0
    BY <2>2 DEF TwoGood, OneGood
  <2>4. QED
    BY <2>1, <2>3 DEF AllInv, StackInv, FilesOK, TypedInv, HandlesTyped
<1>2. Chunks \in Nat /\ records \in Nat
  BY ManagerAssumption DEF AllInv, RecordInv
<1>3. ASSUME NEW e, handle' = [handle EXCEPT ![g].buf = @ \o <<e>>]
      PROVE  AppendsToLog(e)
  BY <1>1, <1>3 DEF HandlesOK, AppendsToLog
<1>4. CASE WriteHeader
  <2>1. pc = "config_opened" /\ pc' = "copy" /\ handle' = [handle EXCEPT ![g].buf = @ \o <<Header>>]
    BY <1>4 DEF WriteHeader, Write
  <2>2. AppendsToLog(Header)
    BY <1>3, <2>1
  <2>3. Reached = -1
    BY <2>1 DEF Reached, Unwritten
  <2>4. TwoGood
    BY <1>4 DEF WriteHeader, AllInv, StackInv, PlaceInv, TwoBad
  <2>5. handle'[guards'[2]].left \in 0..Chunks
    BY <1>1, <2>1, <2>4 DEF TwoGood, HandlesOK, AllInv, TypedInv, HandlesTyped
  <2>6. Reached' = Chunks - handle'[guards'[2]].left
    BY <2>1 DEF Reached, Unwritten, BeforeLog, AfterOpen
  <2>7. 0 <= Reached' /\ Reached < 0
    BY <1>2, <2>3, <2>5, <2>6
  <2>8. QED
    BY <2>2, <2>7, Places, ItemTypes
<1>5. CASE CopyConfig
  <2> DEFINE from == guards[2]
             n    == handle[from].left
             e    == ConfigText[Chunks + 1 - n]
  <2>1. /\ pc = "copy" /\ pc' = "copy" /\ from \in Handle /\ from # g /\ n > 0
        /\ handle' = [handle EXCEPT ![from].left = @ - 1, ![g].buf = Append(@, e)]
    BY <1>5 DEF CopyConfig, CopyChunk, AllInv, StackInv, PlaceInv, TwoGood
  <2>2. n \in 1..Chunks
    BY <2>1 DEF AllInv, TypedInv, HandlesTyped
  <2>3. e = Chunk(Chunks + 1 - n) /\ Chunks + 1 - n \in Nat
    BY <1>2, <2>2, ItemTypes
  <2>4. e \in Item /\ Place(e) = Chunks + 1 - n
    BY <2>3, ItemTypes, Places
  <2> HIDE DEF e
  <2>5. handle'[from].left = n - 1 /\ handle'[from].buf = handle[from].buf
        /\ handle'[from].open = handle[from].open /\ handle'[from].path = handle[from].path
    BY <1>1, <2>1 DEF HandlesOK
  <2>6. /\ handle'[g].buf = Append(handle[g].buf, e) /\ handle'[g].open = handle[g].open
        /\ handle'[g].path = handle[g].path
        /\ \A h \in Handle \ {g, from} : handle'[h] = handle[h]
    BY <1>1, <2>1 DEF HandlesOK
  <2>7. Append(handle[g].buf, e) = handle[g].buf \o <<e>>
    BY <1>1, <2>4, AppendIsConcat
  <2>8. AppendsToLog(e)
    <3>1. ASSUME NEW h \in Handle \ {g}
          PROVE  /\ handle'[h].open = handle[h].open /\ handle'[h].buf = handle[h].buf
                 /\ handle'[h].path = handle[h].path
      BY <2>5, <2>6
    <3> HIDE DEF from, n
    <3>2. QED
      BY <1>1, <2>6, <2>7, <3>1 DEF AppendsToLog
  <2>9. Reached = Chunks - n /\ Reached' = Chunks - (n - 1)
    BY <1>1, <2>1, <2>5 DEF Reached, Unwritten, BeforeLog, AfterOpen
  <2>10. Reached < Place(e) /\ Place(e) <= Reached'
    BY <1>2, <2>2, <2>4, <2>9
  <2>11. QED
    BY <2>4, <2>8, <2>10
<1>6. CASE WriteRecord
  <2> DEFINE e == Record(records + 1)
  <2>1. /\ pc = "run" /\ pc' = "run_end" /\ records' = records + 1
        /\ handle' = [handle EXCEPT ![g].buf = @ \o <<e>>]
    BY <1>6 DEF WriteRecord, Write
  <2>2. AppendsToLog(e)
    BY <1>3, <2>1
  <2>3. e \in Item /\ Place(e) = Chunks + (records + 1)
    <3>1. records + 1 \in Nat
      BY <1>2
    <3>2. QED
      BY <3>1, ItemTypes, Places
  <2>4. Reached = Chunks + records /\ Reached' = Chunks + (records + 1)
    BY <2>1 DEF Reached, Unwritten, BeforeLog, AfterOpen
  <2>5. QED
    BY <1>2, <2>2, <2>3, <2>4
<1>7. QED
  BY <1>4, <1>5, <1>6 DEF WriteStep

LEMMA NextOrder == AllInv /\ AllInv' /\ OrderInv /\ [Next]_vars => OrderInv'
<1> SUFFICES ASSUME AllInv, AllInv', OrderInv, [Next]_vars PROVE OrderInv'
  OBVIOUS
<1>1. Reached \in Int
  BY ReachedBounds
<1>2. (Reached \in Int /\ -1 <= Reached /\ Reached <= Chunks + records)'
  BY ReachedBounds, PTL
<1>3. PICK m \in Int : m = Reached
  BY <1>1
<1>4. FilesInOrder(m) /\ OnlyLogWaits
  BY <1>3 DEF OrderInv
<1>5. CASE PowerOn
  <2>1. AtRest' /\ StackOK' /\ atBoot' = card'
    BY <1>5 DEF PowerOn, AllInv, StackInv, PlaceInv, FilesOK
  <2>2. NewLogs' = {}
    BY <2>1 DEF NewLogs, Logs
  <2>3. OnlyLogWaits'
    BY <2>1 DEF AtRest, StackOK, OnlyOpen, OpenIsEmpty, OnlyLogWaits, Waiting
  <2>4. QED
    BY <2>2, <2>3 DEF OrderInv, FilesInOrder
<1>6. CASE WriteStep
  <2>1. PICK e \in Item : Reached < Place(e) /\ Place(e) <= Reached' /\ AppendsToLog(e)
    BY <1>6, NextItem
  <2>2. FilesInOrder(Place(e))' /\ OnlyLogWaits'
    BY <1>3, <1>4, <2>1, WriteOrder
  <2>3. PICK q \in Int : q = Place(e)
    BY Places
  <2>4. FilesInOrder(q)' /\ q <= Reached'
    BY <2>1, <2>2, <2>3
  <2>5. FilesInOrder(Reached)'
    BY <1>2, <2>4, OrderMoves DEF AllInv
  <2>6. QED
    BY <2>2, <2>5 DEF OrderInv
<1>7. CASE ~PowerOn /\ ~WriteStep
  <2>1. m <= Reached'
    BY <1>3, <1>7, ReachedGrows
  <2>2. FilesInOrder(m)' /\ OnlyLogWaits'
    <3>1. CASE StillStep
      <4>1. UNCHANGED <<card, handle, guards, atBoot>>
        BY <1>7, <3>1, StillFiles DEF StillStep, MountCard, Build, MakeDir, CountStep,
           CountFiles, CountEntry, CountEnds, NoLog, NoConfig, CopyDone, NoRun, CardGone, CardBack, KeepLogger, bootVars, loggerVars, vars
      <4>2. QED
        BY <1>4, <4>1 DEF FilesInOrder, OnlyLogWaits, NewLogs, Logs, Waiting
    <3>2. CASE OpenStep
      BY <1>4, <3>2, OpenOrder
    <3>3. CASE CloseStep
      BY <1>4, <3>3, CloseOrder DEF AllInv
    <3>4. CASE PowerOff
      BY <1>4, <3>4, PowerOffOrder
    <3>5. QED
      BY <1>7, <3>1, <3>2, <3>3, <3>4, NextSteps
  <2>3. FilesInOrder(Reached)'
    BY <1>2, <2>1, <2>2, OrderMoves DEF AllInv
  <2>4. QED
    BY <2>2, <2>3 DEF OrderInv
<1>8. QED
  BY <1>5, <1>6, <1>7

LEMMA OrderKept == AllInv /\ OrderInv => LogInOrder
<1> SUFFICES ASSUME AllInv, OrderInv, NEW p \in (DOMAIN card \cap LogPath) \ DOMAIN atBoot
             PROVE  /\ \A i, j \in DOMAIN card[p] : i < j => Place(card[p][i]) < Place(card[p][j])
                    /\ \A i \in DOMAIN card[p] : Place(card[p][i]) <= Chunks + records
  BY DEF LogInOrder
<1>1. card[p] \in Seq(Item) /\ InOrder(card[p], Reached)
  BY DEF AllInv, TypedInv, CardTyped, OrderInv, FilesInOrder, NewLogs, Logs
<1>2. Reached \in Int /\ Reached <= Chunks + records /\ Chunks + records \in Int
  BY ReachedBounds, ManagerAssumption DEF AllInv, RecordInv
<1>3. InOrder(card[p], Chunks + records)
  BY <1>1, <1>2, InOrderMore
<1>4. DOMAIN card[p] = 1..Len(card[p])
  BY <1>1
<1>5. QED
  BY <1>3, <1>4 DEF InOrder

(* LogInOrder: log() looks at no result of a write (sd_logger.hpp:104-113), *)
(* so a card that fails for a while leaves gaps; but for any number of      *)
(* records, any failures and power cuts and either FILE_WRITE a log of this *)
(* boot holds nothing twice, nothing out of order and nothing not logged.   *)
THEOREM LogsStayInOrder == Spec => []LogInOrder
<1>1. Init => OrderInv
  <2> SUFFICES ASSUME Init PROVE OrderInv
    OBVIOUS
  <2>1. \A h \in Handle : ~Waiting(h)
    BY NoFileTyped DEF Init, ManagerReset, Waiting
  <2>2. NewLogs = {}
    BY FileNames DEF Init, CardInit, NewLogs, Logs
  <2>3. QED
    BY <2>1, <2>2 DEF OrderInv, OnlyLogWaits, FilesInOrder
<1>2. QED
  BY <1>1, AllInvariant, NextOrder, OrderKept, PTL DEF Spec
-----------------------------------------------------------------------------
(* What a miscount can cost. *)
GrownFrom(old, new) == \E t \in Seq(Item) : new = old \o t

OldKept(p) ==
    /\ p \in DOMAIN card /\ atBoot[p] \in Seq(Item)
    /\ p = filename \/ card[p] = atBoot[p]
    /\ fileWrite = "append" => GrownFrom(atBoot[p], card[p])

MiscountInv ==
    IF miscounted
    THEN /\ pc \in AfterCount \cup {"off"}
         /\ \A p \in OldLogs : OldKept(p)
    ELSE \A p \in OldLogs : p \in DOMAIN card /\ card[p] = atBoot[p]

AtBootTyped == \A p \in OldLogs : atBoot[p] \in Seq(Item)
-----------------------------------------------------------------------------
LEMMA GrownSelf == ASSUME NEW s \in Seq(Item) PROVE GrownFrom(s, s)
<1>1. s \o <<>> = s /\ <<>> \in Seq(Item)
  BY ConcatEmptySeq, EmptySeq
<1>2. QED
  BY <1>1 DEF GrownFrom

LEMMA GrownOn ==
    ASSUME NEW a \in Seq(Item), NEW b, NEW c, GrownFrom(a, b), GrownFrom(b, c)
    PROVE  GrownFrom(a, c)
<1>1. PICK t \in Seq(Item) : b = a \o t
  BY DEF GrownFrom
<1>2. PICK u \in Seq(Item) : c = b \o u
  BY DEF GrownFrom
<1>3. (a \o t) \o u = a \o (t \o u) /\ t \o u \in Seq(Item)
  BY ConcatAssociative, ConcatProperties
<1>4. QED
  BY <1>1, <1>2, <1>3 DEF GrownFrom

(* only the log that has been named is written, and where FILE_WRITE        *)
(* appends no file ever loses anything                                      *)
StepKeeps(p) ==
    /\ p \in DOMAIN card'
    /\ p = filename \/ card'[p] = card[p]
    /\ fileWrite = "append" => GrownFrom(card[p], card'[p])

LEMMA EveryStepKeeps ==
    ASSUME AllInv, [Next]_vars, NEW p \in DOMAIN card, p \in LogPath
    PROVE  StepKeeps(p)
<1>1. card[p] \in Seq(Item) /\ GrownFrom(card[p], card[p])
  BY GrownSelf DEF AllInv, TypedInv, CardTyped
<1>2. p # filename => NotWritten(p)
  BY DEF AllInv, LogsInv, OnlyLogWritten, NotWritten
<1>3. card[p] \o <<>> = card[p]
  BY <1>1, ConcatEmptySeq
<1>4. CASE StillStep \/ WriteStep
  <2>1. UNCHANGED card
    BY <1>4, StillFiles DEF WriteStep, WriteHeader, CopyConfig, WriteRecord, Write, CopyChunk,
       cardVars
  <2>2. QED
    BY <1>1, <2>1 DEF StepKeeps
<1>5. CASE OpenStep
  <2>1. FilesOK /\ (AtRest \/ OneFresh)
    BY <1>5, OpenCalls DEF AllInv, StackInv
  <2>2. PICK path, mode, create :
          /\ OpenGuard(path, mode, create)
          /\ path = filename \/ (path = Config /\ mode = "read")
    BY <1>5, OpenCalls DEF AllInv
  <2>3. p # Config
    BY FileNames
  <2>4. CASE OpenSucceeds(path, mode, create)
    <3>1. CardOpened(path, mode)
      BY <2>1, <2>4, OpenContents
    <3>2. p # path => p \in DOMAIN card' /\ card'[p] = card[p]
      BY <3>1 DEF CardOpened
    <3>3. p = path => p \in DOMAIN card' /\ p = filename
      BY <2>2, <2>3, <3>1 DEF CardOpened
    <3>4. p = path /\ fileWrite = "append" => card'[p] = card[p]
      BY <3>1 DEF CardOpened, Opened
    <3>5. QED
      BY <1>1, <3>2, <3>3, <3>4 DEF StepKeeps
  <2>5. CASE card' \in {card, Created(path, create)}
    <3>1. p \in DOMAIN card' /\ card'[p] = card[p]
      BY <2>5 DEF Created, Exists
    <3>2. QED
      BY <1>1, <3>1 DEF StepKeeps
  <2>6. QED
    BY <2>1, <2>2, <2>4, <2>5, OpenOutcome
<1>6. CASE CloseStep
  <2> DEFINE hs == CloseTop \cup CloseGone
  <2>1. FilesOK /\ card' = Committed(hs) /\ hs \subseteq Handle
    <3>1. FilesOK /\ card' = Committed(hs)
      BY <1>6, CloseCalls DEF AllInv, CloseGuard, CloseTop, CloseGone
    <3>2. QED
      BY <3>1, RefsAreHandles DEF CloseTop, CloseGone, FilesOK, StackOK
  <2> HIDE DEF hs
  <2>2. p \in DOMAIN card'
    BY <2>1 DEF Committed
  <2>3. p # filename => card'[p] = card[p]
    BY <1>2, <2>1, CommittedKeeps
  <2>4. GrownFrom(card[p], card'[p])
    <3>1. CASE cardOk /\ \E h \in hs : handle[h].open /\ handle[h].path = p
      <4> DEFINE h == CHOOSE h \in hs : handle[h].open /\ handle[h].path = p
      <4>1. h \in Handle
        BY <2>1, <3>1
      <4>2. card'[p] = card[p] \o handle[h].buf
        BY <2>1, <3>1 DEF Committed
      <4> HIDE DEF h
      <4>3. QED
        BY <4>1, <4>2 DEF GrownFrom, AllInv, TypedInv, HandlesTyped
    <3>2. CASE ~(cardOk /\ \E h \in hs : handle[h].open /\ handle[h].path = p)
      BY <1>1, <2>1, <3>2 DEF Committed
    <3>3. QED
      BY <3>1, <3>2
  <2>5. QED
    BY <2>2, <2>3, <2>4 DEF StepKeeps
<1>7. CASE PowerOff
  <2>1. DOMAIN card' = DOMAIN card
        /\ \E t \in Seq(Item) : card'[p] = card[p] \o t /\ (NotWritten(p) => t = <<>>)
    BY <1>7, PowerOffAdds DEF AllInv, TypedInv
  <2>2. QED
    BY <1>2, <1>3, <2>1 DEF StepKeeps, GrownFrom
<1>8. QED
  BY <1>4, <1>5, <1>6, <1>7, NextSteps

LEMMA NextMiscount ==
    AllInv /\ AllInv' /\ AtBootTyped /\ MiscountInv /\ [Next]_vars
      => AtBootTyped' /\ MiscountInv'
<1> SUFFICES ASSUME AllInv, AllInv', AtBootTyped, MiscountInv, [Next]_vars
             PROVE  AtBootTyped' /\ MiscountInv'
  OBVIOUS
<1>0. ASSUME ~miscounted', pc' # "off", NEW p \in OldLogs'
      PROVE  p \in DOMAIN card' /\ card'[p] = atBoot'[p]
  BY <1>0 DEF AllInv, LogsInv, EarlierLogsKept, OldLogs
<1>1. CASE PowerOn
  <2>1. atBoot' = card /\ miscounted' = FALSE /\ pc' # "off"
    BY <1>1 DEF PowerOn
  <2>2. AtBootTyped'
    BY <2>1 DEF AtBootTyped, OldLogs, AllInv, TypedInv, CardTyped
  <2>3. QED
    BY <1>0, <2>1, <2>2 DEF MiscountInv
<1>2. CASE CountStep
  <2>1. /\ pc \in {"count", "counting"} /\ pc' \in {"counting", "open_log"}
        /\ pc' = "counting" => ~miscounted' \/ UNCHANGED miscounted
        /\ UNCHANGED <<atBoot, card, fileWrite>>
    BY <1>2 DEF CountStep, CountFiles, CountEntry, CountEnds, Lists, KeepCard, cardVars, bootVars
  <2>2. ~miscounted /\ EarlierLogsKept
    BY <2>1 DEF AllInv, LogsInv, CountInv, AfterCount, AfterDir, PC
  <2>3. \A p \in OldLogs : /\ p \in DOMAIN card /\ card[p] = atBoot[p]
                           /\ atBoot[p] \in Seq(Item)
    BY <2>1, <2>2 DEF EarlierLogsKept, OldLogs, AtBootTyped
  <2>4. miscounted' => pc' \in AfterCount
    BY <2>1, <2>2 DEF AfterCount, AfterDir, PC
  <2>5. \A p \in OldLogs : OldKept(p)'
    BY <2>1, <2>3, GrownSelf DEF OldKept
  <2>6. OldLogs' = OldLogs /\ AtBootTyped' /\ pc' # "off"
    BY <2>1 DEF AtBootTyped, OldLogs
  <2>7. QED
    BY <1>0, <2>4, <2>5, <2>6 DEF MiscountInv
<1>3. CASE ~PowerOn /\ ~CountStep
  <2>1. /\ UNCHANGED <<atBoot, miscounted>>
        /\ pc \in AfterCount \cup {"off"} =>
             pc' \in AfterCount \cup {"off"} /\ UNCHANGED filename
    <3>1. CASE StillStep
      BY <1>3, <3>1 DEF StillStep, MountCard, Build, MakeDir, NoLog, NoConfig, CopyDone, NoRun,
         CardGone, CardBack, KeepLogger, bootVars, loggerVars, vars, AfterCount, AfterDir, PC
    <3>2. CASE OpenStep
      BY <3>2, OpenCalls DEF AllInv, AfterCount, AfterDir, PC
    <3>3. CASE WriteStep \/ CloseStep \/ PowerOff
      BY <3>3 DEF WriteStep, WriteHeader, CopyConfig, WriteRecord, CloseStep, EndSetup,
         EndConfig, EndLog, EndRun, PowerOff, KeepLogger, bootVars, AfterCount, AfterDir, PC
    <3>4. QED
      BY <3>1, <3>2, <3>3, NextSteps
  <2>2. UNCHANGED fileWrite
    <3>1. CASE OpenStep
      <4>1. PICK path, mode, create :
              /\ OpenGuard(path, mode, create)
              /\ path = filename \/ (path = Config /\ mode = "read")
        BY <3>1, OpenCalls DEF AllInv
      <4>2. FilesOK /\ (AtRest \/ OneFresh)
        BY <3>1, OpenCalls DEF AllInv, StackInv
      <4>3. QED
        BY <4>1, <4>2, OpenOutcome
    <3>2. CASE StillStep
      <4>1. CASE Build \/ NoLog \/ NoConfig \/ CopyDone \/ NoRun \/ UNCHANGED vars
        BY <4>1 DEF Build, NoLog, NoConfig, CopyDone, NoRun, KeepCard, cardVars, vars
      <4>2. CASE MountCard \/ \E dir \in Dir : MakeDir(dir)
        BY <4>2 DEF MountCard, Mount, MakeDir, CreateDir, cardVars
      <4>3. CASE CardGone \/ CardBack
        BY <4>3 DEF CardGone, CardFails, CardBack, CardAnswers
      <4>4. QED
        BY <1>3, <3>2, <4>1, <4>2, <4>3 DEF StillStep
    <3>3. CASE WriteStep \/ CloseStep \/ PowerOff
      <4>1. CASE WriteStep
        BY <4>1 DEF WriteStep, WriteHeader, CopyConfig, WriteRecord, Write, CopyChunk, cardVars
      <4>2. CASE CloseStep
        <5>1. CloseGuard
          BY <4>2, CloseCalls DEF AllInv
        <5>2. QED
          BY <5>1 DEF CloseGuard
      <4>3. CASE PowerOff
        BY <4>3 DEF PowerOff
      <4>4. QED
        BY <3>3, <4>1, <4>2, <4>3
    <3>4. QED
      BY <3>1, <3>2, <3>3, NextSteps
  <2>3. AtBootTyped' /\ OldLogs' = OldLogs
    BY <2>1 DEF AtBootTyped, OldLogs
  <2>4. ASSUME miscounted', NEW p \in OldLogs PROVE OldKept(p)'
    <3>1. OldKept(p) /\ UNCHANGED filename
      BY <2>1, <2>4 DEF MiscountInv, OldLogs
    <3>2. StepKeeps(p)
      BY <3>1, EveryStepKeeps DEF OldKept, OldLogs
    <3>3. fileWrite = "append" => GrownFrom(atBoot[p], card'[p])
      BY <3>1, <3>2, GrownOn DEF OldKept, StepKeeps
    <3>4. QED
      BY <2>1, <2>2, <3>1, <3>2, <3>3 DEF OldKept, StepKeeps
  <2>5. ASSUME ~miscounted', pc' = "off", NEW p \in OldLogs
        PROVE  p \in DOMAIN card' /\ card'[p] = atBoot[p]
    <3>1. p \in DOMAIN card /\ p \in LogPath /\ card[p] = atBoot[p] /\ ~miscounted
      BY <2>1, <2>5 DEF MiscountInv, OldLogs
    <3>2. NotWritten(p)
      BY <3>1, <2>5 DEF AllInv, LogsInv, OnlyLogWritten, OwnLog, NotWritten
    <3>3. CASE PowerOff
      <4>1. p \in DOMAIN card' /\ card'[p] = card[p] \o <<>> /\ card[p] \in Seq(Item)
        BY <3>1, <3>2, <3>3, PowerOffAdds DEF AllInv, TypedInv, CardTyped
      <4>2. QED
        BY <3>1, <4>1, ConcatEmptySeq
    <3>4. CASE ~PowerOff
      <4>1. UNCHANGED card
        BY <1>3, <2>5, <3>4, NextSteps, StillFiles DEF OpenStep, OpenSetup, OpenLog,
           OpenConfig, OpenRun, WriteStep, WriteHeader, CopyConfig, WriteRecord, CloseStep,
           EndSetup, EndConfig, EndLog, EndRun
      <4>2. QED
        BY <3>1, <4>1
    <3>5. QED
      BY <3>3, <3>4
  <2>6. QED
    BY <1>0, <2>1, <2>3, <2>4, <2>5 DEF MiscountInv
<1>4. QED
  BY <1>1, <1>2, <1>3
LEMMA MiscountKept == AtBootTyped /\ MiscountInv => MiscountCostsOneLog
<1> SUFFICES ASSUME AtBootTyped, MiscountInv, NEW p \in OldLogs
             PROVE  /\ p \in DOMAIN card
                    /\ card[p] # atBoot[p] => miscounted /\ p = filename
                    /\ fileWrite = "append" => IsPrefix(atBoot[p], card[p])
  BY DEF MiscountCostsOneLog, OldLogs
<1>1. \A s, t \in Seq(Item) : IsPrefix(s, s \o t)
  BY PrefixOfConcat
<1>2. atBoot[p] \in Seq(Item) /\ GrownFrom(atBoot[p], atBoot[p])
  BY GrownSelf DEF AtBootTyped
<1>3. GrownFrom(atBoot[p], card[p]) => IsPrefix(atBoot[p], card[p])
  BY <1>1, <1>2 DEF GrownFrom
<1>4. CASE miscounted
  BY <1>3, <1>4 DEF MiscountInv, OldKept
<1>5. CASE ~miscounted
  BY <1>2, <1>3, <1>5 DEF MiscountInv
<1>6. QED
  BY <1>4, <1>5

(* MiscountCostsOneLog: the count may stop at any entry of a directory of   *)
(* any size (sd_manager.cpp:159-170), and of all the logs of earlier boots, *)
(* in any number of directories, this can cost one, that of the number it   *)
(* stopped at, and of it nothing if FILE_WRITE appends.                     *)
THEOREM MiscountIsLimited == Spec => []MiscountCostsOneLog
<1>1. Init => AtBootTyped /\ MiscountInv
  BY DEF Init, AtBootTyped, MiscountInv, OldLogs
<1>2. QED
  BY <1>1, AllInvariant, NextMiscount, MiscountKept, PTL DEF Spec
=============================================================================
