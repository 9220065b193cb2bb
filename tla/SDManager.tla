----------------------------- MODULE SDManager -----------------------------
(***************************************************************************)
(* lib/telemetry/sd_manager.{hpp,cpp}: the card, the stack of open files   *)
(* and the FileGuards that live on the C++ stack of their user.  One task  *)
(* at a time uses it (setup(), then LOG), so each call is one step.        *)
(*                                                                         *)
(* The card and fs::File are outside the repository.  What the code relies *)
(* on, and the model has: a File is a shared reference to an open file;    *)
(* the file closes when it is told to or when its last reference goes;     *)
(* what was written is on the card once the file is closed; name() is the  *)
(* last component of a path and so differs from every path, which starts   *)
(* with '/'; availableForWrite() is 0; available() is what is left to      *)
(* read; FILE_WRITE creates the file and, depending on the core, truncates *)
(* it or appends to it.                                                    *)
(***************************************************************************)
EXTENDS Integers, Sequences, FiniteSets

CONSTANTS
    Dir,              \* names of the directories a boot can log to
    MaxFiles,         \* bound: logs in a directory
    Chunks,           \* reads that /config.telem takes
    MAX_STACK_SIZE,
    FileWriteModes,   \* what FILE_WRITE may do: subset of {"truncate", "append"}
    None

ASSUME ManagerAssumption ==
    /\ None \notin Dir \cup Nat
    /\ MaxFiles \in Nat /\ Chunks \in Nat \ {0} /\ MAX_STACK_SIZE \in Nat \ {0}
    /\ FileWriteModes \subseteq {"truncate", "append"}

VARIABLES
    managerStatus,   \* _managerStatus
    fileStack,       \* _fileStack: references to open (or closed) files
    fileStackPtr,    \* _fileStackPtr
    guards,          \* the FileGuards alive, innermost last: their _file, None if FILE_BAD
    handle,          \* the files the fs::File objects refer to
    card,            \* contents of the files on the card
    dirs,            \* directories on the card
    cardOk,          \* the card is in and answers
    fileWrite        \* what this core's FILE_WRITE does

managerVars == <<managerStatus, fileStack, fileStackPtr, guards, handle>>
cardVars    == <<card, dirs, cardOk, fileWrite>>

(* "/<dir>/log_<n>.daq", and "/config.telem" in no directory *)
LogPath == [dir : Dir, n : 0..(MaxFiles - 1)]
Config  == [dir |-> None, n |-> 0]
Path    == LogPath \cup {Config}

(* what is written to files, in the pieces the code writes *)
Item   == [kind : {"header", "chunk", "record"}, i : Nat]
Header == [kind |-> "header", i |-> 0]
Chunk(i)  == [kind |-> "chunk", i |-> i]
Record(i) == [kind |-> "record", i |-> i]
ConfigText == [i \in 1..Chunks |-> Chunk(i)]

Handle == 1..(MAX_STACK_SIZE + 1)
Slots  == 0..(MAX_STACK_SIZE - 1)

NoFile == [path |-> None, open |-> FALSE, left |-> 0, buf |-> <<>>]

(* references there are to handle h, besides the user's copies, which do    *)
(* not outlive the guard they come from                                     *)
Referenced(stack, gs) == {stack[i] : i \in Slots} \cup {gs[i] : i \in 1..Len(gs)}

FreshHandle == CHOOSE h \in Handle : h \notin Referenced(fileStack, guards)

(* what closing the files in hs leaves on the card *)
Committed(hs) ==
    [p \in DOMAIN card |->
       IF cardOk /\ \E h \in hs : handle[h].open /\ handle[h].path = p
       THEN card[p] \o handle[CHOOSE h \in hs : handle[h].open /\ handle[h].path = p].buf
       ELSE card[p]]

Closed(hs) ==
    [h \in Handle |-> IF h \in hs THEN [handle[h] EXCEPT !.open = FALSE, !.buf = <<>>]
                                  ELSE handle[h]]

ManagerTypeOK ==
    /\ managerStatus \in {"good", "bad"}
    /\ fileStack \in [Slots -> Handle \cup {None}]
    /\ fileStackPtr \in 0..MAX_STACK_SIZE
    /\ \A i \in 1..Len(guards) : guards[i] \in Handle \cup {None}
    /\ \A h \in Handle :
         /\ handle[h].path \in Path \cup {None} /\ handle[h].open \in BOOLEAN
         /\ handle[h].left \in 0..Chunks
         /\ \A i \in 1..Len(handle[h].buf) : handle[h].buf[i] \in Item
    /\ DOMAIN card \subseteq Path
    /\ \A p \in DOMAIN card : \A i \in 1..Len(card[p]) : card[p][i] \in Item
    /\ dirs \subseteq Dir
    /\ cardOk \in BOOLEAN /\ fileWrite \in FileWriteModes

(* the manager after a reset: nothing of it survives *)
ManagerReset ==
    /\ managerStatus = "bad"
    /\ fileStack = [i \in Slots |-> None] /\ fileStackPtr = 0
    /\ guards = <<>>
    /\ handle = [h \in Handle |-> NoFile]

CardInit ==
    /\ \/ card = [p \in {Config} |-> ConfigText]
       \/ card = [p \in {} |-> <<>>]
    /\ dirs = {} /\ cardOk = FALSE
    /\ fileWrite \in FileWriteModes

-----------------------------------------------------------------------------
(* initialize, lines 17-26 *)
Mount ==
    /\ managerStatus' = IF cardOk THEN "good" ELSE "bad"
    /\ UNCHANGED <<fileStack, fileStackPtr, guards, handle, cardVars>>

(* createDir, lines 136-148 *)
CreateDir(dir) ==
    /\ managerStatus' = IF managerStatus = "good" /\ ~cardOk THEN "bad" ELSE managerStatus
    /\ dirs' = IF managerStatus = "good" /\ cardOk THEN dirs \cup {dir} ELSE dirs
    /\ UNCHANGED <<fileStack, fileStackPtr, guards, handle, card, cardOk, fileWrite>>

(* numFilesInDir, lines 150-172, is a loop over the entries of the directory *)
Entries(dir) == {p \in LogPath \cap DOMAIN card : p.dir = dir}

(* lines 151-162: the directory can be listed at all *)
Lists == managerStatus = "good" /\ cardOk

(* mutant: the entry that opening the directory gives is not counted *)
NextEntryButOne(dir, count) == cardOk /\ count + 1 < Cardinality(Entries(dir))

(* openNextFile, lines 164, 168: there is one more, and the card gives it   *)
NextEntry(dir, count) == cardOk /\ count < Cardinality(Entries(dir))

-----------------------------------------------------------------------------
Available(h) == handle[h].open /\ handle[h].left > 0

Exists(path)  == path \in DOMAIN card
CanWrite(path) == cardOk /\ (path \in LogPath => path.dir \in dirs)

(* line 36: strcmp is not 0 whatever is on top, so the top of the stack is  *)
(* taken for the file asked for: handed out if something is left in it,     *)
(* dropped from the stack, still open, if not                               *)
ReusesTop == fileStackPtr > 0 /\ Available(fileStack[fileStackPtr - 1])
(* mutant: the stack is popped without looking whether it is empty *)
PtrAfterBlindDrop == fileStackPtr - 1

PtrAfterDrop == IF fileStackPtr > 0 THEN fileStackPtr - 1 ELSE fileStackPtr

OpensFile(path, mode, create) ==
    /\ PtrAfterDrop < MAX_STACK_SIZE
    /\ cardOk
    /\ IF mode = "write" THEN CanWrite(path)
       ELSE Exists(path) \/ (create /\ CanWrite(path))

(* lines 53-61, which come before the test for room on the stack *)
Created(path, create) ==
    IF create /\ ~Exists(path) /\ CanWrite(path)
    THEN [p \in DOMAIN card \cup {path} |-> IF p = path THEN <<>> ELSE card[p]]
    ELSE card

(* FileGuard's constructor and SDManager::open, lines 28-84 and 105-115 *)
GuardBad ==
    /\ guards' = Append(guards, None)
    /\ UNCHANGED <<fileStack, handle, dirs, cardOk, fileWrite>>

OpenRefused ==
    /\ managerStatus = "bad"
    /\ GuardBad
    /\ UNCHANGED <<managerStatus, fileStackPtr, card>>

OpenReuse ==
    /\ managerStatus = "good" /\ ReusesTop
    /\ guards' = Append(guards, fileStack[fileStackPtr - 1])
    /\ UNCHANGED <<managerStatus, fileStack, fileStackPtr, handle, cardVars>>

(* mutant: a failed open is not remembered *)
OpenFailsForgotten(path, mode, create) ==
    /\ managerStatus = "good" /\ ~ReusesTop
    /\ ~OpensFile(path, mode, create)
    /\ fileStackPtr' = PtrAfterDrop
    /\ card' = Created(path, create)
    /\ GuardBad
    /\ UNCHANGED managerStatus

(* lines 53-75; a file that has just been created may be there and not open: *)
(* the card is asked twice                                                   *)
OpenFails(path, mode, create) ==
    /\ managerStatus = "good" /\ ~ReusesTop
    /\ ~OpensFile(path, mode, create) \/ (create /\ ~Exists(path))
    /\ managerStatus' = "bad" /\ fileStackPtr' = PtrAfterDrop
    /\ card' = Created(path, create)
    /\ GuardBad

(* the handle in the slot that is overwritten may lose its last reference *)
OpenSucceeds(path, mode, create) ==
    /\ managerStatus = "good" /\ ~ReusesTop
    /\ OpensFile(path, mode, create)
    /\ LET h     == FreshHandle
           stack == [fileStack EXCEPT ![PtrAfterDrop] = h]
           gone  == Referenced(fileStack, guards) \ (Referenced(stack, guards) \cup {None})
           kept  == Committed(gone)
           old   == IF Exists(path) /\ ~(mode = "write" /\ fileWrite = "truncate")
                    THEN kept[path] ELSE <<>>
       IN  /\ fileStack' = stack
           /\ fileStackPtr' = PtrAfterDrop + 1
           /\ guards' = Append(guards, h)
           /\ card' = [p \in DOMAIN card \cup {path} |->
                         IF p = path THEN old ELSE kept[p]]
           /\ handle' = [Closed(gone) EXCEPT ![h] =
                [path |-> path, open |-> TRUE, buf |-> <<>>,
                 left |-> IF mode = "read" THEN Len(old) ELSE 0]]
    /\ UNCHANGED <<managerStatus, dirs, cardOk, fileWrite>>

OpenGuard(path, mode, create) ==
    \/ OpenRefused
    \/ OpenReuse
    \/ OpenFails(path, mode, create)
    \/ OpenSucceeds(path, mode, create)

(* mutant: the file is closed and stays on the stack *)
CloseGuardKeepsTop ==
    LET last  == guards[Len(guards)]
        rest  == SubSeq(guards, 1, Len(guards) - 1)
        pops  == last # None /\ fileStackPtr > 0
        top   == IF pops THEN {fileStack[fileStackPtr - 1]} ELSE {}
        gone  == Referenced(fileStack, guards) \ (Referenced(fileStack, rest) \cup {None})
    IN  /\ guards # <<>>
        /\ guards' = rest
        /\ card' = Committed(top \cup gone)
        /\ handle' = Closed(top \cup gone)
        /\ UNCHANGED <<managerStatus, fileStack, fileStackPtr, dirs, cardOk, fileWrite>>

(* FileGuard's destructor and SDManager::close, lines 95-103 and 117-126:   *)
(* a good guard closes the top of the stack, whatever that is               *)
CloseGuard ==
    LET last  == guards[Len(guards)]
        rest  == SubSeq(guards, 1, Len(guards) - 1)
        pops  == last # None /\ fileStackPtr > 0
        top   == IF pops THEN {fileStack[fileStackPtr - 1]} ELSE {}
        gone  == Referenced(fileStack, guards) \ (Referenced(fileStack, rest) \cup {None})
    IN  /\ guards # <<>>
        /\ guards' = rest
        /\ fileStackPtr' = IF pops THEN fileStackPtr - 1 ELSE fileStackPtr
        /\ card' = Committed(top \cup gone)
        /\ handle' = Closed(top \cup gone)
        /\ UNCHANGED <<managerStatus, fileStack, dirs, cardOk, fileWrite>>

-----------------------------------------------------------------------------
(* a write through the copy of the handle a guard gave out *)
Write(h, items) ==
    /\ handle' = [handle EXCEPT ![h].buf = @ \o items]
    /\ UNCHANGED <<managerStatus, fileStack, fileStackPtr, guards, cardVars>>

(* as much of the file behind `from` as one read gives, written to `to`;    *)
(* a card that is gone gives nothing and nothing is consumed                *)
CopyChunk(from, to) ==
    /\ cardOk /\ handle[from].left > 0
    /\ handle' = [handle EXCEPT
            ![from].left = @ - 1,
            ![to].buf = Append(@, ConfigText[Chunks + 1 - handle[from].left])]
    /\ UNCHANGED <<managerStatus, fileStack, fileStackPtr, guards, cardVars>>

(* the card stops answering, and answers again *)
CardFails ==
    /\ cardOk /\ cardOk' = FALSE
    /\ UNCHANGED <<managerVars, card, dirs, fileWrite>>

CardAnswers ==
    /\ ~cardOk /\ cardOk' = TRUE
    /\ UNCHANGED <<managerVars, card, dirs, fileWrite>>
=============================================================================
