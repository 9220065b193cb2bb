------------------------------ MODULE SDLogger ------------------------------
(***************************************************************************)
(* lib/telemetry/sd_logger.hpp on lib/telemetry/sd_manager.cpp, with what  *)
(* the firmware does to the card before it: one boot after another on the  *)
(* same card, the power going at any step, the card failing at any step.   *)
(*                                                                         *)
(*   setup()             mounts the card and reads /config.telem           *)
(*   LogTask.initialize  creates the log of this boot: header and config   *)
(*   LogTask.run         appends one record every period                   *)
(*                                                                         *)
(* A record (millis, unix time, the bus buffer) is one item here;          *)
(* Telemetry.tla says what is in it.                                       *)
(***************************************************************************)
EXTENDS SDManager, SequencesExt

CONSTANTS
    MaxBoots,     \* bound: times the power comes on
    MaxRecords    \* bound: records of a boot

ASSUME LoggerAssumption ==
    /\ MaxBoots \in Nat /\ MaxRecords \in Nat
    /\ MaxBoots <= MaxFiles

VARIABLES
    pc,            \* where the firmware is
    loggerState,   \* _state
    configOk,      \* whether setup() got a configuration
    filename,      \* _filename, and with it _dir
    records,       \* history: records written since the boot
    boots,         \* history: times the power came on
    atBoot,        \* history: the card's files when it last came on
    miscounted,    \* history: the card did not answer when the count ended
    cardFailed     \* history: between two steps of this boot it did not answer

bootVars   == <<boots, atBoot, miscounted, cardFailed>>
loggerVars == <<pc, loggerState, configOk, filename, records, bootVars>>
vars       == <<managerVars, cardVars, loggerVars>>

PC == {"off", "mount", "setup", "build", "setup_end", "halt", "dir", "count", "counting",
       "open_log", "log_opened", "config_opened", "copy", "config_end", "log_end",
       "wait", "run", "run_end"}

TypeOK ==
    /\ ManagerTypeOK
    /\ pc \in PC
    /\ loggerState \in {"good", "bad"}
    /\ configOk \in BOOLEAN
    /\ filename \in LogPath \cup {None}
    /\ records \in 0..MaxRecords /\ boots \in 0..MaxBoots
    /\ DOMAIN atBoot \subseteq Path
    /\ miscounted \in BOOLEAN /\ cardFailed \in BOOLEAN

Init ==
    /\ ManagerReset /\ CardInit
    /\ pc = "off" /\ loggerState = "bad" /\ configOk = FALSE
    /\ filename = None /\ records = 0 /\ boots = 0
    /\ atBoot = [p \in {} |-> <<>>]
    /\ miscounted = FALSE /\ cardFailed = FALSE

KeepLogger == UNCHANGED <<loggerState, configOk, filename, records, bootVars>>
KeepCard   == UNCHANGED <<managerVars, cardVars>>

-----------------------------------------------------------------------------
(* The power comes on, with or without a working card in the slot. *)
PowerOn ==
    /\ pc = "off" /\ boots < MaxBoots
    /\ pc' = "mount" /\ boots' = boots + 1
    /\ cardOk' \in BOOLEAN
    /\ loggerState' = "bad" /\ configOk' = FALSE /\ filename' = None
    /\ records' = 0 /\ atBoot' = card
    /\ miscounted' = FALSE /\ cardFailed' = ~cardOk'
    /\ UNCHANGED <<managerVars, card, dirs, fileWrite>>

(* Resources(), resources.cpp:33 *)
MountCard == pc = "mount" /\ pc' = "setup" /\ Mount /\ KeepLogger

(* __setupConfig, remote_main.hpp:79-99: the guard lives to its end *)
OpenSetup ==
    /\ pc = "setup" /\ pc' = "build"
    /\ OpenGuard(Config, "read", FALSE)
    /\ KeepLogger

(* a configuration that is missing is an error (telem_builder.cpp:100-103), *)
(* one that is there may be                                                 *)
Build ==
    /\ pc = "build" /\ pc' = "setup_end"
    /\ configOk' \in (IF guards[1] = None THEN {FALSE} ELSE BOOLEAN)
    /\ UNCHANGED <<loggerState, filename, records, bootVars>>
    /\ KeepCard

(* setup, lines 34-38: an error stops here for good *)
EndSetup ==
    /\ pc = "setup_end"
    /\ pc' = IF configOk THEN "dir" ELSE "halt"
    /\ CloseGuard /\ KeepLogger

-----------------------------------------------------------------------------
(* SDLogger::initialize, lines 27-79.  The date names the directory. *)
MakeDir(dir) ==
    /\ pc = "dir" /\ pc' = "count"
    /\ CreateDir(dir)
    /\ filename' = [dir |-> dir, n |-> 0]
    /\ UNCHANGED <<loggerState, configOk, records, bootVars>>

(* mutant: every log is number 0 *)
CountFilesForgotten ==
    /\ pc = "count" /\ pc' = "open_log"
    /\ KeepLogger /\ KeepCard

(* line 39, with SDManager::numFilesInDir: 0 when there is nothing to list; *)
(* otherwise one entry after another, and what there is by then when the    *)
(* card gives no more, for whatever reason                                  *)
CountFiles ==
    /\ pc = "count" /\ pc' = IF Lists THEN "counting" ELSE "open_log"
    /\ miscounted' = ~cardOk
    /\ UNCHANGED <<loggerState, configOk, filename, records, boots, atBoot, cardFailed>>
    /\ KeepCard

CountEntry ==
    /\ pc = "counting" /\ UNCHANGED pc
    /\ NextEntry(filename.dir, filename.n)
    /\ filename' = [filename EXCEPT !.n = @ + 1]
    /\ UNCHANGED <<loggerState, configOk, records, bootVars>>
    /\ KeepCard

CountEnds ==
    /\ pc = "counting" /\ pc' = "open_log"
    /\ ~NextEntry(filename.dir, filename.n)
    /\ miscounted' = ~cardOk
    /\ UNCHANGED <<loggerState, configOk, filename, records, boots, atBoot, cardFailed>>
    /\ KeepCard

OpenLog ==
    /\ pc = "open_log" /\ pc' = "log_opened"
    /\ OpenGuard(filename, "write", TRUE)
    /\ KeepLogger

NoLog ==
    /\ pc = "log_opened" /\ guards[1] = None
    /\ pc' = "log_end"
    /\ loggerState' = "bad"
    /\ UNCHANGED <<configOk, filename, records, bootVars>>
    /\ KeepCard

OpenConfig ==
    /\ pc = "log_opened" /\ guards[1] # None
    /\ pc' = "config_opened"
    /\ loggerState' = "good"
    /\ OpenGuard(Config, "read", FALSE)
    /\ UNCHANGED <<configOk, filename, records, bootVars>>

NoConfig ==
    /\ pc = "config_opened" /\ guards[2] = None
    /\ pc' = "config_end"
    /\ loggerState' = "bad"
    /\ UNCHANGED <<configOk, filename, records, bootVars>>
    /\ KeepCard

WriteHeader ==
    /\ pc = "config_opened" /\ guards[2] # None
    /\ pc' = "copy"
    /\ Write(guards[1], <<Header>>)
    /\ KeepLogger

(* lines 75-78: as long as something is available *)
CopyConfig ==
    /\ pc = "copy" /\ UNCHANGED pc
    /\ CopyChunk(guards[2], guards[1])
    /\ KeepLogger

(* mutant: the copy may stop before the end of the configuration *)
CopyDoneEarly ==
    /\ pc = "copy"
    /\ pc' = "config_end"
    /\ KeepLogger /\ KeepCard

CopyDone ==
    /\ pc = "copy" /\ ~Available(guards[2])
    /\ pc' = "config_end"
    /\ KeepLogger /\ KeepCard

EndConfig == pc = "config_end" /\ pc' = "log_end" /\ CloseGuard /\ KeepLogger

EndLog == pc = "log_end" /\ pc' = "wait" /\ CloseGuard /\ KeepLogger

-----------------------------------------------------------------------------
(* SDLogger::log, lines 81-117.  A bad state is reported and then ignored. *)
OpenRun ==
    /\ pc = "wait" /\ pc' = "run"
    /\ records < MaxRecords
    /\ OpenGuard(filename, "write", FALSE)
    /\ KeepLogger

NoRun ==
    /\ pc = "run" /\ guards[1] = None
    /\ pc' = "run_end"
    /\ loggerState' = "bad"
    /\ UNCHANGED <<configOk, filename, records, bootVars>>
    /\ KeepCard

(* mutant: a record whose write came back short is written again *)
WriteRecordAgain ==
    /\ pc = "run" /\ guards[1] # None
    /\ pc' = "run_end"
    /\ records' = records + 1
    /\ Write(guards[1], <<Record(records + 1), Record(records + 1)>>)
    /\ UNCHANGED <<loggerState, configOk, filename, bootVars>>

WriteRecord ==
    /\ pc = "run" /\ guards[1] # None
    /\ pc' = "run_end"
    /\ records' = records + 1
    /\ Write(guards[1], <<Record(records + 1)>>)
    /\ UNCHANGED <<loggerState, configOk, filename, bootVars>>

(* mutant: the file is left open *)
EndRunLeavesOpen == pc = "run_end" /\ pc' = "wait" /\ KeepLogger /\ KeepCard

EndRun == pc = "run_end" /\ pc' = "wait" /\ CloseGuard /\ KeepLogger

-----------------------------------------------------------------------------
(* The power goes.  Of what was written to files still open any part may    *)
(* have reached the card.                                                   *)
PowerOff ==
    /\ pc # "off" /\ pc' = "off"
    /\ LET open == {h \in Handle : handle[h].open}
       IN  \E k \in [open -> 0..(Chunks + 1)] :
             /\ \A h \in open : k[h] <= Len(handle[h].buf) /\ (~cardOk => k[h] = 0)
             /\ card' = [p \in DOMAIN card |->
                  card[p] \o (IF \E h \in open : handle[h].path = p
                              THEN LET h == CHOOSE h \in open : handle[h].path = p
                                   IN  SubSeq(handle[h].buf, 1, k[h])
                              ELSE <<>>)]
    /\ managerStatus' = "bad"
    /\ fileStack' = [i \in Slots |-> None] /\ fileStackPtr' = 0
    /\ guards' = <<>> /\ handle' = [h \in Handle |-> NoFile]
    /\ UNCHANGED <<dirs, cardOk, fileWrite>>
    /\ KeepLogger

CardGone ==
    /\ pc # "off" /\ CardFails
    /\ cardFailed' = TRUE
    /\ UNCHANGED <<pc, loggerState, configOk, filename, records, boots, atBoot, miscounted>>

CardBack == pc # "off" /\ CardAnswers /\ UNCHANGED loggerVars

Next ==
    \/ PowerOn \/ MountCard \/ OpenSetup \/ Build \/ EndSetup
    \/ \E dir \in Dir : MakeDir(dir)
    \/ CountFiles \/ CountEntry \/ CountEnds \/ OpenLog \/ NoLog \/ OpenConfig \/ NoConfig \/ WriteHeader
    \/ CopyConfig \/ CopyDone \/ EndConfig \/ EndLog
    \/ OpenRun \/ NoRun \/ WriteRecord \/ EndRun
    \/ PowerOff \/ CardGone \/ CardBack

Spec == Init /\ [][Next]_vars
-----------------------------------------------------------------------------
Running == pc \in {"wait", "run", "run_end"}

(* Once logging has failed nothing more is written in that boot.  log()     *)
(* goes on after it has found the state bad (lines 82-84); what keeps it    *)
(* from writing is that a logger is bad only when the manager is, and the   *)
(* manager never recovers (sd_manager.cpp:29, 56, 65, 73).                  *)
FailedLoggerIsSilent ==
    [][Running /\ loggerState = "bad" => card' = card]_vars

(* When no guard is alive the stack of files is empty, although open() pops *)
(* entries without closing them and close() pops whatever is on top; and    *)
(* unless the manager has gone bad, no file is left open                    *)
(* (sd_manager.cpp:34-50, 95-103).  The eight slots therefore never run out *)
(* over any number of periods.                                              *)
RestIsClean ==
    guards = <<>> =>
      /\ fileStackPtr = 0
      /\ managerStatus = "good" => \A h \in Handle : ~handle[h].open

(* No boot touches a log of an earlier one: the number of files in the      *)
(* directory is a name nobody has (lines 39-46), after any power cuts and   *)
(* card failures.  The one exception: the card does not answer when the     *)
(* next entry is asked for, so that the count stops where it is, and        *)
(* answers again when the log is opened (sd_manager.cpp:159-170).           *)
EarlierLogsKept ==
    pc # "off" /\ ~miscounted =>
      \A p \in DOMAIN atBoot \cap LogPath : p \in DOMAIN card /\ card[p] = atBoot[p]

(* What a miscount costs: the count may stop at any number of entries, and  *)
(* then the log of that number is opened again (sd_manager.cpp:159-170,     *)
(* sd_logger.hpp:39-46).  It is one log of the earlier boots, in the        *)
(* directory of this one, no other is touched or lost however many periods  *)
(* follow, and where FILE_WRITE appends even that one keeps all it held.    *)
MiscountCostsOneLog ==
    \A p \in DOMAIN atBoot \cap LogPath :
      /\ p \in DOMAIN card
      /\ card[p] # atBoot[p] => miscounted /\ p = filename
      /\ fileWrite = "append" => IsPrefix(atBoot[p], card[p])

(* header, configuration and the first k records *)
Session(k) == <<Header>> \o ConfigText \o [i \in 1..k |-> Record(i)]

(* log() goes "to the end of the file" (line 98) to add its record to the   *)
(* header, the configuration and the records before it: all of them stay.   *)
(* A power cut costs at most the record being written.  (What a card loses  *)
(* that does not answer is not noticed, lines 104-113, and not claimed.)    *)
LogKeepsSession ==
    records >= 1 /\ ~cardFailed /\ ~miscounted
      => filename \in DOMAIN card /\ IsPrefix(Session(records - 1), card[filename])

(* ... which is so where FILE_WRITE appends, as in the AVR core. *)
AppendKeepsSession == fileWrite = "append" => LogKeepsSession

(* With either FILE_WRITE, a period that ended well has left its record at  *)
(* the end of the file.                                                     *)
LatestRecordIsLast ==
    pc = "wait" /\ loggerState = "good" /\ ~cardFailed /\ records >= 1
      => /\ filename \in DOMAIN card /\ card[filename] # <<>>
         /\ Last(card[filename]) = Record(records)
(* where an item is in what a boot writes: header, configuration, records *)
Place(item) ==
    CASE item.kind = "header" -> 0
      [] item.kind = "chunk"  -> item.i
      [] item.kind = "record" -> Chunks + item.i

(* Nobody looks at the results of the writes (lines 104-113), so a card     *)
(* that stops answering for a while leaves gaps in the log.  It leaves      *)
(* nothing else: whatever fails and whatever FILE_WRITE does, what a log    *)
(* made in this boot holds is in the order it was logged, nothing twice,    *)
(* and it has been logged.                                                  *)
LogInOrder ==
    \A p \in (DOMAIN card \cap LogPath) \ DOMAIN atBoot :
      LET log == card[p]
      IN  /\ \A i, j \in DOMAIN log : i < j => Place(log[i]) < Place(log[j])
          /\ \A i \in DOMAIN log : Place(log[i]) <= Chunks + records
=============================================================================
