--------------------------- MODULE TaskScheduler ---------------------------
(***************************************************************************)
(* lib/tasks/tasks.hpp: the list of tasks, start(), which creates a        *)
(* FreeRTOS task for each of them, and the life of such a task: its        *)
(* initialize once, then its run again and again.                          *)
(*                                                                         *)
(* A task gets the address of its TaskDescription inside the vector _tasks *)
(* and uses it for ever.  A vector that is full moves to a bigger block    *)
(* when it grows; addresses into the old block are then dangling.          *)
(***************************************************************************)
EXTENDS Naturals, Sequences

CONSTANTS
    Task,            \* the tasks there can be, by name
    FailingTask,     \* those whose initialize returns false
    CreateMayFail    \* whether xTaskCreatePinnedToCore may (nobody checks)

ASSUME SchedulerAssumption ==
    /\ FailingTask \subseteq Task
    /\ CreateMayFail \in BOOLEAN

VARIABLES
    hasStarted,   \* _hasStarted
    tasks,        \* _tasks
    capacity,     \* its capacity
    block,        \* which of its blocks it is in
    created,      \* elements the loop of start() is done with
    life,         \* what has become of each task
    param         \* the block its description was in when it was created

schedVars == <<hasStarted, tasks, capacity, block, created, life, param>>

Alive == {"new", "periodic"}

SchedTypeOK ==
    /\ hasStarted \in BOOLEAN
    /\ tasks \in Seq(Task)
    /\ capacity \in Nat /\ block \in Nat
    /\ created \in 0..Len(tasks)
    /\ life \in [Task -> Alive \cup {"none", "failed", "deleted"}]
    /\ param \in [Task -> Nat]

SchedInit ==
    /\ hasStarted = FALSE /\ tasks = <<>> /\ capacity = 0 /\ block = 0
    /\ created = 0
    /\ life = [t \in Task |-> "none"] /\ param = [t \in Task |-> 0]

(* lines 97-105 *)
AddTask(t) ==
    IF hasStarted THEN UNCHANGED schedVars
    ELSE /\ tasks' = Append(tasks, t)
         /\ IF Len(tasks) < capacity THEN UNCHANGED <<capacity, block>>
            ELSE capacity' = (IF capacity = 0 THEN 1 ELSE 2 * capacity) /\ block' = block + 1
         /\ UNCHANGED <<hasStarted, created, life, param>>

(* mutant: the flag is forgotten *)
StartWithoutFlag == UNCHANGED schedVars

(* lines 107-116, up to the loop; the vector already has room for its size  *)
Start ==
    IF hasStarted THEN UNCHANGED schedVars
    ELSE hasStarted' = TRUE /\ UNCHANGED <<tasks, capacity, block, created, life, param>>

(* the next element of the loop, lines 118-157 *)
CreateTask ==
    /\ created < Len(tasks) /\ created' = created + 1
    /\ LET t == tasks[created + 1]
       IN  /\ \E l \in {"new"} \cup (IF CreateMayFail THEN {"failed"} ELSE {}) :
                life' = [life EXCEPT ![t] = l]
           /\ param' = [param EXCEPT ![t] = block]
    /\ UNCHANGED <<hasStarted, tasks, capacity, block>>

(* lines 123-133: the new task runs for the first time *)
InitializeTask(t) ==
    /\ life[t] = "new"
    /\ life' = [life EXCEPT ![t] = IF t \in FailingTask THEN "deleted" ELSE "periodic"]
    /\ UNCHANGED <<hasStarted, tasks, capacity, block, created, param>>
-----------------------------------------------------------------------------
(* The description a living task was given is still where it was, although  *)
(* any task may call addTask at any time: line 113 is before the loop, and  *)
(* addTask refuses once it has run (lines 98-101).                          *)
TaskPointersValid == \A t \in Task : life[t] \in Alive => param[t] = block
=============================================================================
