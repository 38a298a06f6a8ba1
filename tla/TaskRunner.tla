----------------------------- MODULE TaskRunner -----------------------------
(***************************************************************************)
(* One scheduled task: run() of apps/api/src/task/task-runner.ts, called   *)
(* by the schedule and by hand in every instance of the scheduler.         *)
(*                                                                         *)
(* A call tests the flag of its process, takes a lock in Redis, sets the   *)
(* flag, starts the work and waits for it or for the timeout, whichever    *)
(* comes first; then it clears the flag and deletes the lock.  Nothing     *)
(* stops work that has run into the timeout.                               *)
(*                                                                         *)
(* Redis (external): SET NX PX and DEL are atomic, and both may fail for   *)
(* the caller, SET also after it has taken effect.  Two assumptions: a     *)
(* call that will still delete its lock does so before the lock expires,   *)
(* which is 30 s after the timeout of the work; and a DEL that has taken   *)
(* effect is not sent again.                                               *)
(***************************************************************************)
EXTENDS Naturals, FiniteSets

CONSTANTS
    Instance,   \* processes that run the scheduler
    Call,       \* calls of run() for this task
    home,       \* [Call -> Instance]: where a call is made
    Free        \* the lock does not exist

ASSUME HomeAssumption == home \in [Call -> Instance]
ASSUME FreeAssumption == Free \notin Call

VARIABLES
    stage,       \* where every call is
    flag,     \* runningTasks of every instance has the task
    lock,     \* lock:task:<key>: the call that took it
    working,  \* calls whose work is going on
    late      \* calls that have run into the timeout

taskVars == <<stage, flag, lock, working, late>>

Ended == {"skipped", "done", "dead"}

(* Calls between taking the lock and deleting it. *)
Supervised == {c \in Call : stage[c] \in {"granted", "running", "ending", "unlocking"}}

TaskInit ==
    /\ stage = [c \in Call |-> "idle"]
    /\ flag = [i \in Instance |-> FALSE]
    /\ lock = Free
    /\ working = {}
    /\ late = {}

(* "the last round has not ended" *)
Check(c) ==
    /\ stage[c] = "idle"
    /\ stage' = [stage EXCEPT ![c] = IF flag[home[c]] THEN "skipped" ELSE "checked"]
    /\ UNCHANGED <<flag, lock, working, late>>

(* Mutant: SET without NX. *)
AcquireAnyway(c) ==
    /\ stage[c] = "checked"
    /\ lock' = c
    /\ stage' = [stage EXCEPT ![c] = "granted"]
    /\ UNCHANGED <<flag, working, late>>

Acquire(c) ==
    /\ stage[c] = "checked"
    /\ IF lock = Free
       THEN lock' = c /\ stage' = [stage EXCEPT ![c] = "granted"]
       ELSE lock' = lock /\ stage' = [stage EXCEPT ![c] = "skipped"]
    /\ UNCHANGED <<flag, working, late>>

(* The connection breaks: run() throws, or a repeated SET finds the lock   *)
(* that the first one has taken.                                           *)
AcquireFails(c) ==
    /\ stage[c] = "checked"
    /\ lock' \in {lock} \cup {l \in {c} : lock = Free}
    /\ stage' = [stage EXCEPT ![c] = "skipped"]
    /\ UNCHANGED <<flag, working, late>>

Start(c) ==
    /\ stage[c] = "granted"
    /\ stage' = [stage EXCEPT ![c] = "running"]
    /\ flag' = [flag EXCEPT ![home[c]] = TRUE]
    /\ working' = working \cup {c}
    /\ UNCHANGED <<lock, late>>

(* The work returns or throws; after the timeout nobody waits for it. *)
WorkEnds(c) ==
    /\ c \in working
    /\ working' = working \ {c}
    /\ stage' = [stage EXCEPT ![c] = IF @ = "running" THEN "ending" ELSE @]
    /\ UNCHANGED <<flag, lock, late>>

(* Mutant: the round that has run into its timeout is only logged. *)
TimeoutOnlyLogged(c) ==
    /\ stage[c] = "running"
    /\ late' = late \cup {c}
    /\ UNCHANGED <<stage, flag, lock, working>>

Timeout(c) ==
    /\ stage[c] = "running"
    /\ stage' = [stage EXCEPT ![c] = "ending"]
    /\ late' = late \cup {c}
    /\ UNCHANGED <<flag, lock, working>>

(* finally: the flag is cleared ... *)
ClearFlag(c) ==
    /\ stage[c] = "ending"
    /\ stage' = [stage EXCEPT ![c] = "unlocking"]
    /\ flag' = [flag EXCEPT ![home[c]] = FALSE]
    /\ UNCHANGED <<lock, working, late>>

(* ... and the lock is deleted, whoever has it; or that fails, and run()   *)
(* throws.                                                                 *)
Unlock(c) ==
    /\ stage[c] = "unlocking"
    /\ stage' = [stage EXCEPT ![c] = "done"]
    /\ lock' \in {Free, lock}
    /\ UNCHANGED <<flag, working, late>>

(* Mutant: the lock lives shorter than the timeout. *)
ExpireEarly ==
    /\ lock # Free
    /\ stage[lock] \in Ended \cup {"running"}
    /\ lock' = Free
    /\ UNCHANGED <<stage, flag, working, late>>

(* The time of the lock is over. *)
Expire ==
    /\ lock # Free
    /\ stage[lock] \in Ended
    /\ lock' = Free
    /\ UNCHANGED <<stage, flag, working, late>>

(* A process dies with everything in its memory, and is started again. *)
InstanceDies(i) ==
    LET lost == {c \in Call : home[c] = i /\ stage[c] # "idle" /\ stage[c] \notin Ended}
    IN /\ lost # {}
       /\ stage' = [c \in Call |-> IF c \in lost THEN "dead" ELSE stage[c]]
       /\ flag' = [flag EXCEPT ![i] = FALSE]
       /\ working' = {c \in working : home[c] # i}
       /\ UNCHANGED <<lock, late>>

Step(c) ==
    \/ Acquire(c) \/ AcquireFails(c)
    \/ Start(c)
    \/ Timeout(c)
    \/ ClearFlag(c)
    \/ Unlock(c)

TaskNext ==
    \/ \E c \in Call : Check(c) \/ Step(c) \/ WorkEnds(c)
    \/ \E i \in Instance : InstanceDies(i)
    \/ Expire

(* A call goes on, timers fire; work need not ever end. *)
TaskFairness == \A c \in Call : WF_taskVars(Step(c))

TaskSpec == TaskInit /\ [][TaskNext]_taskVars
TaskFairSpec == TaskSpec /\ TaskFairness

-----------------------------------------------------------------------------
TaskTypeOK ==
    /\ stage \in [Call -> {"idle", "checked", "granted", "running", "ending", "unlocking"} \cup Ended]
    /\ flag \in [Instance -> BOOLEAN]
    /\ lock \in Call \cup {Free}
    /\ working \subseteq Call
    /\ late \subseteq Call

(* A call keeps its lock until it deletes it: over all instances at most   *)
(* one call waits for work of this task, although the deletion does not    *)
(* look at whose lock it is (run, lines 90-124).                           *)
OneSupervisor == \A c \in Supervised : lock = c

(* Work only ever overlaps with work that has run into its timeout: flag   *)
(* and lock keep all other rounds apart, also when they are started by     *)
(* hand, when instances overlap or die, and when Redis fails.  The promise  *)
(* of task.controller.ts, that a running task is not triggered again, is   *)
(* kept no further.                                                        *)
OnlyLateWorkOverlaps ==
    \A c, d \in working : c # d => c \in late \/ d \in late

(* The flag of an instance is set as long as one of its calls waits, and   *)
(* no longer: neither a failure nor a timeout leaves it behind (isRunning).*)
FlagTellsRun ==
    \A i \in Instance :
        flag[i] <=> \E c \in Call : home[c] = i /\ stage[c] \in {"running", "ending"}

(* A call returns, however long the work takes. *)
EveryCallReturns == \A c \in Call : stage[c] = "checked" ~> stage[c] \in Ended
=============================================================================
