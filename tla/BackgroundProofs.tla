---------------------------- MODULE BackgroundProofs ----------------------------
(***************************************************************************)
(* Proofs about the work that goes on beside the requests: scheduled tasks *)
(* (TaskRunner), for any number of instances and calls, and queued jobs    *)
(* (Jobs), for any number of clients, attempts, stalls, deaths, failures   *)
(* of the database and repetitions.                                        *)
(***************************************************************************)
EXTENDS TaskRunner, Jobs, TLAPS

-----------------------------------------------------------------------------
(* Scheduled tasks: TaskRunner.                                            *)

(* Work that nobody waits for has run into its timeout. *)
OrphansAreLate == \A c \in working : c \in late \/ stage[c] = "running"

TaskIInv == TaskTypeOK /\ OneSupervisor /\ OrphansAreLate /\ FlagTellsRun

(* The invariant holds when every process has just started (the fields of  *)
(* TaskRunner, before the first call of run).                              *)
LEMMA TaskIInvInit == TaskInit => TaskIInv
  BY HomeAssumption DEF TaskInit, TaskIInv, TaskTypeOK, OneSupervisor, OrphansAreLate, FlagTellsRun,
     Supervised, Ended

(* Two calls between taking the lock and deleting it are the same call     *)
(* (run, lines 90-124).                                                    *)
LEMMA SupervisorUnique ==
    ASSUME OneSupervisor, NEW c \in Supervised, NEW d \in Supervised
    PROVE  c = d
  BY DEF OneSupervisor

(* Every step of run(), of Redis and of a dying process keeps it. *)
LEMMA TaskIInvStep == TaskIInv /\ [TaskNext]_taskVars => TaskIInv'
<1> SUFFICES ASSUME TaskIInv, [TaskNext]_taskVars PROVE TaskIInv'
  OBVIOUS
<1> USE HomeAssumption, FreeAssumption
<1>1. ASSUME NEW c \in Call, Check(c) PROVE TaskIInv'
  BY <1>1 DEF Check, TaskIInv, TaskTypeOK, OneSupervisor, OrphansAreLate, FlagTellsRun, Supervised, Ended
<1>2. ASSUME NEW c \in Call, Acquire(c) PROVE TaskIInv'
  BY <1>2 DEF Acquire, TaskIInv, TaskTypeOK, OneSupervisor, OrphansAreLate, FlagTellsRun, Supervised, Ended
<1>3. ASSUME NEW c \in Call, AcquireFails(c) PROVE TaskIInv'
  BY <1>3 DEF AcquireFails, TaskIInv, TaskTypeOK, OneSupervisor, OrphansAreLate, FlagTellsRun, Supervised, Ended
<1>4. ASSUME NEW c \in Call, Start(c) PROVE TaskIInv'
  BY <1>4 DEF Start, TaskIInv, TaskTypeOK, OneSupervisor, OrphansAreLate, FlagTellsRun, Supervised, Ended
<1>5. ASSUME NEW c \in Call, WorkEnds(c) PROVE TaskIInv'
  BY <1>5 DEF WorkEnds, TaskIInv, TaskTypeOK, OneSupervisor, OrphansAreLate, FlagTellsRun, Supervised, Ended
<1>6. ASSUME NEW c \in Call, Timeout(c) PROVE TaskIInv'
  BY <1>6 DEF Timeout, TaskIInv, TaskTypeOK, OneSupervisor, OrphansAreLate, FlagTellsRun, Supervised, Ended
<1>7. ASSUME NEW c \in Call, ClearFlag(c) PROVE TaskIInv'
  BY <1>7 DEF ClearFlag, TaskIInv, TaskTypeOK, OneSupervisor, OrphansAreLate, FlagTellsRun, Supervised, Ended
<1>8. ASSUME NEW c \in Call, Unlock(c) PROVE TaskIInv'
  BY <1>8 DEF Unlock, TaskIInv, TaskTypeOK, OneSupervisor, OrphansAreLate, FlagTellsRun, Supervised, Ended
<1>9. ASSUME NEW i \in Instance, InstanceDies(i) PROVE TaskIInv'
  BY <1>9 DEF InstanceDies, TaskIInv, TaskTypeOK, OneSupervisor, OrphansAreLate, FlagTellsRun, Supervised, Ended
<1>10. CASE Expire
  BY <1>10 DEF Expire, TaskIInv, TaskTypeOK, OneSupervisor, OrphansAreLate, FlagTellsRun, Supervised, Ended
<1>11. CASE UNCHANGED taskVars
  BY <1>11 DEF taskVars, TaskIInv, TaskTypeOK, OneSupervisor, OrphansAreLate, FlagTellsRun, Supervised, Ended
<1>12. QED
  BY <1>1, <1>2, <1>3, <1>4, <1>5, <1>6, <1>7, <1>8, <1>9, <1>10, <1>11 DEF TaskNext, Step

-----------------------------------------------------------------------------
(* Flag, lock, waiting calls and work fit together in every reachable      *)
(* state of run(), for any number of calls and processes.                  *)
THEOREM TaskInductive == TaskSpec => []TaskIInv
<1>1. TaskInit => TaskIInv
  BY TaskIInvInit
<1>2. TaskIInv /\ [TaskNext]_taskVars => TaskIInv'
  BY TaskIInvStep
<1>3. QED
  BY <1>1, <1>2, PTL DEF TaskSpec

(* Every variable of the model of run() keeps its type. *)
THEOREM TaskTypes == TaskSpec => []TaskTypeOK
<1>1. TaskIInv => TaskTypeOK
  BY DEF TaskIInv
<1>2. QED
  BY <1>1, TaskInductive, PTL

(* A call owns its lock until it deletes it, whatever fails and whoever    *)
(* else calls run(): no call ever deletes the lock of another.             *)
THEOREM SupervisorOwnsLock == TaskSpec => []OneSupervisor
<1>1. TaskIInv => OneSupervisor
  BY DEF TaskIInv
<1>2. QED
  BY <1>1, TaskInductive, PTL

(* isRunning() is true exactly while a call of the instance waits for its  *)
(* work, after any failure, timeout or crash.                              *)
THEOREM FlagIsExact == TaskSpec => []FlagTellsRun
<1>1. TaskIInv => FlagTellsRun
  BY DEF TaskIInv
<1>2. QED
  BY <1>1, TaskInductive, PTL

(* Of two pieces of work of one task that go on at once, one has run into  *)
(* its timeout: flag and lock exclude every other overlap.                 *)
THEOREM OverlapIsLate == TaskSpec => []OnlyLateWorkOverlaps
<1>1. TaskIInv => OnlyLateWorkOverlaps
  <2> SUFFICES ASSUME TaskIInv, NEW c \in working, NEW d \in working,
                      c \notin late, d \notin late
               PROVE  c = d
    BY DEF OnlyLateWorkOverlaps
  <2>1. stage[c] = "running" /\ stage[d] = "running"
    BY DEF TaskIInv, OrphansAreLate
  <2>2. c \in Supervised /\ d \in Supervised
    BY <2>1 DEF TaskIInv, TaskTypeOK, Supervised
  <2>3. QED
    BY <2>2, SupervisorUnique DEF TaskIInv
<1>2. QED
  BY <1>1, TaskInductive, PTL

-----------------------------------------------------------------------------
(* Queued jobs: Jobs.                                                      *)

(* A job that may be worked on has attempts and stalls left. *)
JobInv ==
    job.at \in {"waiting", "active"} =>
        job.made < Attempts /\ job.stalls <= MaxStalled

(* Before the row there is neither a job nor a client that will add one;   *)
(* the steps of a client belong to its kind of work.                       *)
RowInv ==
    /\ row = "none" => job.at = "none"
    /\ \A c \in Client :
         /\ pc[c] \in {"insert", "reset", "deleteFile",
            "deleteRow"} => kind = "report"
         /\ pc[c] \in {"reset", "deleteFile", "deleteRow"} => row # "none"
         /\ pc[c] \in {"dispatch", "remove", "removeOnly"} => row # "none"
    /\ file => kind = "report"
    /\ kind = "report" => delivered = 0

(* An attempt that sends has been counted. *)
CountInv ==
    row # "deleted" =>
        /\ delivered <= attempts
        /\ kind = "mail" /\ worker = "work" => delivered < attempts

(* The job may still be handed over. *)
Owes ==
    \/ job.at = "waiting"
    \/ job.at = "active" /\ worker \notin {"store", "ack"}

CreditInv ==
    /\ delivered <= queued + crashes + unstored
    /\ Owes => delivered < queued + crashes + unstored

(* The file of a report is there from its upload until a deletion. *)
FileInv ==
    (row = "DONE" \/ (kind = "report" /\ row \in Rows /\ worker = "store")) /\ ~reborn =>
        object \/ \E c \in Client : pc[c] = "deleteRow"

IInv == TypeOK /\ JobInv /\ RowInv /\ CountInv /\ CreditInv /\ FileInv

(* The invariant holds before anybody has asked for the work (createReport *)
(* and enqueue make the row).                                              *)
LEMMA IInvInit == Init => IInv
<1> SUFFICES ASSUME Init PROVE IInv
  OBVIOUS
<1> USE AttemptsAssumption, MaxStalledAssumption, BoundsAssumption DEF Init
<1>1. TypeOK
  <2>1. job \in JobType
    BY DEF NoJob, JobType
  <2>2. pc \in [Client -> {"idle", "insert", "reset", "dispatch", "deleteFile",
                            "deleteRow", "remove", "removeOnly"}]
    OBVIOUS
  <2>3. /\ row \in Rows \cup {"none", "deleted"}
        /\ row \in {"RUNNING", "DONE"} => kind = "report"
        /\ row = "SENT" => kind = "mail"
    OBVIOUS
  <2>4. crashes \in 0..MaxCrashes
    OBVIOUS
  <2>5. QED
    BY <2>1, <2>2, <2>3, <2>4 DEF TypeOK
<1>2. JobInv
  BY DEF JobInv, NoJob
<1>3. RowInv
  BY DEF RowInv, NoJob
<1>4. CountInv
  BY DEF CountInv
<1>5. CreditInv
  BY DEF CreditInv, Owes, NoJob
<1>6. FileInv
  BY DEF FileInv, Rows, Open
<1>7. QED
  BY <1>1, <1>2, <1>3, <1>4, <1>5, <1>6 DEF IInv

(* Every step of a client, of the worker and of BullMQ keeps it. *)
LEMMA IInvStep == IInv /\ [Next]_vars => IInv'
<1> SUFFICES ASSUME IInv, [Next]_vars PROVE IInv'
  OBVIOUS
<1> USE AttemptsAssumption, MaxStalledAssumption, BoundsAssumption
<1>1. ASSUME NEW c \in Client, ReportLook(c) PROVE IInv'
  BY <1>1 DEF ReportLook, IInv, TypeOK, JobInv, RowInv, CountInv, CreditInv,
     FileInv, Owes, Rows, Open, JobType, mail, marks, Goto
<1>2. ASSUME NEW c \in Client, ReportInsert(c) PROVE IInv'
  BY <1>2 DEF ReportInsert, IInv, TypeOK, JobInv, RowInv, CountInv, CreditInv,
     FileInv, Owes, Rows, Open, JobType, mail, marks, Goto
<1>3. ASSUME NEW c \in Client, ReportReset(c) PROVE IInv'
  <2>1. TypeOK'
    BY <1>3 DEF ReportReset, IInv, TypeOK, Rows, Open, JobType, mail, marks, Goto, JobInv,
       RowInv
  <2>2. JobInv'
    BY <1>3 DEF ReportReset, IInv, TypeOK, Rows, Open, JobType, mail, marks, Goto, JobInv
  <2>3. RowInv'
    BY <1>3 DEF ReportReset, IInv, TypeOK, Rows, Open, JobType, mail, marks, Goto, RowInv
  <2>4. CountInv'
    BY <1>3 DEF ReportReset, IInv, TypeOK, Rows, Open, JobType, mail, marks, Goto,
       CountInv, RowInv
  <2>5. CreditInv'
    BY <1>3 DEF ReportReset, IInv, TypeOK, Rows, Open, JobType, mail, marks, Goto,
       CreditInv, Owes
  <2>6. FileInv'
    BY <1>3 DEF ReportReset, IInv, TypeOK, Rows, Open, JobType, mail, marks, Goto,
       FileInv, RowInv
  <2>7. QED
    BY <2>1, <2>2, <2>3, <2>4, <2>5, <2>6 DEF IInv
<1>4. ASSUME NEW c \in Client, Dispatch(c) PROVE IInv'
  <2>1. TypeOK'
    BY <1>4 DEF Dispatch, IInv, TypeOK, Rows, Open, NoJob, JobType, mail, marks, Goto,
       JobInv, RowInv
  <2>2. JobInv'
    BY <1>4 DEF Dispatch, IInv, TypeOK, Rows, Open, NoJob, JobType, mail, marks, Goto,
       JobInv
  <2>3. RowInv'
    BY <1>4 DEF Dispatch, IInv, TypeOK, Rows, Open, NoJob, JobType, mail, marks, Goto,
       RowInv
  <2>4. CountInv'
    BY <1>4 DEF Dispatch, IInv, TypeOK, Rows, Open, NoJob, JobType, mail, marks, Goto,
       CountInv, RowInv
  <2>5. CreditInv'
    BY <1>4 DEF Dispatch, IInv, TypeOK, Rows, Open, NoJob, JobType, mail, marks, Goto,
       CreditInv, Owes
  <2>6. FileInv'
    BY <1>4 DEF Dispatch, IInv, TypeOK, Rows, Open, NoJob, JobType, mail, marks, Goto,
       FileInv, RowInv
  <2>7. QED
    BY <2>1, <2>2, <2>3, <2>4, <2>5, <2>6 DEF IInv
<1>5. ASSUME NEW c \in Client, DeleteLook(c) PROVE IInv'
  BY <1>5 DEF DeleteLook, IInv, TypeOK, JobInv, RowInv, CountInv, CreditInv,
     FileInv, Owes, Rows, Open, JobType, mail, marks, Goto
<1>6. ASSUME NEW c \in Client, DeleteFile(c) PROVE IInv'
  <2>1. TypeOK'
    BY <1>6 DEF DeleteFile, IInv, TypeOK, Rows, Open, JobType, mail, marks, Goto, JobInv,
       RowInv
  <2>2. JobInv'
    BY <1>6 DEF DeleteFile, IInv, TypeOK, Rows, Open, JobType, mail, marks, Goto, JobInv
  <2>3. RowInv'
    BY <1>6 DEF DeleteFile, IInv, TypeOK, Rows, Open, JobType, mail, marks, Goto, RowInv
  <2>4. CountInv'
    BY <1>6 DEF DeleteFile, IInv, TypeOK, Rows, Open, JobType, mail, marks, Goto,
       CountInv, RowInv
  <2>5. CreditInv'
    BY <1>6 DEF DeleteFile, IInv, TypeOK, Rows, Open, JobType, mail, marks, Goto,
       CreditInv, Owes
  <2>6. FileInv'
    BY <1>6 DEF DeleteFile, IInv, TypeOK, Rows, Open, JobType, mail, marks, Goto, FileInv,
       RowInv
  <2>7. QED
    BY <2>1, <2>2, <2>3, <2>4, <2>5, <2>6 DEF IInv
<1>7. ASSUME NEW c \in Client, DeleteRow(c) PROVE IInv'
  BY <1>7 DEF DeleteRow, IInv, TypeOK, JobInv, RowInv, CountInv, CreditInv,
     FileInv, Owes, Rows, Open, JobType, mail, marks, Goto
<1>8. ASSUME NEW c \in Client, MailEnqueue(c) PROVE IInv'
  BY <1>8 DEF MailEnqueue, IInv, TypeOK, JobInv, RowInv, CountInv, CreditInv,
     FileInv, Owes, Rows, Open, JobType, mail, marks, Goto
<1>9. ASSUME NEW c \in Client, MailRetry(c) PROVE IInv'
  BY <1>9 DEF MailRetry, IInv, TypeOK, JobInv, RowInv, CountInv, CreditInv,
     FileInv, Owes, Rows, Open, JobType, Updated, mail, marks, Goto
<1>10. ASSUME NEW c \in Client, MailDelete(c) PROVE IInv'
  BY <1>10 DEF MailDelete, IInv, TypeOK, JobInv, RowInv, CountInv, CreditInv,
     FileInv, Owes, Rows, Open, JobType, mail, marks, Goto
<1>11. ASSUME NEW c \in Client, RemoveJob(c) PROVE IInv'
  <2>1. TypeOK'
    BY <1>11 DEF RemoveJob, IInv, TypeOK, Rows, Open, NoJob, JobType, mail, marks, Goto,
       JobInv, RowInv
  <2>2. JobInv'
    BY <1>11 DEF RemoveJob, IInv, TypeOK, Rows, Open, NoJob, JobType, mail, marks, Goto,
       JobInv
  <2>3. RowInv'
    BY <1>11 DEF RemoveJob, IInv, TypeOK, Rows, Open, NoJob, JobType, mail, marks, Goto,
       RowInv
  <2>4. CountInv'
    BY <1>11 DEF RemoveJob, IInv, TypeOK, Rows, Open, NoJob, JobType, mail, marks, Goto,
       CountInv, RowInv
  <2>5. CreditInv'
    BY <1>11 DEF RemoveJob, IInv, TypeOK, Rows, Open, NoJob, JobType, mail, marks, Goto,
       CreditInv, Owes
  <2>6. FileInv'
    BY <1>11 DEF RemoveJob, IInv, TypeOK, Rows, Open, NoJob, JobType, mail, marks, Goto,
       FileInv, RowInv
  <2>7. QED
    BY <2>1, <2>2, <2>3, <2>4, <2>5, <2>6 DEF IInv
<1>12. CASE Purge
  BY <1>12 DEF Purge, IInv, TypeOK, JobInv, RowInv, CountInv, CreditInv, FileInv,
     Owes, Rows, Open, JobType, mail, marks
<1>13. CASE Take
  BY <1>13 DEF Take, IInv, TypeOK, JobInv, RowInv, CountInv, CreditInv, FileInv,
     Owes, Rows, Open, JobType, mail, marks, Work
<1>14. CASE Read
  BY <1>14 DEF Read, IInv, TypeOK, JobInv, RowInv, CountInv, CreditInv, FileInv,
     Owes, Rows, Open, JobType, mail, marks, Work
<1>15. CASE Begin
  <2>1. TypeOK'
    BY <1>15 DEF Begin, IInv, TypeOK, Rows, Open, JobType, Updated, Work, marks, JobInv,
       RowInv
  <2>2. JobInv'
    BY <1>15 DEF Begin, IInv, TypeOK, Rows, Open, JobType, Updated, Work, marks, JobInv
  <2>3. RowInv'
    BY <1>15 DEF Begin, IInv, TypeOK, Rows, Open, JobType, Updated, Work, marks, RowInv
  <2>4. CountInv'
    BY <1>15 DEF Begin, IInv, TypeOK, Rows, Open, JobType, Updated, Work, marks, CountInv,
       RowInv
  <2>5. CreditInv'
    BY <1>15 DEF Begin, IInv, TypeOK, Rows, Open, JobType, Updated, Work, marks,
       CreditInv, Owes
  <2>6. FileInv'
    BY <1>15 DEF Begin, IInv, TypeOK, Rows, Open, JobType, Updated, Work, marks, FileInv,
       RowInv
  <2>7. QED
    BY <2>1, <2>2, <2>3, <2>4, <2>5, <2>6 DEF IInv
<1>16. CASE Succeed
  <2>1. TypeOK'
    <3>1. object' \in BOOLEAN
      BY <1>16 DEF Succeed, IInv, TypeOK
    <3>2. delivered' \in Nat
      BY <1>16 DEF Succeed, IInv, TypeOK
    <3>3. QED
      BY <1>16, <3>1, <3>2 DEF Succeed, Work, marks, IInv, TypeOK
  <2>2. JobInv'
    BY <1>16 DEF Succeed, IInv, TypeOK, Rows, Open, JobType, Work, marks, JobInv
  <2>3. RowInv'
    BY <1>16 DEF Succeed, IInv, TypeOK, Rows, Open, JobType, Work, marks, RowInv
  <2>4. CountInv'
    BY <1>16 DEF Succeed, IInv, TypeOK, Rows, Open, JobType, Work, marks, CountInv, RowInv
  <2>5. CreditInv'
    BY <1>16 DEF Succeed, IInv, TypeOK, Rows, Open, JobType, Work, marks, CreditInv, Owes
  <2>6. FileInv'
    BY <1>16 DEF Succeed, IInv, TypeOK, Rows, Open, JobType, Work, marks, FileInv, RowInv
  <2>7. QED
    BY <2>1, <2>2, <2>3, <2>4, <2>5, <2>6 DEF IInv
<1>17. CASE Throw
  BY <1>17 DEF Throw, IInv, TypeOK, JobInv, RowInv, CountInv, CreditInv, FileInv,
     Owes, Rows, Open, JobType, mail, marks, Work
<1>18. CASE Store
  BY <1>18 DEF Store, IInv, TypeOK, JobInv, RowInv, CountInv, CreditInv, FileInv,
     Owes, Rows, Open, JobType, Updated, mail, marks, Work
<1>19. CASE WriteFailure
  BY <1>19 DEF WriteFailure, IInv, TypeOK, JobInv, RowInv, CountInv, CreditInv,
     FileInv, Owes, Rows, Open, JobType, Updated, mail, marks, Work
<1>20. CASE Ack
  BY <1>20 DEF Ack, IInv, TypeOK, JobInv, RowInv, CountInv, CreditInv, FileInv,
     Owes, Rows, Open, JobType, mail, marks, Work
<1>21. CASE Nack
  <2>1. TypeOK'
    <3>1. job.made + 1 \in 0..Attempts
      BY <1>21 DEF Nack, Work, IInv, TypeOK, JobType, JobInv
    <3>2. PICK a \in {"waiting", "failed"} :
             job' = [job EXCEPT !.made = job.made + 1, !.at = a]
      BY <1>21 DEF Nack
    <3>3. job' \in JobType
      BY <3>1, <3>2 DEF IInv, TypeOK, JobType
    <3>4. QED
      BY <1>21, <3>3 DEF Nack, Work, IInv, TypeOK, mail, marks
  <2>2. JobInv'
    BY <1>21 DEF Nack, IInv, TypeOK, Rows, Open, JobType, mail, marks, Work, JobInv
  <2>3. RowInv'
    BY <1>21 DEF Nack, IInv, TypeOK, Rows, Open, JobType, mail, marks, Work, RowInv
  <2>4. CountInv'
    BY <1>21 DEF Nack, IInv, TypeOK, Rows, Open, JobType, mail, marks, Work, CountInv,
       RowInv
  <2>5. CreditInv'
    BY <1>21 DEF Nack, IInv, TypeOK, Rows, Open, JobType, mail, marks, Work, CreditInv,
       Owes
  <2>6. FileInv'
    BY <1>21 DEF Nack, IInv, TypeOK, Rows, Open, JobType, mail, marks, Work, FileInv,
       RowInv
  <2>7. QED
    BY <2>1, <2>2, <2>3, <2>4, <2>5, <2>6 DEF IInv
<1>22. CASE Crash
  <2>1. TypeOK'
    BY <1>22 DEF Crash, IInv, TypeOK, Rows, Open, JobType, mail, marks, JobInv, RowInv
  <2>2. JobInv'
    BY <1>22 DEF Crash, IInv, TypeOK, Rows, Open, JobType, mail, marks, JobInv
  <2>3. RowInv'
    BY <1>22 DEF Crash, IInv, TypeOK, Rows, Open, JobType, mail, marks, RowInv
  <2>4. CountInv'
    BY <1>22 DEF Crash, IInv, TypeOK, Rows, Open, JobType, mail, marks, CountInv, RowInv
  <2>5. CreditInv'
    BY <1>22 DEF Crash, IInv, TypeOK, Rows, Open, JobType, mail, marks, CreditInv, Owes
  <2>6. FileInv'
    BY <1>22 DEF Crash, IInv, TypeOK, Rows, Open, JobType, mail, marks, FileInv, RowInv
  <2>7. QED
    BY <2>1, <2>2, <2>3, <2>4, <2>5, <2>6 DEF IInv
<1>23. CASE Stall
  <2>1. TypeOK'
    <3>1. job.stalls + 1 \in 0..MaxStalled + 1
      BY <1>23 DEF Stall, IInv, TypeOK, JobType, JobInv
    <3>2. PICK a \in {"waiting", "failed"} :
             job' = [job EXCEPT !.stalls = job.stalls + 1, !.at = a]
      BY <1>23 DEF Stall
    <3>3. job' \in JobType
      BY <3>1, <3>2 DEF IInv, TypeOK, JobType
    <3>4. QED
      BY <1>23, <3>3 DEF Stall, IInv, TypeOK, mail, marks
  <2>2. JobInv'
    BY <1>23 DEF Stall, IInv, TypeOK, Rows, Open, JobType, mail, marks, JobInv
  <2>3. RowInv'
    BY <1>23 DEF Stall, IInv, TypeOK, Rows, Open, JobType, mail, marks, RowInv
  <2>4. CountInv'
    BY <1>23 DEF Stall, IInv, TypeOK, Rows, Open, JobType, mail, marks, CountInv, RowInv
  <2>5. CreditInv'
    BY <1>23 DEF Stall, IInv, TypeOK, Rows, Open, JobType, mail, marks, CreditInv, Owes
  <2>6. FileInv'
    BY <1>23 DEF Stall, IInv, TypeOK, Rows, Open, JobType, mail, marks, FileInv, RowInv
  <2>7. QED
    BY <2>1, <2>2, <2>3, <2>4, <2>5, <2>6 DEF IInv
<1>24. CASE Forget
  <2>1. TypeOK'
    BY <1>24 DEF Forget, IInv, TypeOK, Rows, Open, NoJob, JobType, mail, marks, JobInv,
       RowInv
  <2>2. JobInv'
    BY <1>24 DEF Forget, IInv, TypeOK, Rows, Open, NoJob, JobType, mail, marks, JobInv
  <2>3. RowInv'
    BY <1>24 DEF Forget, IInv, TypeOK, Rows, Open, NoJob, JobType, mail, marks, RowInv
  <2>4. CountInv'
    BY <1>24 DEF Forget, IInv, TypeOK, Rows, Open, NoJob, JobType, mail, marks, CountInv,
       RowInv
  <2>5. CreditInv'
    BY <1>24 DEF Forget, IInv, TypeOK, Rows, Open, NoJob, JobType, mail, marks, CreditInv,
       Owes
  <2>6. FileInv'
    BY <1>24 DEF Forget, IInv, TypeOK, Rows, Open, NoJob, JobType, mail, marks, FileInv,
       RowInv
  <2>7. QED
    BY <2>1, <2>2, <2>3, <2>4, <2>5, <2>6 DEF IInv
<1>25. CASE UNCHANGED vars
  <2>1. TypeOK'
    BY <1>25 DEF vars, IInv, TypeOK, Rows, Open, JobType, mail, marks, JobInv, RowInv
  <2>2. JobInv'
    BY <1>25 DEF vars, IInv, TypeOK, Rows, Open, JobType, mail, marks, JobInv
  <2>3. RowInv'
    BY <1>25 DEF vars, IInv, TypeOK, Rows, Open, JobType, mail, marks, RowInv
  <2>4. CountInv'
    BY <1>25 DEF vars, IInv, TypeOK, Rows, Open, JobType, mail, marks, CountInv, RowInv
  <2>5. CreditInv'
    BY <1>25 DEF vars, IInv, TypeOK, Rows, Open, JobType, mail, marks, CreditInv, Owes
  <2>6. FileInv'
    BY <1>25 DEF vars, IInv, TypeOK, Rows, Open, JobType, mail, marks, FileInv, RowInv
  <2>7. QED
    BY <2>1, <2>2, <2>3, <2>4, <2>5, <2>6 DEF IInv
<1>26. CASE ReadFails
  <2>1. TypeOK'
    BY <1>26 DEF ReadFails, IInv, TypeOK, Rows, Open, JobType, Updated, mail, Work
  <2>2. JobInv'
    BY <1>26 DEF ReadFails, IInv, TypeOK, Rows, Open, JobType, Updated, mail, Work, JobInv
  <2>3. RowInv'
    BY <1>26 DEF ReadFails, IInv, TypeOK, Rows, Open, JobType, Updated, mail, Work, RowInv
  <2>4. CountInv'
    BY <1>26 DEF ReadFails, IInv, TypeOK, Rows, Open, JobType, Updated, mail, Work, CountInv, RowInv
  <2>5. CreditInv'
    BY <1>26 DEF ReadFails, IInv, TypeOK, Rows, Open, JobType, Updated, mail, Work, CreditInv, Owes
  <2>6. FileInv'
    BY <1>26 DEF ReadFails, IInv, TypeOK, Rows, Open, JobType, Updated, mail, Work, FileInv, RowInv
  <2>7. QED
    BY <2>1, <2>2, <2>3, <2>4, <2>5, <2>6 DEF IInv
<1>27. CASE BeginFails
  <2>1. TypeOK'
    BY <1>27 DEF BeginFails, IInv, TypeOK, Rows, Open, JobType, Updated, mail, Work
  <2>2. JobInv'
    BY <1>27 DEF BeginFails, IInv, TypeOK, Rows, Open, JobType, Updated, mail, Work, JobInv
  <2>3. RowInv'
    BY <1>27 DEF BeginFails, IInv, TypeOK, Rows, Open, JobType, Updated, mail, Work, RowInv
  <2>4. CountInv'
    BY <1>27 DEF BeginFails, IInv, TypeOK, Rows, Open, JobType, Updated, mail, Work, CountInv, RowInv
  <2>5. CreditInv'
    BY <1>27 DEF BeginFails, IInv, TypeOK, Rows, Open, JobType, Updated, mail, Work, CreditInv, Owes
  <2>6. FileInv'
    BY <1>27 DEF BeginFails, IInv, TypeOK, Rows, Open, JobType, Updated, mail, Work, FileInv, RowInv
  <2>7. QED
    BY <2>1, <2>2, <2>3, <2>4, <2>5, <2>6 DEF IInv
<1>28. CASE StoreFails
  <2>1. TypeOK'
    <3>1. CASE UNCHANGED <<row, file>>
      BY <1>28, <3>1 DEF StoreFails, IInv, TypeOK, mail, Work
    <3>2. CASE /\ row' = Updated(IF kind = "report" THEN "DONE" ELSE "SENT")
               /\ file' = (kind = "report" /\ row \in Rows)
      <4>1. file' \in BOOLEAN /\ (file' => row' \in Rows)
        BY <3>2 DEF Updated, Rows, Open
      <4>2. /\ row' \in Rows \cup {"none", "deleted"}
            /\ row' \in {"RUNNING", "DONE"} => kind = "report"
            /\ row' = "SENT" => kind = "mail"
        BY <3>2 DEF IInv, TypeOK, Updated, Rows, Open
      <4>3. QED
        BY <1>28, <4>1, <4>2 DEF StoreFails, IInv, TypeOK, mail, Work
    <3>3. QED
      BY <1>28, <3>1, <3>2 DEF StoreFails
  <2>2. JobInv'
    BY <1>28 DEF StoreFails, IInv, TypeOK, Rows, Open, JobType, Updated, mail, Work, JobInv
  <2>3. RowInv'
    BY <1>28 DEF StoreFails, IInv, TypeOK, Rows, Open, JobType, Updated, mail, Work, RowInv
  <2>4. CountInv'
    BY <1>28 DEF StoreFails, IInv, TypeOK, Rows, Open, JobType, Updated, mail, Work, CountInv, RowInv
  <2>5. CreditInv'
    BY <1>28 DEF StoreFails, IInv, TypeOK, Rows, Open, JobType, Updated, mail, Work, CreditInv, Owes
  <2>6. FileInv'
    BY <1>28 DEF StoreFails, IInv, TypeOK, Rows, Open, JobType, Updated, mail, Work, FileInv, RowInv
  <2>7. QED
    BY <2>1, <2>2, <2>3, <2>4, <2>5, <2>6 DEF IInv
<1>29. CASE WriteFailureFails
  <2>1. TypeOK'
    BY <1>29 DEF WriteFailureFails, IInv, TypeOK, Rows, Open, JobType, Updated, mail, Work
  <2>2. JobInv'
    BY <1>29 DEF WriteFailureFails, IInv, TypeOK, Rows, Open, JobType, Updated, mail, Work, JobInv
  <2>3. RowInv'
    BY <1>29 DEF WriteFailureFails, IInv, TypeOK, Rows, Open, JobType, Updated, mail, Work, RowInv
  <2>4. CountInv'
    BY <1>29 DEF WriteFailureFails, IInv, TypeOK, Rows, Open, JobType, Updated, mail, Work, CountInv, RowInv
  <2>5. CreditInv'
    BY <1>29 DEF WriteFailureFails, IInv, TypeOK, Rows, Open, JobType, Updated, mail, Work, CreditInv, Owes
  <2>6. FileInv'
    BY <1>29 DEF WriteFailureFails, IInv, TypeOK, Rows, Open, JobType, Updated, mail, Work, FileInv, RowInv
  <2>7. QED
    BY <2>1, <2>2, <2>3, <2>4, <2>5, <2>6 DEF IInv
<1>30. QED
  BY <1>1, <1>2, <1>3, <1>4, <1>5, <1>6, <1>7, <1>8, <1>9, <1>10, <1>11, <1>12,
     <1>13, <1>14, <1>15, <1>16, <1>17, <1>18, <1>19, <1>20, <1>21, <1>22, <1>23,
     <1>24, <1>25, <1>26, <1>27, <1>28, <1>29
     DEF Next, Process, DatabaseFails, Request

-----------------------------------------------------------------------------
(* Row, job, file, counters and clients fit together in every reachable    *)
(* state, however requests, attempts, deaths and deletions interleave.     *)
THEOREM JobsInductive == Spec => []IInv
<1>1. Init => IInv
  BY IInvInit
<1>2. IInv /\ [Next]_vars => IInv'
  BY IInvStep
<1>3. QED
  BY <1>1, <1>2, PTL DEF Spec

(* Every variable keeps its type, for any bounds: attempts and stalls stay *)
(* within the options of the queue.                                        *)
THEOREM JobsTypes == Spec => []TypeOK
<1>1. IInv => TypeOK
  BY DEF IInv
<1>2. QED
  BY <1>1, JobsInductive, PTL

(* A report shown as done has its file, unless its deletion is under way   *)
(* or a stale request has inserted it again (process, deleteReport).       *)
THEOREM DoneReportsHaveFiles == Spec => []DoneHasFile
<1>1. IInv => DoneHasFile
  BY DEF IInv, FileInv, DoneHasFile
<1>2. QED
  BY <1>1, JobsInductive, PTL

(* attempts of a mail is never less than the times it was handed over      *)
(* (mail.processor.ts, process: it is counted first).                      *)
THEOREM SendsAreCounted == Spec => []EverySendIsCounted
<1>1. IInv => EverySendIsCounted
  BY DEF IInv, CountInv, EverySendIsCounted
<1>2. QED
  BY <1>1, JobsInductive, PTL

(* A mail is handed over at most once for each time it was queued, each    *)
(* death of a worker and each result that could not be stored, for any     *)
(* number of clients, retries and attempts.                                *)
THEOREM MailsAreNotRepeated == Spec => []DeliveredOncePerQueueing
<1>1. IInv => DeliveredOncePerQueueing
  BY DEF IInv, CreditInv, DeliveredOncePerQueueing
<1>2. QED
  BY <1>1, JobsInductive, PTL
==============================================================================
