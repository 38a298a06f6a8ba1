-------------------------------- MODULE Jobs --------------------------------
(***************************************************************************)
(* Work that the API hands to a worker: a row of report_jobs or mail_jobs, *)
(* the BullMQ job that carries its id, and the clients that ask for it,    *)
(* repeat it and delete it (report.service.ts, mail.service.ts and the     *)
(* processors of apps/api/src/queue).                                      *)
(*                                                                         *)
(* The model follows one row, of either kind.  The job id is made from the *)
(* id of the row, so rows do not meet in the queue.                        *)
(*                                                                         *)
(* BullMQ (external): add() of an id that exists, in whatever state, does  *)
(* nothing; an active job cannot be removed; a failed attempt waits for    *)
(* the next one; finished jobs are kept until enough others have finished; *)
(* the job of a dead worker stalls and runs again, MaxStalled times.  The  *)
(* lock of a worker that lives is always renewed.                          *)
(*                                                                         *)
(* A client may die, or be slow, at any point before it adds the job: it   *)
(* then takes no further step.  Every statement of a worker may fail, with *)
(* or without its effect.                                                  *)
(***************************************************************************)
EXTENDS Naturals

CONSTANTS
    Client,
    Attempts,    \* attempts of the job options (2 for reports, 5 for mail)
    MaxStalled,  \* maxStalledCount of BullMQ
    MaxCrashes,  \* bound: deaths of workers
    MaxQueued    \* bound: only work that was queued less often is asked for again

ASSUME AttemptsAssumption == Attempts \in Nat \ {0}
ASSUME MaxStalledAssumption == MaxStalled \in Nat
ASSUME BoundsAssumption == MaxCrashes \in Nat /\ MaxQueued \in Nat

VARIABLES
    kind,      \* "report" or "mail", the same for ever
    row,       \* state of the row; "none" before, "deleted" after it exists
    file,      \* the row has a file_key
    object,    \* the file is in the object storage
    job,       \* the job: where it is, attempts made, times stalled
    worker,    \* what the worker that has the job does next
    pc,        \* what each client does next
    attempts,  \* mail_jobs.attempts
    delivered, \* times the mail was handed over
    queued,    \* times a job was added
    crashes,   \* deaths of workers
    unstored,  \* attempts whose result could not be stored
    unsaid,    \* a statement failed and the attempt ends without a word in the row
    reborn     \* the row was deleted and inserted again

mail == <<attempts, delivered>>
marks == <<unstored, unsaid>>
vars == <<kind, row, file, object, job, worker, pc, mail, queued, crashes, marks, reborn>>

Open == {"PENDING", "RUNNING"}
Rows == Open \cup {"DONE", "SENT", "FAILED"}
NoJob == [at |-> "none", made |-> 0, stalls |-> 0]

(* An UPDATE by id: nothing happens to a row that is not there. *)
Updated(state) == IF row \in Rows THEN state ELSE row

Init ==
    /\ kind \in {"report", "mail"}
    /\ row = "none" /\ file = FALSE /\ object = FALSE
    /\ job = NoJob
    /\ worker = "idle"
    /\ pc = [c \in Client |-> "idle"]
    /\ attempts = 0 /\ delivered = 0 /\ queued = 0 /\ crashes = 0
    /\ unstored = 0 /\ unsaid = FALSE /\ reborn = FALSE

-----------------------------------------------------------------------------
(* Clients *)

Goto(c, from, to) == pc[c] = from /\ pc' = [pc EXCEPT ![c] = to]

(* createReport: a row that has not failed is used again, which changes    *)
(* nothing.                                                                *)
ReportLook(c) ==
    /\ kind = "report"
    /\ \/ row = "none" /\ Goto(c, "idle", "insert")
       \/ row = "FAILED" /\ queued < MaxQueued /\ Goto(c, "idle", "reset")
    /\ UNCHANGED <<kind, row, file, object, job, worker, mail, queued, crashes, marks, reborn>>

(* save() of a new row; the unique key refuses a second one. *)
ReportInsert(c) ==
    /\ IF row = "none"
       THEN row' = "PENDING" /\ Goto(c, "insert", "dispatch")
       ELSE row' = row /\ Goto(c, "insert", "idle")
    /\ UNCHANGED <<kind, file, object, job, worker, mail, queued, crashes, marks, reborn>>

(* save() of the row that was found failed.  It writes the new state over  *)
(* any other and leaves file_key alone, whose value is undefined; a row    *)
(* that was deleted is inserted again, unless a newer one has its key.     *)
ReportReset(c) ==
    /\ \/ row \in Rows /\ row' = "PENDING" /\ Goto(c, "reset", "dispatch") /\ UNCHANGED reborn
       \/ row = "deleted" /\ row' = "PENDING" /\ Goto(c, "reset", "dispatch") /\ reborn' = TRUE
       \/ row = "deleted" /\ row' = row /\ Goto(c, "reset", "idle") /\ UNCHANGED reborn
    /\ UNCHANGED <<kind, file, object, job, worker, mail, queued, crashes, marks>>

(* dispatch of reports, the end of enqueue and of retry of mails. *)
Dispatch(c) ==
    /\ Goto(c, "dispatch", "idle")
    /\ IF job.at = "none"
       THEN job' = [NoJob EXCEPT !.at = "waiting"] /\ queued' = queued + 1
       ELSE UNCHANGED <<job, queued>>
    /\ UNCHANGED <<kind, row, file, object, worker, mail, crashes, marks, reborn>>

(* deleteReport: a report that is being made is not deleted. *)
DeleteLook(c) ==
    /\ kind = "report"
    /\ row \in Rows \ {"RUNNING"}
    /\ Goto(c, "idle", IF file THEN "deleteFile" ELSE "deleteRow")
    /\ UNCHANGED <<kind, row, file, object, job, worker, mail, queued, crashes, marks, reborn>>

(* A failure of the object storage is logged. *)
DeleteFile(c) ==
    /\ Goto(c, "deleteFile", "deleteRow")
    /\ object' \in {FALSE, object}
    /\ UNCHANGED <<kind, row, file, job, worker, mail, queued, crashes, marks, reborn>>

DeleteRow(c) ==
    /\ Goto(c, "deleteRow", "idle")
    /\ row' = "deleted" /\ file' = FALSE
    /\ UNCHANGED <<kind, object, job, worker, mail, queued, crashes, marks, reborn>>

(* Task pathUpdater: rows older than seven days are deleted, as they are. *)
Purge ==
    /\ kind = "report"
    /\ row \in Rows
    /\ row' = "deleted" /\ file' = FALSE
    /\ UNCHANGED <<kind, object, job, worker, pc, mail, queued, crashes, marks, reborn>>

(* enqueue: the row is written before the job. *)
MailEnqueue(c) ==
    /\ kind = "mail"
    /\ row = "none"
    /\ row' = "PENDING"
    /\ Goto(c, "idle", "dispatch")
    /\ UNCHANGED <<kind, file, object, job, worker, mail, queued, crashes, marks, reborn>>

(* retry: the row was there when the client looked. *)
MailRetry(c) ==
    /\ kind = "mail"
    /\ row # "none" /\ queued < MaxQueued
    /\ row' = Updated("PENDING")
    /\ Goto(c, "idle", "remove")
    /\ UNCHANGED <<kind, file, object, job, worker, mail, queued, crashes, marks, reborn>>

MailDelete(c) ==
    /\ kind = "mail"
    /\ row \in Rows
    /\ row' = "deleted"
    /\ Goto(c, "idle", "removeOnly")
    /\ UNCHANGED <<kind, file, object, job, worker, mail, queued, crashes, marks, reborn>>

(* The error of an active job is dropped. *)
RemoveJob(c) ==
    /\ Goto(c, "remove", "dispatch") \/ Goto(c, "removeOnly", "idle")
    /\ job' = IF job.at = "active" THEN job ELSE NoJob
    /\ UNCHANGED <<kind, row, file, object, worker, mail, queued, crashes, marks, reborn>>

-----------------------------------------------------------------------------
(* The worker that has the job *)

Work(from, to) == worker = from /\ worker' = to

Take ==
    /\ job.at = "waiting"
    /\ job' = [job EXCEPT !.at = "active"]
    /\ Work("idle", "read")
    /\ unsaid' = FALSE
    /\ UNCHANGED <<kind, row, file, object, pc, mail, queued, crashes, unstored, reborn>>

(* Mutant: a report that is already being made is left alone. *)
ReadSkipsRunning ==
    /\ IF row \notin Rows \/ (row = "DONE" /\ file) \/ row = "RUNNING"
       THEN Work("read", "ack")
       ELSE Work("read", "begin")
    /\ UNCHANGED <<kind, row, file, object, job, pc, mail, queued, crashes, marks, reborn>>

(* The row may be gone, or a report finished by an earlier attempt. *)
Read ==
    /\ IF row \notin Rows \/ (row = "DONE" /\ file)
       THEN Work("read", "ack")
       ELSE Work("read", "begin")
    /\ UNCHANGED <<kind, row, file, object, job, pc, mail, queued, crashes, marks, reborn>>

Begin ==
    /\ Work("begin", "work")
    /\ IF kind = "report"
       THEN row' = Updated("RUNNING") /\ UNCHANGED attempts
       ELSE attempts' = (IF row \in Rows THEN attempts + 1 ELSE attempts) /\ UNCHANGED row
    /\ UNCHANGED <<kind, file, object, job, pc, delivered, queued, crashes, marks, reborn>>

(* Mutant: a failed upload of the file is only logged. *)
SucceedUnchecked ==
    /\ Work("work", "store")
    /\ IF kind = "report"
       THEN object' \in {object, TRUE} /\ UNCHANGED delivered
       ELSE delivered' = delivered + 1 /\ UNCHANGED object
    /\ UNCHANGED <<kind, row, file, job, pc, attempts, queued, crashes, marks, reborn>>

(* The file is stored, or the mail is sent. *)
Succeed ==
    /\ Work("work", "store")
    /\ IF kind = "report"
       THEN object' = TRUE /\ UNCHANGED delivered
       ELSE delivered' = delivered + 1 /\ UNCHANGED object
    /\ UNCHANGED <<kind, row, file, job, pc, attempts, queued, crashes, marks, reborn>>

(* Mutant: send() fails after it has handed the mail over. *)
ThrowAfterSending ==
    /\ Work("work", "writeFailure")
    /\ delivered' = IF kind = "mail" THEN delivered + 1 ELSE delivered
    /\ UNCHANGED <<kind, row, file, object, job, pc, attempts, queued, crashes, marks, reborn>>

(* build(), putReport() or send() fails, and has stored or sent nothing. *)
Throw ==
    /\ Work("work", "writeFailure")
    /\ UNCHANGED <<kind, row, file, object, job, pc, mail, queued, crashes, marks, reborn>>

Store ==
    /\ Work("store", "ack")
    /\ row' = Updated(IF kind = "report" THEN "DONE" ELSE "SENT")
    /\ file' = (kind = "report" /\ row \in Rows)
    /\ UNCHANGED <<kind, object, job, pc, mail, queued, crashes, marks, reborn>>

WriteFailure ==
    /\ Work("writeFailure", "nack")
    /\ row' = Updated("FAILED")
    /\ UNCHANGED <<kind, file, object, job, pc, mail, queued, crashes, marks, reborn>>

(* The database fails the worker.  In front of the try the attempt just    *)
(* ends; a result that cannot be stored fails the attempt, although it is  *)
(* there; and an error of the catch takes the place of the first.          *)
ReadFails ==
    /\ Work("read", "nack")
    /\ unsaid' = TRUE
    /\ UNCHANGED <<kind, row, file, object, job, pc, mail, queued, crashes, unstored, reborn>>

BeginFails ==
    /\ Work("begin", "nack")
    /\ IF kind = "report"
       THEN row' \in {row, Updated("RUNNING")} /\ UNCHANGED attempts
       ELSE attempts' \in {attempts, IF row \in Rows THEN attempts + 1 ELSE attempts} /\ UNCHANGED row
    /\ unsaid' = TRUE
    /\ UNCHANGED <<kind, file, object, job, pc, delivered, queued, crashes, unstored, reborn>>

StoreFails ==
    /\ Work("store", "writeFailure")
    /\ \/ UNCHANGED <<row, file>>
       \/ /\ row' = Updated(IF kind = "report" THEN "DONE" ELSE "SENT")
          /\ file' = (kind = "report" /\ row \in Rows)
    /\ unstored' = unstored + 1
    /\ UNCHANGED <<kind, object, job, pc, mail, queued, crashes, unsaid, reborn>>

WriteFailureFails ==
    /\ Work("writeFailure", "nack")
    /\ row' \in {row, Updated("FAILED")}
    /\ unsaid' = TRUE
    /\ UNCHANGED <<kind, file, object, job, pc, mail, queued, crashes, unstored, reborn>>

(* The processor returns, or throws and leaves the retry to BullMQ. *)
Ack ==
    /\ Work("ack", "idle")
    /\ job' = [job EXCEPT !.at = "completed"]
    /\ UNCHANGED <<kind, row, file, object, pc, mail, queued, crashes, marks, reborn>>

Nack ==
    /\ Work("nack", "idle")
    /\ job' = [job EXCEPT !.made = @ + 1,
                          !.at = IF job.made + 1 < Attempts THEN "waiting" ELSE "failed"]
    /\ UNCHANGED <<kind, row, file, object, pc, mail, queued, crashes, marks, reborn>>

Crash ==
    /\ worker # "idle" /\ crashes < MaxCrashes
    /\ worker' = "idle"
    /\ crashes' = crashes + 1
    /\ UNCHANGED <<kind, row, file, object, job, pc, mail, queued, marks, reborn>>

Stall ==
    /\ job.at = "active" /\ worker = "idle"
    /\ job' = [job EXCEPT !.stalls = @ + 1,
                          !.at = IF job.stalls < MaxStalled THEN "waiting" ELSE "failed"]
    /\ UNCHANGED <<kind, row, file, object, worker, pc, mail, queued, crashes, marks, reborn>>

(* removeOnComplete, removeOnFail *)
Forget ==
    /\ job.at \in {"completed", "failed"}
    /\ job' = NoJob
    /\ UNCHANGED <<kind, row, file, object, worker, pc, mail, queued, crashes, marks, reborn>>

Process ==
    \/ Take \/ Read \/ Begin \/ Succeed \/ Throw \/ Store \/ WriteFailure
    \/ Ack \/ Nack \/ Stall

DatabaseFails == ReadFails \/ BeginFails \/ StoreFails \/ WriteFailureFails

Request(c) ==
    \/ ReportLook(c) \/ ReportInsert(c) \/ ReportReset(c)
    \/ DeleteLook(c) \/ DeleteFile(c) \/ DeleteRow(c)
    \/ MailEnqueue(c) \/ MailRetry(c) \/ MailDelete(c) \/ RemoveJob(c)
    \/ Dispatch(c)

Next == Process \/ DatabaseFails \/ Crash \/ Forget \/ Purge \/ \E c \in Client : Request(c)

Spec == Init /\ [][Next]_vars

(* Jobs are taken, work ends, stalled jobs are found; a client that has    *)
(* written its row goes on to add the job.                                 *)
FairSpec == Spec /\ WF_vars(Process) /\ \A c \in Client : WF_vars(Dispatch(c))

-----------------------------------------------------------------------------
JobType ==
    [at : {"none", "waiting", "active", "completed", "failed"},
     made : 0..Attempts, stalls : 0..MaxStalled + 1]

TypeOK ==
    /\ kind \in {"report", "mail"}
    /\ row \in Rows \cup {"none", "deleted"}
    /\ row \in {"RUNNING", "DONE"} => kind = "report"
    /\ row = "SENT" => kind = "mail"
    /\ file \in BOOLEAN /\ object \in BOOLEAN
    /\ file => row \in Rows
    /\ job \in JobType
    /\ worker \in {"idle", "read", "begin", "work", "store", "writeFailure", "ack", "nack"}
    /\ worker # "idle" => job.at = "active"
    /\ pc \in [Client -> {"idle", "insert", "reset", "dispatch", "deleteFile",
                          "deleteRow", "remove", "removeOnly"}]
    /\ attempts \in Nat /\ delivered \in Nat /\ queued \in Nat
    /\ crashes \in 0..MaxCrashes
    /\ unstored \in Nat /\ unsaid \in BOOLEAN /\ reborn \in BOOLEAN

(* A report that is shown as done can be downloaded, or is about to be     *)
(* deleted: retries, repeated requests and deletions that race never part  *)
(* the row from its file (report.processor.ts, process; deleteReport).     *)
(* Only a row that a stale request has inserted again may lack it.         *)
DoneHasFile ==
    row = "DONE" /\ ~reborn => object \/ \E c \in Client : pc[c] = "deleteRow"

(* mail_jobs.attempts counts every mail handed over, also when the worker  *)
(* dies before it has written the result (mail.service.ts, retry).         *)
EverySendIsCounted == row # "deleted" => delivered <= attempts

(* However retry, deletion and attempts race, a mail is handed over at     *)
(* most once for each time it was queued; only the death of a worker and a *)
(* result that could not be stored add another (mail.service.ts, enqueue   *)
(* and retry; mail.processor.ts, the update of SENT inside the try).       *)
DeliveredOncePerQueueing == delivered <= queued + crashes + unstored

(* A job in the queue settles its row, also when a worker dies over it:    *)
(* the row does not stay PENDING or RUNNING (the catch of the processors). *)
(* Only an attempt whose statements fail in front of the try, or in the    *)
(* catch, ends without a word.                                             *)
QueuedJobSettlesRow == job.at = "waiting" ~> row \notin Open \/ unsaid

(* A report that was asked for, also again after it has failed, is made or *)
(* fails (report.service.ts, createReport: "the report is queued").        *)
RequestedReportEnds == (kind = "report" /\ row = "PENDING") ~> row \notin Open
=============================================================================
