-------------------------------- MODULE Sift --------------------------------
(***************************************************************************)
(* Judging what the detector found, and reviewing the judgements: apply()  *)
(* of apps/api/src/sift/sift.service.ts, beside the creation of orders and *)
(* the status endpoint of the cases, which write the same rows.            *)
(*                                                                         *)
(* A batch is one transaction: it reads the rows, updates those it does    *)
(* not reject, and writes their history before it commits.  The history is *)
(* written by recordMany() in a transaction of its own, on a second        *)
(* connection of the same pool; the first one is idle meanwhile, and keeps *)
(* the locks of its rows.  A row that is locked is waited for, and then    *)
(* updated as it is by then.  PostgreSQL and the pool of connections are   *)
(* external: the pool serves its queue in order and never gives up, the    *)
(* database ends a transaction that is idle for too long.                  *)
(***************************************************************************)
EXTENDS Naturals, Sequences, FiniteSets

CONSTANTS
    Case,       \* cases with a status row
    Batch,      \* calls of judge() and review(), numbered
    Earlier,    \* judges and reviewers outside these
    Nobody,     \* no judge, no reviewer
    Verdict,    \* JUDGE_VALUES
    PoolSize,   \* poolSize
    MaxFaults   \* bound: statements that fail, statuses set past apply()

ASSUME BatchAssumption == Batch \subseteq Nat
ASSUME ActorAssumption == Earlier \notin Batch /\ Nobody \notin Batch \cup {Earlier}
ASSUME VerdictAssumption == "unjudged" \notin Verdict
ASSUME SizeAssumption == PoolSize \in Nat \ {0} /\ MaxFaults \in Nat

VARIABLES
    status,     \* patrol_case_statuses.status
    judgedBy,   \* upd_status_usr
    reviewedBy, \* upd_status_adm
    ordered,    \* cases with a work order
    history,    \* case_histories of every case: which batch, to which status
    call,       \* what every batch was asked
    pc,         \* where it is
    targets,    \* the rows it has not rejected
    waiting,    \* the pool's queue
    unlogged,   \* cases with a history not of batches alone, or not of their changes
    overlapped, \* cases that changed between a batch's read and its update, or past it
    faults

rows == <<status, judgedBy, reviewedBy, ordered>>
vars == <<rows, history, call, pc, targets, waiting, unlogged, overlapped, faults>>

Init ==
    /\ judgedBy \in [Case -> {Nobody, Earlier}]
    /\ status \in [Case -> Verdict \cup {"unjudged"}]
    /\ \A c \in Case : status[c] = "unjudged" <=> judgedBy[c] = Nobody
    /\ reviewedBy = [c \in Case |-> Nobody]
    /\ ordered = {}
    /\ history = [c \in Case |-> <<>>]
    /\ call = [b \in Batch |-> [mode |-> "none"]]
    /\ pc = [b \in Batch |-> "idle"]
    /\ targets = [b \in Batch |-> {}]
    /\ waiting = <<>>
    /\ unlogged = {} /\ overlapped = {}
    /\ faults = 0

-----------------------------------------------------------------------------
(* Connections in use: a batch holds one from its begin to its end. *)
InTransaction == {b \in Batch : pc[b] \in {"begun", "read", "updated", "recorded"}}
Free == PoolSize > Cardinality(InTransaction)

Locked(c) == \E b \in Batch : pc[b] \in {"updated", "recorded"} /\ c \in targets[b]

(* The pool gives the next free connection to the head of its queue. *)
Served(b) == Free /\ waiting # <<>> /\ Head(waiting) = b

Move(b, to) == pc' = [pc EXCEPT ![b] = to]

(* Mutant: a review does not ask for an order. *)
RejectedForJudge(c, mode) ==
    \/ mode = "JUDGE" /\ (reviewedBy[c] # Nobody \/ status[c] # "unjudged" \/ c \in ordered)
    \/ mode = "REVIEW" /\ judgedBy[c] = Nobody

(* rejectReason() *)
Rejected(c, mode) ==
    \/ c \in ordered
    \/ mode = "JUDGE" /\ (reviewedBy[c] # Nobody \/ status[c] # "unjudged")
    \/ mode = "REVIEW" /\ judgedBy[c] = Nobody

-----------------------------------------------------------------------------
(* The calls have their numbers from the order they are made in. *)
IsNext(b) == pc[b] = "idle" /\ \A d \in Batch : d < b => pc[d] # "idle"

Ask(b, mode, ids, to) ==
    /\ IsNext(b)
    /\ Move(b, "asked")
    /\ call' = [call EXCEPT ![b] = [mode |-> mode, ids |-> ids, to |-> to]]
    /\ waiting' = Append(waiting, b)
    /\ UNCHANGED <<rows, history, targets, unlogged, overlapped, faults>>

Begin(b) ==
    /\ pc[b] = "asked" /\ Served(b)
    /\ Move(b, "begun")
    /\ waiting' = Tail(waiting)
    /\ UNCHANGED <<rows, history, call, targets, unlogged, overlapped, faults>>

Read(b) ==
    /\ pc[b] = "begun"
    /\ targets' = [targets EXCEPT ![b] = {c \in call[b].ids : ~Rejected(c, call[b].mode)}]
    /\ Move(b, IF targets'[b] = {} THEN "done" ELSE "read")
    /\ UNCHANGED <<rows, history, call, waiting, unlogged, overlapped, faults>>

(* The rows are locked; recordMany() asks the pool for a connection. *)
Update(b) ==
    /\ pc[b] = "read"
    /\ \A c \in targets[b] : ~Locked(c)
    /\ Move(b, "updated")
    /\ waiting' = Append(waiting, b)
    /\ UNCHANGED <<rows, history, call, targets, unlogged, overlapped, faults>>

(* A statement fails, a lock is not free in time: nothing is kept. *)
Fail(b) ==
    /\ pc[b] \in {"begun", "read", "recorded"}
    /\ faults < MaxFaults
    /\ faults' = faults + 1
    /\ Move(b, "failed")
    /\ unlogged' = IF pc[b] = "recorded" THEN unlogged \cup targets[b] ELSE unlogged
    /\ UNCHANGED <<rows, history, call, targets, waiting, overlapped>>

(* Mutant: the timeout is off. *)
NoIdleTimeout(b) == FALSE /\ UNCHANGED vars

(* idle_in_transaction_session_timeout: the transaction is gone with its   *)
(* connection, recordMany() still waits for one.                           *)
IdleTimeout(b) ==
    /\ pc[b] = "updated"
    /\ Move(b, "killed")
    /\ UNCHANGED <<rows, history, call, targets, waiting, unlogged, overlapped, faults>>

(* recordMany(), which logs its failure and returns. *)
Record(b) ==
    /\ pc[b] \in {"updated", "killed"} /\ Served(b)
    /\ Move(b, IF pc[b] = "updated" THEN "recorded" ELSE "failed")
    /\ waiting' = Tail(waiting)
    /\ \/ /\ history' = [c \in Case |-> IF c \in targets[b]
                            THEN Append(history[c], [by |-> b, to |-> call[b].to])
                            ELSE history[c]]
          /\ unlogged' = IF pc[b] = "killed" THEN unlogged \cup targets[b] ELSE unlogged
          /\ UNCHANGED faults
       \/ /\ faults < MaxFaults
          /\ faults' = faults + 1
          /\ unlogged' = unlogged \cup targets[b]
          /\ UNCHANGED history
    /\ UNCHANGED <<rows, call, targets, overlapped>>

(* Batches that have read c and are still to update it. *)
ReadBefore(c) == \E b \in Batch : pc[b] = "read" /\ c \in targets[b]

Stamp(who, b) == [c \in Case |-> IF c \in targets[b] THEN b ELSE who[c]]

(* Mutant: a review stamps the reviewer and forgets the verdict. *)
VerdictOfJudge(b) == [c \in Case |->
    IF c \in targets[b] /\ call[b].mode = "JUDGE" THEN call[b].to ELSE status[c]]

VerdictOf(b) == [c \in Case |-> IF c \in targets[b] THEN call[b].to ELSE status[c]]

Commit(b) ==
    /\ pc[b] = "recorded"
    /\ Move(b, "done")
    /\ status' = VerdictOf(b)
    /\ IF call[b].mode = "JUDGE"
       THEN judgedBy' = Stamp(judgedBy, b) /\ UNCHANGED reviewedBy
       ELSE reviewedBy' = Stamp(reviewedBy, b) /\ UNCHANGED judgedBy
    /\ overlapped' = overlapped \cup {c \in targets[b] : ReadBefore(c)}
    /\ UNCHANGED <<ordered, history, call, targets, waiting, unlogged, faults>>

(* create() of a work order ends with an update of the case's status row. *)
Order(c) ==
    /\ c \notin ordered
    /\ ~Locked(c)
    /\ ordered' = ordered \cup {c}
    /\ overlapped' = overlapped \cup {d \in {c} : ReadBefore(d)}
    /\ UNCHANGED <<status, judgedBy, reviewedBy, history, call, pc, targets,
                   waiting, unlogged, faults>>

(* updateStatus() of a case asks for no reason to reject it: it sets the   *)
(* status of a case that is judged, reviewed or ordered, and stamps the    *)
(* caller as its judge or as its reviewer.  Its line of history is written *)
(* after it, by the actions of CaseHistory.                                *)
SetStatus(c, asAdmin, to) ==
    /\ faults < MaxFaults
    /\ ~Locked(c)
    /\ faults' = faults + 1
    /\ status' = [status EXCEPT ![c] = to]
    /\ IF asAdmin
       THEN reviewedBy' = [reviewedBy EXCEPT ![c] = Earlier] /\ UNCHANGED judgedBy
       ELSE judgedBy' = [judgedBy EXCEPT ![c] = Earlier] /\ UNCHANGED reviewedBy
    /\ unlogged' = unlogged \cup {c}
    /\ overlapped' = overlapped \cup {c}
    /\ UNCHANGED <<ordered, history, call, pc, targets, waiting>>

Step(b) ==
    Begin(b) \/ Read(b) \/ Update(b) \/ IdleTimeout(b) \/ Record(b) \/ Commit(b)

Next ==
    \/ \E b \in Batch :
          \/ \E mode \in {"JUDGE", "REVIEW"}, ids \in SUBSET Case \ {{}}, to \in Verdict :
                Ask(b, mode, ids, to)
          \/ Step(b) \/ Fail(b)
    \/ \E c \in Case :
          \/ Order(c)
          \/ \E asAdmin \in BOOLEAN, to \in Verdict \cup {"unjudged"} : SetStatus(c, asAdmin, to)

(* The database answers, a free connection is given away, and idle         *)
(* transactions are ended.                                                 *)
Spec == Init /\ [][Next]_vars /\ \A b \in Batch : WF_vars(Step(b))

-----------------------------------------------------------------------------
Request == [mode : {"JUDGE", "REVIEW"}, ids : SUBSET Case, to : Verdict]
Line == [by : Batch, to : Verdict]

RowsOK ==
    /\ status \in [Case -> Verdict \cup {"unjudged"}]
    /\ judgedBy \in [Case -> Batch \cup {Nobody, Earlier}]
    /\ reviewedBy \in [Case -> Batch \cup {Nobody, Earlier}]
    /\ ordered \cup unlogged \cup overlapped \subseteq Case
    /\ faults \in 0 .. MaxFaults

BatchesOK ==
    /\ pc \in [Batch -> {"idle", "asked", "begun", "read", "updated", "recorded",
                         "killed", "done", "failed"}]
    /\ call \in [Batch -> Request \cup {[mode |-> "none"]}]
    /\ \A b \in Batch : pc[b] # "idle" => call[b] \in Request
    /\ targets \in [Batch -> SUBSET Case]
    /\ waiting \in Seq(Batch)

TypeOK == RowsOK /\ BatchesOK /\ history \in [Case -> Seq(Line)]

(* Every batch ends, though each of a pool full of transactions may be     *)
(* waiting for the connection that only another's end would free.          *)
EveryBatchEnds == \A b \in Batch : (pc[b] # "idle") ~> (pc[b] \in {"done", "failed"})

(* The last line of a case's history tells its status, however the batches *)
(* about it overlap: the locks that outlast recordMany() keep the lines in *)
(* the order of the changes.                                               *)
LastLineTells ==
    \A c \in Case : history[c] # <<>> /\ ~Locked(c) /\ c \notin unlogged
                    => history[c][Len(history[c])].to = status[c]

(* No batch changes the judge of a verdict that has a review, or the       *)
(* status of a case with an order (rejectReason).  The only ways round are *)
(* the gap between a batch's read and its update, and the status endpoint  *)
(* of the cases.                                                           *)
SettledStays ==
    [][pc' # pc =>
          \A c \in Case \ overlapped :
             /\ reviewedBy[c] # Nobody => judgedBy'[c] = judgedBy[c]
             /\ c \in ordered => status'[c] = status[c]]_vars

(* "A judge may not change back what a manager has overturned" (judge).    *)
ReviewedStays ==
    [][\A c \in Case : reviewedBy[c] # Nobody => judgedBy'[c] = judgedBy[c]]_vars
=============================================================================
