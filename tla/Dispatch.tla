------------------------------ MODULE Dispatch ------------------------------
(***************************************************************************)
(* Dispatching: work orders, the cases and inspections they come from, and *)
(* the part of the version history that status changes read and write      *)
(* (apps/api/src/work-order, maintenance, case-patrol, case-history).      *)
(*                                                                         *)
(* A client of the model is one HTTP request at a time.  A handler that    *)
(* reads rows, decides, and then writes in a transaction is two steps; the *)
(* history is written after the transaction in a third one, except by the  *)
(* inspections' endpoint.  With one client the handlers run one after the  *)
(* other, with several they overlap.                                       *)
(*                                                                         *)
(* The history of an entity is the sequence of the statuses in its         *)
(* snapshots; CaseHistory models how version numbers are given.            *)
(***************************************************************************)
EXTENDS Integers, Sequences, FiniteSets, FiniteSetsExt

CONSTANTS
    Client,        \* requests that may be under way at the same time
    Order,         \* work order ids
    Case,          \* road cases that were found (type PC)
    Maint,         \* inspection orders (type PD)
    Worker,        \* users that can be assigned
    NoSource,      \* an order id that is not in use yet
    Lookback,      \* versions that a restore looks at
    LossyHistory,  \* TRUE: writing history may fail, which is only logged
    MaxVersions    \* [Entity -> Nat]: bound, no request starts on an entity with as many

Source == Case \cup Maint
Entity == Order \cup Source

ASSUME SourceAssumption   == Case \cap Maint = {} /\ Order \cap Source = {} /\ NoSource \notin Source
ASSUME HistoryAssumption  == Lookback \in Nat /\ MaxVersions \in [Entity -> Nat] /\ LossyHistory \in BOOLEAN

Deleted  == -1
Pending  == 0
Working  == 1
Reported == 2     \* ORDER_LOCKED_FROM
Finished == 3
Restore  == 8     \* action codes of the status endpoints
Withdraw == 9

Unconfirmed == 0  \* statuses of a source: MAINTENANCE_STATUS, need_repair
Watching    == 1
Dispatched  == 2

OrderStatus  == Deleted..Finished
SourceStatus == Deleted..Dispatched

VARIABLES
    source,     \* the source of every order; NoSource: no such row
    status,     \* work_order_status.status
    workers,    \* work_order_users
    photos,     \* does the order have every photo of REQUIRED_IMAGES?
    srcStatus,  \* maintenance_status.status, patrol_case_status.need_repair
    trail,      \* statuses in the versions of every entity, oldest first
    job,        \* what every client's request still has to do
    exposed     \* inspections that a live order may have lost: see Dispatches, Revives

rows == <<source, status, workers, photos, srcStatus>>
vars == <<source, status, workers, photos, srcStatus, trail, job, exposed>>

Rows == {o \in Order : source[o] # NoSource}
OrdersOf(s) == {o \in Order : source[o] = s}
Room(e) == Len(trail[e]) < MaxVersions[e]

(* The status that an order has by its crew alone. *)
WorkerStatus(o) == IF workers[o] # {} THEN Working ELSE Pending

(* getPreviousDifferentValue(): the newest of the last versions that does  *)
(* not say "deleted", or nothing.                                          *)
LiveVersions(e) == {i \in DOMAIN trail[e] :
                        i > Len(trail[e]) - Lookback /\ trail[e][i] # Deleted}
PreviousOr(e, default) ==
    IF LiveVersions(e) = {} THEN default ELSE trail[e][Max(LiveVersions(e))]

NoJob == [at |-> "none"]  \* a client without a request

(* What a handler writes to the history at its end: "fixed" statuses, and  *)
(* orders whose row is read again for the snapshot.                        *)
ToRecord(fixed, reread) == [at |-> "record", fixed |-> fixed, reread |-> reread]

Log(e, s) == [x \in {e} |-> s]
NoLog == [x \in {} |-> Pending]

Init ==
    /\ source = [o \in Order |-> NoSource]
    /\ status = [o \in Order |-> Pending]
    /\ workers = [o \in Order |-> {}]
    /\ photos = [o \in Order |-> FALSE]
    /\ srcStatus = [s \in Source |-> Unconfirmed]
    /\ trail = [e \in Entity |-> IF e \in Source THEN <<Unconfirmed>> ELSE <<>>]
    /\ job = [c \in Client |-> NoJob]
    /\ exposed = {}

-----------------------------------------------------------------------------
(* The end of a handler: its versions are written.  A failure is logged    *)
(* and swallowed, so a version can be missing.                             *)
Written(entities) == IF LossyHistory THEN SUBSET entities ELSE {entities}
Extended(versions) ==
    [e \in Entity |-> IF e \in DOMAIN versions THEN Append(trail[e], versions[e]) ELSE trail[e]]

Record(c) ==
    /\ job[c].at = "record"
    /\ LET fixed == job[c].fixed
       IN \E kept \in Written(DOMAIN fixed \cup job[c].reread) :
             trail' = Extended([e \in kept |->
                          IF e \in DOMAIN fixed THEN fixed[e] ELSE status[e]])
    /\ job' = [job EXCEPT ![c] = NoJob]
    /\ UNCHANGED <<rows, exposed>>

(* WorkOrder.create(): the source must be usable and have no order. *)
Dispatchable(s) == srcStatus[s] # Deleted /\ OrdersOf(s) = {}

CreateCheck(c, s, crew) ==
    /\ job[c] = NoJob
    /\ Room(s)
    /\ Dispatchable(s)
    /\ job' = [job EXCEPT ![c] = [at |-> "create", source |-> s, workers |-> crew]]
    /\ UNCHANGED <<rows, trail, exposed>>

(* A request to delete the inspection has seen no order that is alive.     *)
Deleting(s) ==
    \E c \in Client : job[c].at = "maint" /\ job[c].maint = s /\ job[c].to = Deleted

(* An order of s is made or restored, which brings s back, for good unless *)
(* its deletion is under way; any other way to bring an order back to life *)
(* does not look at its inspection.                                        *)
Dispatches(s) == exposed' = IF Deleting(s) THEN exposed \cup {s} ELSE exposed \ {s}
Revives(o, to) ==
    exposed' = exposed \cup {m \in {source[o]} \cap Maint : status[o] = Deleted /\ to # Deleted}

(* Its transaction; the unique key on the source decides. *)
CreateWrite(c, o) ==
    /\ job[c].at = "create"
    /\ o \notin Rows
    /\ LET s == job[c].source
           crew == job[c].workers
       IN /\ OrdersOf(s) = {}
          /\ source' = [source EXCEPT ![o] = s]
          /\ status' = [status EXCEPT ![o] = IF crew # {} THEN Working ELSE Pending]
          /\ workers' = [workers EXCEPT ![o] = crew]
          /\ srcStatus' = [srcStatus EXCEPT ![s] = Dispatched]
          /\ Dispatches(s)
          /\ job' = [job EXCEPT ![c] =
                ToRecord(IF s \in Maint THEN Log(s, Dispatched) ELSE NoLog, {o})]
    /\ UNCHANGED <<photos, trail>>

CreateRefused(c) ==
    /\ job[c].at = "create"
    /\ OrdersOf(job[c].source) # {}
    /\ job' = [job EXCEPT ![c] = NoJob]
    /\ UNCHANGED <<rows, trail, exposed>>

(* WorkOrder.update(): finished and deleted orders are refused.  "crew" is *)
(* empty when the request does not mention workers, else it holds the set  *)
(* that replaces them.                                                     *)
UpdateCheck(c, o, crew) ==
    /\ job[c] = NoJob
    /\ o \in Rows /\ Room(o)
    /\ status[o] \notin {Finished, Deleted}
    /\ job' = [job EXCEPT ![c] = [at |-> "update", order |-> o, crew |-> crew,
                                  status |-> status[o], workers |-> workers[o]]]
    /\ UNCHANGED <<rows, trail, exposed>>

(* Mutant: the snapshot is the one read before the transaction. *)
UpdateWriteOldSnapshot(c) ==
    /\ job[c].at = "update"
    /\ LET o == job[c].order
           crew == UNION job[c].crew
       IN /\ workers' = [workers EXCEPT ![o] = IF job[c].crew # {} THEN crew ELSE @]
          /\ status' = [status EXCEPT ![o] =
                IF crew # {} /\ job[c].status = Pending THEN Working ELSE @]
          /\ job' = [job EXCEPT ![c] = ToRecord(Log(o, job[c].status), {})]
    /\ UNCHANGED <<source, photos, srcStatus, trail, exposed>>

(* Differences are taken to the crew that was read; a worker that somebody *)
(* else has added in the meantime violates the unique key.                 *)
UpdateWrite(c) ==
    /\ job[c].at = "update"
    /\ LET o == job[c].order
           crew == UNION job[c].crew
           given == job[c].crew # {}
           add == IF given THEN crew \ job[c].workers ELSE {}
           remove == IF given THEN job[c].workers \ crew ELSE {}
           to == IF crew # {} /\ job[c].status = Pending THEN Working ELSE status[o]
       IN IF add \cap workers[o] # {}
          THEN /\ job' = [job EXCEPT ![c] = NoJob]
               /\ UNCHANGED <<status, workers, exposed>>
          ELSE /\ workers' = [workers EXCEPT ![o] = (@ \ remove) \cup add]
               /\ status' = [status EXCEPT ![o] = to]
               /\ Revives(o, to)
               /\ job' = [job EXCEPT ![c] = ToRecord(NoLog, {o})]
    /\ UNCHANGED <<source, photos, srcStatus, trail>>

-----------------------------------------------------------------------------
(* WorkOrder.updateStatus().                                               *)

(* Mutants: the lock starts one status late; photos are not looked at. *)
DeleteToReported(o) == {s \in {Deleted} : status[o] <= Reported}
SetToUnchecked(o, s) == {s}

(* Statuses that a request resolves to; none when it is refused. *)
DeleteTo(o)   == {s \in {Deleted} : status[o] < Reported}
WithdrawTo(o) == IF status[o] <= Pending THEN {}
                 ELSE {IF status[o] - 1 > Working THEN status[o] - 1 ELSE WorkerStatus(o)}
RestoreTo(o)  == IF status[o] # Deleted THEN {}
                 ELSE {Max({WorkerStatus(o), PreviousOr(o, Deleted)})}
SetTo(o, s)   == {r \in {s} : s = Finished => photos[o]}

(* Mutant: action codes are taken for statuses. *)
ResolveAsIs(o, request) ==
    IF request = Deleted THEN DeleteTo(o) ELSE SetTo(o, request)

Resolve(o, request) ==
    CASE request = Deleted  -> DeleteTo(o)
      [] request = Withdraw -> WithdrawTo(o)
      [] request = Restore  -> RestoreTo(o)
      [] OTHER              -> SetTo(o, request)

StatusCheck(c, o, request) ==
    /\ job[c] = NoJob
    /\ o \in Rows /\ Room(o) /\ Room(source[o])
    /\ \E s \in Resolve(o, request) :
          job' = [job EXCEPT ![c] = [at |-> "status", order |-> o, to |-> s,
                                     restore |-> request = Restore]]
    /\ UNCHANGED <<rows, trail, exposed>>

(* releaseSource(): a case is released by every return to pending, an      *)
(* inspection only by the deletion of its order.                           *)
Released(s, to) ==
    IF to = Deleted \/ (to = Pending /\ s \in Case) THEN Watching ELSE srcStatus[s]

(* Mutant: a source that is deleted stays so. *)
RestoredNothing(s, old) == old

(* restoreSource(): only a deleted source is brought back. *)
Restored(s, old) == IF old = Deleted THEN Dispatched ELSE old

StatusWrite(c) ==
    /\ job[c].at = "status"
    /\ LET o == job[c].order
           s == source[o]
           to == job[c].to
           released == Released(s, to)
       IN /\ status' = [status EXCEPT ![o] = to]
          /\ srcStatus' = [srcStatus EXCEPT ![s] =
                IF job[c].restore THEN Restored(s, released) ELSE released]
          /\ IF job[c].restore THEN Dispatches(s) ELSE Revives(o, to)
          /\ job' = [job EXCEPT ![c] = ToRecord(
                [e \in {o} \cup {m \in {s} \cap Maint : to = Deleted \/ job[c].restore} |->
                    IF e = o THEN to
                    ELSE IF to = Deleted THEN Watching ELSE Dispatched], {})]
    /\ UNCHANGED <<source, workers, photos, trail>>

(* uploadImages(), which adds and removes photos, and deleteImage():       *)
(* neither looks at the status; only the first leaves a version.           *)
UploadImages(c, o, complete) ==
    /\ job[c] = NoJob
    /\ o \in Rows /\ Room(o)
    /\ photos' = [photos EXCEPT ![o] = complete]
    /\ trail' = [trail EXCEPT ![o] = Append(@, status[o])]
    /\ UNCHANGED <<source, status, workers, srcStatus, job, exposed>>

DeleteImage(c, o) ==
    /\ job[c] = NoJob
    /\ photos[o]
    /\ photos' = [photos EXCEPT ![o] = FALSE]
    /\ UNCHANGED <<source, status, workers, srcStatus, trail, job, exposed>>

-----------------------------------------------------------------------------
(* Maintenance.updateStatus(): what one row of the batch is set to.        *)

MaintDeleteTo(m) ==
    {s \in {Deleted} : srcStatus[m] # Deleted /\ \A o \in OrdersOf(m) : status[o] = Deleted}
MaintResolve(m, request) ==
    CASE request = Deleted -> MaintDeleteTo(m)
      [] request = Restore -> {s \in {PreviousOr(m, Unconfirmed)} : srcStatus[m] = Deleted}
      [] OTHER             -> {s \in {request} : srcStatus[m] # Deleted}

MaintCheck(c, m, request) ==
    /\ job[c] = NoJob
    /\ Room(m)
    /\ \E s \in MaintResolve(m, request) :
          job' = [job EXCEPT ![c] = [at |-> "maint", maint |-> m, to |-> s]]
    /\ UNCHANGED <<rows, trail, exposed>>

(* The row was read without a lock in the same transaction.  The version   *)
(* is written while the transaction holds the lock of the updated row.     *)
MaintWrite(c) ==
    /\ job[c].at = "maint"
    /\ srcStatus' = [srcStatus EXCEPT ![job[c].maint] = job[c].to]
    /\ \E kept \in Written({job[c].maint}) :
          trail' = Extended([m \in kept |-> job[c].to])
    /\ job' = [job EXCEPT ![c] = NoJob]
    /\ UNCHANGED <<source, status, workers, photos, exposed>>

(* CasePatrol.updateStatus() and batchUpdateStatus(): no guard at all. *)
SetNeedRepair(c, k, s) ==
    /\ job[c] = NoJob
    /\ Room(k)
    /\ srcStatus' = [srcStatus EXCEPT ![k] = s]
    /\ trail' = [trail EXCEPT ![k] = Append(@, s)]
    /\ UNCHANGED <<source, status, workers, photos, job, exposed>>

(* CaseHistory.restore(): the status of the version is written back as it  *)
(* is, and the source or the order of the row is left alone.               *)
RestoreVersion(c, e, s) ==
    /\ job[c] = NoJob
    /\ Room(e)
    /\ \E i \in DOMAIN trail[e] : trail[e][i] = s
    /\ IF e \in Order
       THEN /\ status' = [status EXCEPT ![e] = s]
            /\ Revives(e, s)
            /\ UNCHANGED srcStatus
       ELSE /\ srcStatus' = [srcStatus EXCEPT ![e] = s]
            /\ exposed' = IF s = Deleted THEN exposed \cup ({e} \cap Maint) ELSE exposed
            /\ UNCHANGED status
    /\ trail' = [trail EXCEPT ![e] = Append(@, s)]
    /\ UNCHANGED <<source, workers, photos, job>>

OrderRequests == OrderStatus \cup {Restore, Withdraw}
MaintRequests == SourceStatus \cup {Restore}
Crews == {{}} \cup {{crew} : crew \in SUBSET Worker}

ClientNext(c) ==
    \/ Record(c)
    \/ \E s \in Source, crew \in SUBSET Worker : CreateCheck(c, s, crew)
    \/ \E o \in Order : CreateWrite(c, o)
    \/ CreateRefused(c)
    \/ \E o \in Order, crew \in Crews : UpdateCheck(c, o, crew)
    \/ UpdateWrite(c)
    \/ \E o \in Order, request \in OrderRequests : StatusCheck(c, o, request)
    \/ StatusWrite(c)
    \/ \E m \in Maint, request \in MaintRequests : MaintCheck(c, m, request)
    \/ MaintWrite(c)
    \/ \E o \in Order, complete \in BOOLEAN : UploadImages(c, o, complete)
    \/ \E o \in Order : DeleteImage(c, o)
    \/ \E k \in Case, s \in SourceStatus : SetNeedRepair(c, k, s)

VersionRestored == \E c \in Client, e \in Entity, s \in OrderStatus : RestoreVersion(c, e, s)

Next == (\E c \in Client : ClientNext(c)) \/ VersionRestored

Spec == Init /\ [][Next]_vars

-----------------------------------------------------------------------------
Jobs ==
    {NoJob}
    \cup [at : {"create"}, source : Source, workers : SUBSET Worker]
    \cup [at : {"update"}, order : Order, crew : Crews, status : OrderStatus,
          workers : SUBSET Worker]
    \cup [at : {"status"}, order : Order, to : OrderStatus, restore : BOOLEAN]
    \cup [at : {"maint"}, maint : Maint, to : SourceStatus]
    \cup [at : {"record"}, reread : SUBSET Order,
          fixed : UNION {[d -> OrderStatus] : d \in SUBSET Entity}]

(* Action codes (8, 9) are never stored, and an inspection or a case only  *)
(* has the statuses of its own kind.                                       *)
TypeOK ==
    /\ source \in [Order -> Source \cup {NoSource}]
    /\ status \in [Order -> OrderStatus]
    /\ workers \in [Order -> SUBSET Worker]
    /\ photos \in [Order -> BOOLEAN]
    /\ srcStatus \in [Source -> SourceStatus]
    /\ trail \in [Entity -> Seq(OrderStatus)]
    /\ job \in [Client -> Jobs]
    /\ exposed \in SUBSET Maint

Quiet == \A c \in Client : job[c] = NoJob
IsLive(o) == o \in Rows /\ status[o] # Deleted

(* Between requests, the newest version of an order shows the status of    *)
(* its row: nothing that changes a status forgets the history, or writes   *)
(* something else there (architecture.md:105 rests on it).                 *)
OrderTrailIsCurrent ==
    Quiet => \A o \in Rows : trail[o] # <<>> /\ trail[o][Len(trail[o])] = status[o]

(* An order that was reported or finished is not deleted by its endpoints  *)
(* before it has been withdrawn (architecture.md:106); only a version      *)
(* restore can do that.                                                    *)
LockedOrderNotDeleted ==
    [][\A o \in Order : status[o] >= Reported /\ status'[o] = Deleted
          => VersionRestored]_vars

(* No order becomes finished for the first time without its photos, by     *)
(* whatever path it got there (updateStatus, line 363).                    *)
FirstFinishHasPhotos ==
    [][\A o \in Order : status[o] # Finished /\ status'[o] = Finished
          => photos[o] \/ \E i \in DOMAIN trail[o] : trail[o][i] = Finished]_vars

(* An order that is alive has an inspection that is not deleted            *)
(* (architecture.md:113), however creations, deletions and restores of     *)
(* both overlap.  The exceptions are named by "exposed": an order made or  *)
(* restored in the moment between the look and the write of a deletion of  *)
(* its inspection, and what neither endpoint guards, a deleted order that  *)
(* comes back other than by "restore", and restored versions.              *)
LiveOrderHasInspection ==
    \A o \in Rows : IsLive(o) /\ source[o] \in Maint \ exposed => srcStatus[source[o]] # Deleted

(* An inspection cannot be deleted while its order is alive                *)
(* (architecture.md:113).  Refuted when an order is created between the    *)
(* look and the write of softDelete().                                     *)
LiveOrderKeepsInspection ==
    [][\A m \in Maint : srcStatus[m] # Deleted /\ srcStatus'[m] = Deleted
          => VersionRestored \/ \A o \in OrdersOf(m) : ~ IsLive(o)]_vars

(* "A finished (deleted) order cannot be changed" (work-order.service.ts,  *)
(* 241-242).  Refuted when the order is finished or deleted between the    *)
(* look and the write of update().                                         *)
ClosedCrewIsFrozen ==
    [][\A o \in Rows : status[o] \in {Finished, Deleted} => workers'[o] = workers[o]]_vars

(* With people on it an order is being worked on, without anybody it is    *)
(* pending: "a system invariant" (architecture.md:108).                    *)
CrewDecidesStatus ==
    \A o \in Rows : status[o] \in {Pending, Working} => status[o] = WorkerStatus(o)

(* A restored order leaves its source "dispatched": it is alive, so the    *)
(* source cannot be waiting for dispatch (restoreSource, lines 530-531).   *)
RestoredOrderDispatchesSource ==
    [][\A c \in Client : job[c].at = "status" /\ job'[c] # job[c] =>
          (job[c].restore => srcStatus'[source[job[c].order]] = Dispatched)]_vars

(* The source of a deleted order, put back to "watching", can be           *)
(* dispatched again (releaseSource, line 499).                             *)
DeletedOrderFreesSource ==
    Quiet => \A o \in Rows :
        status[o] = Deleted /\ srcStatus[source[o]] = Watching => Dispatchable(source[o])
=============================================================================
