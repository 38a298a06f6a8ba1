------------------------------- MODULE Ingest -------------------------------
(***************************************************************************)
(* How a road case comes in and gets its road (apps/api/src/case-patrol,   *)
(* queue, task, geo, behind the idempotent requests of Idempotency).       *)
(*                                                                         *)
(* addCase() looks whether the external id is known, writes the case with  *)
(* its number, status and address in one transaction, writes history, and  *)
(* queues a job that looks up the road.  A worker and a daily task fill in *)
(* roads; both look, compute, and write later.  A user may type a road.    *)
(*                                                                         *)
(* External: the database commits a transaction or nothing of it; BullMQ   *)
(* keeps one job per id, gives it to a worker at least once, to a second   *)
(* one when the first seems to have stalled, and up to Attempts times.     *)
(***************************************************************************)
EXTENDS Idempotency

CONSTANTS
    Ext,          \* EXTERNAL_ID of the cases, those of other clients included
    extOf,        \* [Request -> Ext]
    detectionOf,  \* [Ext -> time of detection, photo and number of the crack]
    Projected,    \* those whose PRJ_ID is that of the project
    Worker,       \* slots of the workers
    Daily,        \* the daily task, which runs in one process at a time
    Attempts,     \* attempts of a job
    NoRoad        \* no road has been filled in

Geocoder == Worker \cup {Daily}
Typed == "typed"

ASSUME ExtAssumption ==
    /\ IsFiniteSet(Ext) /\ Projected \subseteq Ext /\ extOf \in [Request -> Ext]
    /\ {NoRoad, Typed} \cap Ext = {} /\ NoRoad # Typed
ASSUME GeocoderAssumption ==
    Daily \notin Worker /\ Typed \notin Geocoder /\ Attempts \in Nat \ {0}

VARIABLES
    at,       \* where the handler of a request is
    counter,  \* case_sequences: the last number of the project
    number,   \* case_num of every case, 0: no such row
    road,     \* the road of every case: NoRoad, looked up, or typed
    job,      \* the queue's job of every case, with its failed attempts
    slot,     \* what every geocoder does, and for which case
    pending,  \* the cases that the round of the daily task still has to fill
    edited,   \* has the user typed a road?
    geocoded, \* how many versions of every case are GEOCODED
    overlap   \* cases written between a geocoder's look and its write

rows   == <<counter, number>>
queue  == <<job, slot, pending>>
result == <<road, edited, geocoded, overlap>>
idemButFaults == <<idem, gate, answer, tainted>>
vars == <<idemVars, at, rows, queue, result>>

Stored == {e \in Ext : number[e] # 0}
Step(r, place) == at' = [at EXCEPT ![r] = place]

Slot(step, e) == [step |-> step, of |-> e]
Resting == Slot("idle", NoRoad)

Init ==
    /\ IdemInit
    /\ at = [r \in Request |-> "check"]
    /\ counter = 0
    /\ number = [e \in Ext |-> 0]
    /\ road = [e \in Ext |-> NoRoad]
    /\ job = [e \in Ext |-> [state |-> "none", tries |-> 0]]
    /\ slot = [g \in Geocoder |-> Resting]
    /\ pending = {}
    /\ edited = FALSE
    /\ geocoded = [e \in Ext |-> 0]
    /\ overlap = {}

-----------------------------------------------------------------------------
(* addCase(): a case that is known already is answered at once. *)
Known(r) ==
    /\ gate[r] = "inside"
    /\ at[r] = "check"
    /\ extOf[r] \in Stored
    /\ Succeed(r)
    /\ UNCHANGED <<at, rows, queue, result>>

Unknown(r) ==
    /\ gate[r] = "inside"
    /\ at[r] = "check"
    /\ extOf[r] \notin Stored
    /\ Step(r, "write")
    /\ UNCHANGED <<idemVars, rows, queue, result>>

(* Its transaction.  The counter's row is locked from next() to the end,   *)
(* so these transactions run one after the other.  A case whose project is *)
(* not known takes no number, and the table has no room for a case without *)
(* (CHECK ck_patrol_case_num_present): it locks nothing and always fails.  *)
Fresh(e) == \A x \in Stored : x # e /\ detectionOf[x] # detectionOf[e]
Storable(e) == e \in Projected /\ Fresh(e)

StoreCase(e) ==
    /\ Storable(e)
    /\ counter' = counter + 1
    /\ number' = [number EXCEPT ![e] = counter + 1]

Insert(r) ==
    /\ gate[r] = "inside"
    /\ at[r] = "write"
    /\ StoreCase(extOf[r])
    /\ Step(r, "dispatch")
    /\ UNCHANGED <<idemVars, queue, result>>

(* Mutant: the number is taken outside of the transaction. *)
InsertIgnoredNumbered(r) ==
    /\ gate[r] = "inside"
    /\ at[r] = "write"
    /\ ~Storable(extOf[r]) /\ extOf[r] \in Projected
    /\ counter' = counter + 1
    /\ Fail(r)
    /\ Step(r, "check")
    /\ UNCHANGED <<faults, number, queue, result>>

(* The INSERT does nothing for a row that conflicts: with the same id the  *)
(* second status row breaks its unique key, with another id the row is not *)
(* found.  For a case without a project it fails.  Each time everything is *)
(* rolled back, the number included.                                       *)
InsertIgnored(r) ==
    /\ gate[r] = "inside"
    /\ at[r] = "write"
    /\ ~Storable(extOf[r])
    /\ Fail(r)
    /\ Step(r, "check")
    /\ UNCHANGED <<faults, rows, queue, result>>

(* After the commit: the version CREATED, then the job.  A job id that the *)
(* queue knows already adds nothing.                                       *)
Queue(r) ==
    /\ gate[r] = "inside"
    /\ at[r] = "dispatch"
    /\ job' = IF job[extOf[r]].state = "none" THEN [job EXCEPT ![extOf[r]].state = "waiting"] ELSE job
    /\ Step(r, "check")
    /\ Succeed(r)
    /\ UNCHANGED <<rows, slot, pending, result>>

(* Any statement may fail; what is committed stays. *)
HandlerFails(r) ==
    /\ gate[r] = "inside"
    /\ MayFail
    /\ Fail(r)
    /\ Step(r, "check")
    /\ UNCHANGED <<rows, queue, result>>

CrashOfServer ==
    /\ Crash
    /\ at' = [r \in Request |-> "check"]
    /\ UNCHANGED <<rows, queue, result>>

(* A request with another key and external id, perhaps for the same        *)
(* detection.  Only its transaction meets what is modelled here; its       *)
(* server stops before the job is queued.                                  *)
Neighbour(e) ==
    /\ \A r \in Request : extOf[r] # e
    /\ StoreCase(e)
    /\ UNCHANGED <<idemVars, at, queue, result>>

-----------------------------------------------------------------------------
(* Filling in a road.  Whoever has looked and not written yet is overtaken *)
(* by a write in between.                                                  *)
Looked(e) ==
    {g \in Geocoder : slot[g] = Slot("geocoding", e)}
        \cup {g \in {Daily} : e \in pending}

WriteRoad(e, value, self) ==
    /\ road' = [road EXCEPT ![e] = value]
    /\ overlap' = IF Looked(e) \ {self} # {} THEN overlap \cup {e} ELSE overlap

(* Mutant: without looking whether there is a road. *)
TakeAlways(w, e) ==
    /\ slot[w] = Resting
    /\ job[e].state = "waiting"
    /\ job' = [job EXCEPT ![e].state = "active"]
    /\ slot' = [slot EXCEPT ![w] = Slot("geocoding", e)]
    /\ UNCHANGED <<idemVars, at, rows, pending, result>>

(* process(): a job whose case has a road is done. *)
Take(w, e) ==
    /\ slot[w] = Resting
    /\ job[e].state = "waiting"
    /\ IF road[e] # NoRoad
       THEN job' = [job EXCEPT ![e].state = "done"] /\ UNCHANGED slot
       ELSE /\ job' = [job EXCEPT ![e].state = "active"]
            /\ slot' = [slot EXCEPT ![w] = Slot("geocoding", e)]
    /\ UNCHANGED <<idemVars, at, rows, pending, result>>

(* Mutant: the round only takes cases whose job has failed. *)
ScanFailed ==
    /\ pending = {}
    /\ slot[Daily] = Resting
    /\ pending' = {e \in Stored : road[e] = NoRoad /\ job[e].state = "failed"}
    /\ pending' # {}
    /\ UNCHANGED <<idemVars, at, rows, job, slot, result>>

(* addressGeocoder(): the cases without a road, all looked at once. *)
Scan ==
    /\ pending = {}
    /\ slot[Daily] = Resting
    /\ pending' = {e \in Stored : road[e] = NoRoad}
    /\ pending' # {}
    /\ UNCHANGED <<idemVars, at, rows, job, slot, result>>

NextOfRound(e) ==
    /\ slot[Daily] = Resting
    /\ e \in pending
    /\ slot' = [slot EXCEPT ![Daily] = Slot("geocoding", e)]
    /\ pending' = pending \ {e}
    /\ UNCHANGED <<idemVars, at, rows, job, result>>

(* reverseGeocode() gives the same road for the same place; nobody looks  *)
(* again before writing.                                                  *)
Geocode(g) ==
    /\ slot[g].step = "geocoding"
    /\ WriteRoad(slot[g].of, slot[g].of, g)
    /\ slot' = [slot EXCEPT ![g].step = "recording"]
    /\ UNCHANGED <<idemVars, at, rows, job, pending, edited, geocoded>>

(* The version, and the end: the job is completed by the first that ends. *)
Geocoded(g) ==
    /\ slot[g].step = "recording"
    /\ geocoded' = [geocoded EXCEPT ![slot[g].of] = @ + 1]
    /\ job' = IF g \in Worker /\ job[slot[g].of].state = "active"
              THEN [job EXCEPT ![slot[g].of].state = "done"] ELSE job
    /\ slot' = [slot EXCEPT ![g] = Resting]
    /\ UNCHANGED <<idemVars, at, rows, pending, road, edited, overlap>>

(* An attempt fails or its process ends: there is another one, or none. *)
Again(e) ==
    [state |-> IF job[e].tries + 1 < Attempts THEN "waiting" ELSE "failed",
     tries |-> job[e].tries + 1]

JobFails(w) ==
    /\ slot[w] # Resting
    /\ MayFail
    /\ job' = IF job[slot[w].of].state = "active"
              THEN [job EXCEPT ![slot[w].of] = Again(slot[w].of)] ELSE job
    /\ slot' = [slot EXCEPT ![w] = Resting]
    /\ UNCHANGED <<idemButFaults, at, rows, pending, result>>

(* The worker's lock on the job runs out, but the worker goes on. *)
Stall(e) ==
    /\ job[e].state = "active"
    /\ MayFail
    /\ job' = [job EXCEPT ![e].state = "waiting"]
    /\ UNCHANGED <<idemButFaults, at, rows, slot, pending, result>>

(* One failure ends the round; the rest waits for the next day. *)
TaskFails ==
    /\ slot[Daily] # Resting
    /\ MayFail
    /\ slot' = [slot EXCEPT ![Daily] = Resting]
    /\ pending' = {}
    /\ UNCHANGED <<idemButFaults, at, rows, job, result>>

(* updateCase() with a road; the version UPDATED follows. *)
TypeRoad(e) ==
    /\ ~edited
    /\ e \in Stored
    /\ WriteRoad(e, Typed, Typed)
    /\ edited' = TRUE
    /\ UNCHANGED <<idemVars, at, rows, queue, geocoded>>

-----------------------------------------------------------------------------
RequestStep(r) ==
    \/ GateStep(r) /\ UNCHANGED <<at, rows, queue, result>>
    \/ Known(r) \/ Unknown(r) \/ Insert(r) \/ InsertIgnored(r) \/ Queue(r)

WorkerStep(w) == (\E e \in Ext : Take(w, e)) \/ Geocode(w) \/ Geocoded(w)
TaskStep == Scan \/ (\E e \in Ext : NextOfRound(e)) \/ Geocode(Daily) \/ Geocoded(Daily)
KeyExpires(k) == Expire(k) /\ UNCHANGED <<at, rows, queue, result>>
Fault ==
    \/ CrashOfServer
    \/ \E r \in Request : HandlerFails(r)
    \/ \E w \in Worker : JobFails(w)
    \/ \E e \in Ext : Stall(e)
    \/ TaskFails

Next ==
    \/ \E r \in Request : RequestStep(r)
    \/ \E w \in Worker : WorkerStep(w)
    \/ TaskStep
    \/ \E k \in Key : KeyExpires(k)
    \/ \E e \in Ext : TypeRoad(e) \/ Neighbour(e)
    \/ Fault

(* The server runs what it has begun, clients repeat what was not answered, *)
(* keys expire, the task is started every day.  Workers need not run.       *)
Fairness ==
    /\ \A r \in Request : WF_vars(RequestStep(r))
    /\ \A k \in Key : WF_vars(KeyExpires(k))
    /\ WF_vars(TaskStep)

Spec == Init /\ [][Next]_vars /\ Fairness

-----------------------------------------------------------------------------
TypeOK ==
    /\ IdemTypeOK
    /\ at \in [Request -> {"check", "write", "dispatch"}]
    /\ counter \in 0..Cardinality(Ext)
    /\ number \in [Ext -> 0..Cardinality(Ext)]
    /\ road \in [Ext -> Ext \cup {NoRoad, Typed}]
    /\ job \in [Ext -> [state : {"none", "waiting", "active", "done", "failed"}, tries : 0..Attempts]]
    /\ slot \in [Geocoder -> {Resting} \cup [step : {"geocoding", "recording"}, of : Ext]]
    /\ pending \in SUBSET Ext
    /\ edited \in BOOLEAN
    /\ geocoded \in [Ext -> Nat]
    /\ overlap \in SUBSET Ext

(***************************************************************************)
(* The queue delivers a job at least once, and the daily task does not     *)
(* know of it.  Still a case has a second GEOCODED version only if its     *)
(* road was written while another geocoder had looked and not written.     *)
(***************************************************************************)
RepeatedJobWritesNoSecondVersion ==
    \A e \in Ext \ overlap : geocoded[e] <= 1

(***************************************************************************)
(* A case that is stored gets a road, although a crash after the commit    *)
(* may lose its job for good: a repeated request is then a duplicate and   *)
(* does not queue it.                                                      *)
(***************************************************************************)
EveryCaseGetsARoad == \A e \in Ext : e \in Stored ~> road[e] # NoRoad

(* Cases that can never be stored: those without a project, and those      *)
(* whose detection is stored under another external id.                    *)
Shut(e) == e \notin Projected \/ \E x \in Stored \ {e} : detectionOf[x] = detectionOf[e]

(***************************************************************************)
(* A client that repeats its request until it is answered is answered, or  *)
(* its case can never be stored: no key that a crash left behind, no lost  *)
(* race and no failing neighbour keeps it out for ever.                    *)
(***************************************************************************)
EveryDeviceIsAnswered == \A r \in Request : <>(gate[r] \in Served \/ Shut(extOf[r]))

(***************************************************************************)
(* docs/api.md:62-65: the unique key of time, photo and number of a        *)
(* detection is the third layer that makes repetition safe, and a          *)
(* repetition is answered with success.  Refuted: under another external   *)
(* id the row that conflicts is not found, however often it is sent.       *)
(***************************************************************************)
ResentDetectionIsAnswered ==
    \A r \in Request : extOf[r] \in Projected => <>(gate[r] \in Served)
=============================================================================
