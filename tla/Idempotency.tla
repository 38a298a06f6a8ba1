---------------------------- MODULE Idempotency ----------------------------
(***************************************************************************)
(* Idempotent requests: apps/api/src/http/guards/                          *)
(* idempotency.interceptor.ts around any handler that carries @Idempotent. *)
(*                                                                         *)
(* A request takes a key in Redis (SET NX PX).  If the key exists it looks *)
(* at it (GET): an answer that is stored there is replayed, a key that is  *)
(* in flight or belongs to another body refuses the request, and a key     *)
(* that is gone by now lets the request run without holding anything.      *)
(* When the handler has succeeded the answer is sent, and stored under the *)
(* key without being waited for; when it has failed the key is deleted,    *)
(* not waited for either.  Both are unconditional.                         *)
(*                                                                         *)
(* Redis (external): every command is atomic; SET NX may fail for the      *)
(* caller before or after it has taken effect.  A SET or DEL that nobody   *)
(* waits for and that fails is an unhandled rejection, which ends the      *)
(* process: it is part of Crash, after or instead of the command.          *)
(***************************************************************************)
EXTENDS Naturals, FiniteSets

CONSTANTS
    Request,   \* deliveries that a client repeats until they are answered
    Key,       \* keys: company, path, and the header or the hash of the body
    keyOf,     \* [Request -> Key]
    bodyOf,    \* [Request -> hashes of bodies]
    Free,      \* the key does not exist
    MaxFaults  \* bound: failures that may happen

Record == [state : {"inFlight", "done"}, by : Request]  \* with the body of by

ASSUME KeyAssumption   == keyOf \in [Request -> Key]
ASSUME FreeAssumption  == Free \notin Request \cup Record
ASSUME FaultAssumption == MaxFaults \in Nat

VARIABLES
    idem,     \* the record under every key: who wrote it, and in what state
    gate,     \* where every request is
    answer,   \* the request whose result a request was answered with
    tainted,  \* keys under which a request ran without holding the key
    faults    \* failures so far

idemVars == <<idem, gate, answer, tainted, faults>>

Body == {bodyOf[r] : r \in Request}
Executing == {"inside"}                       \* the handler runs
Held   == {"inside", "storing", "releasing"}      \* will still write the key
Busy   == Held \cup {"contended"}
Unmet  == {"refused", "failed", "broken"}         \* the client will try again
Served == {"storing", "answered", "replayed"}     \* the client has its answer

InFlight(r) == [state |-> "inFlight", by |-> r]
Done(r)     == [state |-> "done", by |-> r]

IdemInit ==
    /\ idem = [k \in Key |-> Free]
    /\ gate = [r \in Request |-> "idle"]
    /\ answer = [r \in Request |-> Free]
    /\ tainted = {}
    /\ faults = 0

Move(r, place) == gate' = [gate EXCEPT ![r] = place]
MayFail == faults < MaxFaults /\ faults' = faults + 1

-----------------------------------------------------------------------------
(* Mutant: SET without NX. *)
AcquireAnyway(r) ==
    /\ gate[r] = "idle"
    /\ idem' = [idem EXCEPT ![keyOf[r]] = InFlight(r)]
    /\ Move(r, "inside")
    /\ UNCHANGED <<answer, tainted, faults>>

(* begin(): the lock. *)
Acquire(r) ==
    /\ gate[r] = "idle"
    /\ idem[keyOf[r]] = Free
    /\ idem' = [idem EXCEPT ![keyOf[r]] = InFlight(r)]
    /\ Move(r, "inside")
    /\ UNCHANGED <<answer, tainted, faults>>

Contend(r) ==
    /\ gate[r] = "idle"
    /\ idem[keyOf[r]] # Free
    /\ Move(r, "contended")
    /\ UNCHANGED <<idem, answer, tainted, faults>>

(* The SET fails, or it is sent again by the driver and finds itself. *)
AcquireFails(r) ==
    /\ gate[r] = "idle"
    /\ MayFail
    /\ \/ /\ Move(r, "broken")
          /\ UNCHANGED idem
       \/ /\ idem[keyOf[r]] = Free
          /\ idem' = [idem EXCEPT ![keyOf[r]] = InFlight(r)]
          /\ \E place \in {"broken", "contended"} : Move(r, place)
    /\ UNCHANGED <<answer, tainted>>

(* begin(): the GET after a lock that was not free. *)
Unlocked(r) ==
    /\ gate[r] = "contended"
    /\ idem[keyOf[r]] = Free
    /\ Move(r, "inside")
    /\ tainted' = tainted \cup {keyOf[r]}
    /\ UNCHANGED <<idem, answer, faults>>

(* Does the record hold an answer to this very request? *)
Replayable(r) ==
    /\ idem[keyOf[r]].state = "done"
    /\ bodyOf[idem[keyOf[r]].by] = bodyOf[r]

Replay(r) ==
    /\ gate[r] = "contended"
    /\ idem[keyOf[r]] # Free
    /\ Replayable(r)
    /\ Move(r, "replayed")
    /\ answer' = [answer EXCEPT ![r] = idem[keyOf[r]].by]
    /\ UNCHANGED <<idem, tainted, faults>>

Refuse(r) ==
    /\ gate[r] = "contended"
    /\ idem[keyOf[r]] # Free
    /\ ~Replayable(r)
    /\ Move(r, "refused")
    /\ UNCHANGED <<idem, answer, tainted, faults>>

(* The handler has ended; what it does is up to the module that composes. *)
Succeed(r) ==
    /\ gate[r] = "inside"
    /\ Move(r, "storing")
    /\ answer' = [answer EXCEPT ![r] = r]
    /\ UNCHANGED <<idem, tainted, faults>>

Fail(r) ==
    /\ gate[r] = "inside"
    /\ Move(r, "releasing")
    /\ UNCHANGED <<idem, answer, tainted>>

(* finish() and the DEL of a failed request. *)
Store(r) ==
    /\ gate[r] = "storing"
    /\ idem' = [idem EXCEPT ![keyOf[r]] = Done(r)]
    /\ Move(r, "answered")
    /\ UNCHANGED <<answer, tainted, faults>>

Release(r) ==
    /\ gate[r] = "releasing"
    /\ idem' = [idem EXCEPT ![keyOf[r]] = Free]
    /\ Move(r, "failed")
    /\ UNCHANGED <<answer, tainted, faults>>

(* Mutant: a record in flight is written without a TTL. *)
ExpireDone(k) ==
    /\ idem[k] # Free
    /\ idem[k].state = "done"
    /\ idem' = [idem EXCEPT ![k] = Free]
    /\ UNCHANGED <<gate, answer, tainted, faults>>

(* The TTL: normally long after the request, but nothing makes sure.  *)
(* A key that expires while its request will still write it is lost.  *)
Expire(k) ==
    /\ idem[k] # Free
    /\ idem' = [idem EXCEPT ![k] = Free]
    /\ tainted' = IF \E r \in Request : keyOf[r] = k /\ gate[r] \in Held
                  THEN tainted \cup {k} ELSE tainted
    /\ UNCHANGED <<gate, answer, faults>>

(* The process ends and is started again: connections break, keys stay. *)
Crash ==
    /\ MayFail
    /\ gate' = [r \in Request |->
                   IF gate[r] = "storing" THEN "answered"
                   ELSE IF gate[r] \in Busy THEN "broken" ELSE gate[r]]
    /\ UNCHANGED <<idem, answer, tainted>>

(* The client: everything but an answer makes it send the request again. *)
Retry(r) ==
    /\ gate[r] \in Unmet
    /\ Move(r, "idle")
    /\ UNCHANGED <<idem, answer, tainted, faults>>

-----------------------------------------------------------------------------
GateStep(r) ==
    \/ Acquire(r) \/ Contend(r) \/ AcquireFails(r) \/ Unlocked(r) \/ Replay(r)
    \/ Refuse(r) \/ Store(r) \/ Release(r) \/ Retry(r)

(* The interceptor around any handler, and failures of something else. *)
IdemNext ==
    \/ \E r \in Request : GateStep(r) \/ Succeed(r) \/ (Fail(r) /\ (UNCHANGED faults \/ MayFail))
    \/ \E k \in Key : Expire(k)
    \/ Crash
    \/ MayFail /\ UNCHANGED <<idem, gate, answer, tainted>>

IdemSpec == IdemInit /\ [][IdemNext]_idemVars

-----------------------------------------------------------------------------
IdemTypeOK ==
    /\ idem \in [Key -> {Free} \cup Record]
    /\ gate \in [Request -> {"idle"} \cup Busy \cup Unmet \cup Served]
    /\ answer \in [Request -> Request \cup {Free}]
    /\ tainted \in SUBSET Key
    /\ faults \in 0..MaxFaults

(***************************************************************************)
(* The lock: under one key at most one request is executed at a time,      *)
(* unless a request found the key gone between its SET and its GET, or the *)
(* key expired under a request.  Deleting and storing are unconditional,   *)
(* so this also says that nobody deletes a key of somebody else.           *)
(***************************************************************************)
OneAtATime ==
    \A r, q \in Request :
        /\ keyOf[r] = keyOf[q]
        /\ keyOf[r] \notin tainted
        /\ gate[r] \in Executing
        /\ gate[q] \in Executing
        => r = q

(***************************************************************************)
(* A request is answered with its own result or replays that of another    *)
(* request with the same body, which had succeeded itself.                 *)
(***************************************************************************)
AnswersFit ==
    \A r \in Request :
        answer[r] # Free => /\ bodyOf[answer[r]] = bodyOf[r]
                            /\ answer[answer[r]] = answer[r]
                            /\ gate[answer[r]] \in Served
                            /\ gate[r] \in Served
=============================================================================
