---------------------------- MODULE IngestProofs ----------------------------
(***************************************************************************)
(* What the interceptor promises around any handler, for every number of   *)
(* requests and keys; and that addCase() is such a handler: every step of  *)
(* Ingest is a step of Idempotency or leaves its variables alone.          *)
(*                                                                         *)
(* And what addCase(), the queue, its workers and the daily task promise   *)
(* for every number of cases, workers and failures: numbers without holes, *)
(* which implement NumberLedger, and one version of a road.                *)
(***************************************************************************)
EXTENDS Ingest, Sequences, TLAPS, FiniteSetTheorems


(* A request that will still write its key owns it, as long as nobody has  *)
(* run under the key without it.                                           *)
OwnsKey(r) ==
    keyOf[r] \notin tainted /\ gate[r] \in Held => idem[keyOf[r]] = InFlight(r)

(* What is stored under a key is the result of a request that succeeded. *)
StoredFits(k) ==
    idem[k] # Free /\ idem[k].state = "done"
        => gate[idem[k].by] \in Served /\ answer[idem[k].by] = idem[k].by

AnswerFits(r) ==
    answer[r] # Free =>
        /\ bodyOf[answer[r]] = bodyOf[r]
        /\ answer[answer[r]] = answer[r]
        /\ gate[answer[r]] \in Served
        /\ gate[r] \in Served

StoringOwn(r) == gate[r] = "storing" => answer[r] = r

IInv ==
    /\ IdemTypeOK
    /\ \A r \in Request : OwnsKey(r)
    /\ \A k \in Key : StoredFits(k)
    /\ \A r \in Request : AnswerFits(r)
    /\ \A r \in Request : StoringOwn(r)

(* A failing handler, with or without a failure that is counted. *)
FailStep(r) == Fail(r) /\ (UNCHANGED faults \/ MayFail)

(* A failure outside of the interceptor. *)
Elsewhere == MayFail /\ UNCHANGED <<idem, gate, answer, tainted>>

(* A record of a request is a record, so it is not the missing key. *)
LEMMA InFlightIsRecord ==
    ASSUME NEW q \in Request
    PROVE  InFlight(q) \in Record /\ InFlight(q) # Free /\ InFlight(q).by = q /\ InFlight(q).state = "inFlight"
  BY FreeAssumption DEF InFlight, Record

(* Two requests that own one record are the same request. *)
LEMMA OneOwner ==
    ASSUME NEW r \in Request, NEW q \in Request, InFlight(r) = InFlight(q)
    PROVE  r = q
  BY InFlightIsRecord

(* The invariant holds before the first request. *)
LEMMA IInvInit == IdemInit => IInv
  BY KeyAssumption, FreeAssumption, FaultAssumption
  DEF IdemInit, IInv, IdemTypeOK, OwnsKey, StoredFits, AnswerFits, StoringOwn, Held

(* A request that finds no record takes the key (SET NX). *)
LEMMA AcquireKeepsIInv ==
    ASSUME IInv, NEW r \in Request, Acquire(r)
    PROVE  IInv'
<1> USE KeyAssumption, FreeAssumption, FaultAssumption DEF IInv, Record
<1>1. IdemTypeOK'
  BY DEF Acquire, Move, MayFail, IdemTypeOK, InFlight, Done, Held, Busy, Unmet, Served
<1>2. \A q \in Request : OwnsKey(q)'
  <2> SUFFICES ASSUME NEW q \in Request, keyOf[q] \notin tainted', gate'[q] \in Held
               PROVE  idem'[keyOf[q]] = InFlight(q)
    BY DEF OwnsKey
  <2>1. CASE q = r
    BY <2>1 DEF Acquire, IdemTypeOK
  <2>2. CASE q # r
    <3>1. idem[keyOf[q]] = InFlight(q)
      BY <2>2 DEF Acquire, Move, IdemTypeOK, OwnsKey
    <3>2. keyOf[q] # keyOf[r]
      BY <3>1, InFlightIsRecord DEF Acquire
    <3>3. QED
      BY <3>1, <3>2 DEF Acquire, IdemTypeOK
  <2>3. QED
    BY <2>1, <2>2
<1>3. \A j \in Key : StoredFits(j)'
  BY DEF Acquire, Move, MayFail, IdemTypeOK, StoredFits, StoringOwn, InFlight, Done, Held, Busy, Unmet, Served
<1>4. \A q \in Request : AnswerFits(q)'
  BY DEF Acquire, Move, MayFail, IdemTypeOK, AnswerFits, StoredFits, Held, Busy, Unmet, Served
<1>5. \A q \in Request : StoringOwn(q)'
  BY DEF Acquire, Move, MayFail, IdemTypeOK, StoringOwn, Held, Busy, Unmet, Served
<1>6. QED
  BY <1>1, <1>2, <1>3, <1>4, <1>5

(* A request that finds a record goes on to look at it. *)
LEMMA ContendKeepsIInv ==
    ASSUME IInv, NEW r \in Request, Contend(r)
    PROVE  IInv'
<1> USE KeyAssumption, FreeAssumption, FaultAssumption DEF IInv, Record
<1>1. IdemTypeOK'
  BY DEF Contend, Move, MayFail, IdemTypeOK, InFlight, Done, Held, Busy, Unmet, Served
<1>2. \A q \in Request : OwnsKey(q)'
  BY DEF Contend, Move, MayFail, IdemTypeOK, OwnsKey, InFlight, Done, Held, Busy, Unmet, Served
<1>3. \A j \in Key : StoredFits(j)'
  BY DEF Contend, Move, MayFail, IdemTypeOK, StoredFits, StoringOwn, InFlight, Done, Held, Busy, Unmet, Served
<1>4. \A q \in Request : AnswerFits(q)'
  BY DEF Contend, Move, MayFail, IdemTypeOK, AnswerFits, StoredFits, Held, Busy, Unmet, Served
<1>5. \A q \in Request : StoringOwn(q)'
  BY DEF Contend, Move, MayFail, IdemTypeOK, StoringOwn, Held, Busy, Unmet, Served
<1>6. QED
  BY <1>1, <1>2, <1>3, <1>4, <1>5

(* The SET of the lock fails, before or after its effect. *)
LEMMA AcquireFailsKeepsIInv ==
    ASSUME IInv, NEW r \in Request, AcquireFails(r)
    PROVE  IInv'
<1> USE KeyAssumption, FreeAssumption, FaultAssumption DEF IInv, Record
<1>1. IdemTypeOK'
  BY DEF AcquireFails, Move, MayFail, IdemTypeOK, InFlight, Done, Held, Busy, Unmet, Served
<1>2. \A q \in Request : OwnsKey(q)'
  BY DEF AcquireFails, Move, MayFail, IdemTypeOK, OwnsKey, InFlight, Done, Held, Busy, Unmet, Served
<1>3. \A j \in Key : StoredFits(j)'
  BY DEF AcquireFails, Move, MayFail, IdemTypeOK, StoredFits, StoringOwn, InFlight, Done, Held, Busy, Unmet, Served
<1>4. \A q \in Request : AnswerFits(q)'
  BY DEF AcquireFails, Move, MayFail, IdemTypeOK, AnswerFits, StoredFits, Held, Busy, Unmet, Served
<1>5. \A q \in Request : StoringOwn(q)'
  BY DEF AcquireFails, Move, MayFail, IdemTypeOK, StoringOwn, Held, Busy, Unmet, Served
<1>6. QED
  BY <1>1, <1>2, <1>3, <1>4, <1>5

(* A request that finds the key gone runs without it; the key is tainted. *)
LEMMA UnlockedKeepsIInv ==
    ASSUME IInv, NEW r \in Request, Unlocked(r)
    PROVE  IInv'
<1> USE KeyAssumption, FreeAssumption, FaultAssumption DEF IInv, Record
<1>1. IdemTypeOK'
  BY DEF Unlocked, Move, MayFail, IdemTypeOK, InFlight, Done, Held, Busy, Unmet, Served
<1>2. \A q \in Request : OwnsKey(q)'
  BY DEF Unlocked, Move, MayFail, IdemTypeOK, OwnsKey, InFlight, Done, Held, Busy, Unmet, Served
<1>3. \A j \in Key : StoredFits(j)'
  BY DEF Unlocked, Move, MayFail, IdemTypeOK, StoredFits, StoringOwn, InFlight, Done, Held, Busy, Unmet, Served
<1>4. \A q \in Request : AnswerFits(q)'
  BY DEF Unlocked, Move, MayFail, IdemTypeOK, AnswerFits, StoredFits, Held, Busy, Unmet, Served
<1>5. \A q \in Request : StoringOwn(q)'
  BY DEF Unlocked, Move, MayFail, IdemTypeOK, StoringOwn, Held, Busy, Unmet, Served
<1>6. QED
  BY <1>1, <1>2, <1>3, <1>4, <1>5

(* A stored answer to the same body is replayed. *)
LEMMA ReplayKeepsIInv ==
    ASSUME IInv, NEW r \in Request, Replay(r)
    PROVE  IInv'
<1> USE KeyAssumption, FreeAssumption, FaultAssumption DEF IInv, Record
<1>1. IdemTypeOK'
  BY DEF Replay, Move, MayFail, Replayable, IdemTypeOK, InFlight, Done, Held, Busy, Unmet, Served
<1>2. \A q \in Request : OwnsKey(q)'
  BY DEF Replay, Move, MayFail, Replayable, IdemTypeOK, OwnsKey, InFlight, Done, Held, Busy, Unmet, Served
<1>3. \A j \in Key : StoredFits(j)'
  BY DEF Replay, Move, MayFail, Replayable, IdemTypeOK, StoredFits, StoringOwn, InFlight, Done, Held, Busy, Unmet, Served
<1>4. \A q \in Request : AnswerFits(q)'
  <2> DEFINE x == idem[keyOf[r]].by
  <2>1. /\ x \in Request /\ x # r /\ bodyOf[x] = bodyOf[r]
        /\ gate[x] \in Served /\ answer[x] = x
    BY DEF Replay, Replayable, IdemTypeOK, StoredFits, Served
  <2> HIDE DEF x
  <2>2. /\ answer' = [answer EXCEPT ![r] = x]
        /\ gate' = [gate EXCEPT ![r] = "replayed"]
        /\ gate[r] \notin Served
    BY DEF Replay, Move, Served, x
  <2>3. AnswerFits(r)'
    BY <2>1, <2>2 DEF AnswerFits, IdemTypeOK, Served
  <2>4. ASSUME NEW q \in Request, q # r PROVE AnswerFits(q)'
    BY <2>2, <2>4 DEF AnswerFits, IdemTypeOK, Served
  <2>5. QED
    BY <2>3, <2>4
<1>5. \A q \in Request : StoringOwn(q)'
  BY DEF Replay, Move, MayFail, Replayable, IdemTypeOK, StoringOwn, Held, Busy, Unmet, Served
<1>6. QED
  BY <1>1, <1>2, <1>3, <1>4, <1>5

(* A request is refused. *)
LEMMA RefuseKeepsIInv ==
    ASSUME IInv, NEW r \in Request, Refuse(r)
    PROVE  IInv'
<1> USE KeyAssumption, FreeAssumption, FaultAssumption DEF IInv, Record
<1>1. IdemTypeOK'
  BY DEF Refuse, Move, MayFail, Replayable, IdemTypeOK, InFlight, Done, Held, Busy, Unmet, Served
<1>2. \A q \in Request : OwnsKey(q)'
  BY DEF Refuse, Move, MayFail, Replayable, IdemTypeOK, OwnsKey, InFlight, Done, Held, Busy, Unmet, Served
<1>3. \A j \in Key : StoredFits(j)'
  BY DEF Refuse, Move, MayFail, Replayable, IdemTypeOK, StoredFits, StoringOwn, InFlight, Done, Held, Busy, Unmet, Served
<1>4. \A q \in Request : AnswerFits(q)'
  BY DEF Refuse, Move, MayFail, Replayable, IdemTypeOK, AnswerFits, StoredFits, Held, Busy, Unmet, Served
<1>5. \A q \in Request : StoringOwn(q)'
  BY DEF Refuse, Move, MayFail, Replayable, IdemTypeOK, StoringOwn, Held, Busy, Unmet, Served
<1>6. QED
  BY <1>1, <1>2, <1>3, <1>4, <1>5

(* finish(): only the owner of an untainted key overwrites it. *)
LEMMA StoreKeepsIInv ==
    ASSUME IInv, NEW r \in Request, Store(r)
    PROVE  IInv'
<1> USE KeyAssumption, FreeAssumption, FaultAssumption DEF IInv, Record
<1>1. IdemTypeOK'
  BY DEF Store, Move, MayFail, IdemTypeOK, InFlight, Done, Held, Busy, Unmet, Served
<1>2. \A q \in Request : OwnsKey(q)'
  <2> SUFFICES ASSUME NEW q \in Request, keyOf[q] \notin tainted', gate'[q] \in Held
               PROVE  idem'[keyOf[q]] = InFlight(q)
    BY DEF OwnsKey
  <2>1. q # r /\ idem[keyOf[q]] = InFlight(q)
    BY DEF Store, Move, IdemTypeOK, OwnsKey, Held
  <2>2. keyOf[q] # keyOf[r]
    BY <2>1, OneOwner DEF Store, OwnsKey, Held
  <2>3. QED
    BY <2>1, <2>2 DEF Store, IdemTypeOK
<1>3. \A j \in Key : StoredFits(j)'
  BY DEF Store, Move, MayFail, IdemTypeOK, StoredFits, StoringOwn, InFlight, Done, Held, Busy, Unmet, Served
<1>4. \A q \in Request : AnswerFits(q)'
  BY DEF Store, Move, MayFail, IdemTypeOK, AnswerFits, StoredFits, Held, Busy, Unmet, Served
<1>5. \A q \in Request : StoringOwn(q)'
  BY DEF Store, Move, MayFail, IdemTypeOK, StoringOwn, Held, Busy, Unmet, Served
<1>6. QED
  BY <1>1, <1>2, <1>3, <1>4, <1>5

(* The DEL after a failure: only the owner of an untainted key deletes it. *)
LEMMA ReleaseKeepsIInv ==
    ASSUME IInv, NEW r \in Request, Release(r)
    PROVE  IInv'
<1> USE KeyAssumption, FreeAssumption, FaultAssumption DEF IInv, Record
<1>1. IdemTypeOK'
  BY DEF Release, Move, MayFail, IdemTypeOK, InFlight, Done, Held, Busy, Unmet, Served
<1>2. \A q \in Request : OwnsKey(q)'
  <2> SUFFICES ASSUME NEW q \in Request, keyOf[q] \notin tainted', gate'[q] \in Held
               PROVE  idem'[keyOf[q]] = InFlight(q)
    BY DEF OwnsKey
  <2>1. q # r /\ idem[keyOf[q]] = InFlight(q)
    BY DEF Release, Move, IdemTypeOK, OwnsKey, Held
  <2>2. keyOf[q] # keyOf[r]
    BY <2>1, OneOwner DEF Release, OwnsKey, Held
  <2>3. QED
    BY <2>1, <2>2 DEF Release, IdemTypeOK
<1>3. \A j \in Key : StoredFits(j)'
  BY DEF Release, Move, MayFail, IdemTypeOK, StoredFits, StoringOwn, InFlight, Done, Held, Busy, Unmet, Served
<1>4. \A q \in Request : AnswerFits(q)'
  BY DEF Release, Move, MayFail, IdemTypeOK, AnswerFits, StoredFits, Held, Busy, Unmet, Served
<1>5. \A q \in Request : StoringOwn(q)'
  BY DEF Release, Move, MayFail, IdemTypeOK, StoringOwn, Held, Busy, Unmet, Served
<1>6. QED
  BY <1>1, <1>2, <1>3, <1>4, <1>5

(* A request is sent again. *)
LEMMA RetryKeepsIInv ==
    ASSUME IInv, NEW r \in Request, Retry(r)
    PROVE  IInv'
<1> USE KeyAssumption, FreeAssumption, FaultAssumption DEF IInv, Record
<1>1. IdemTypeOK'
  BY DEF Retry, Move, MayFail, IdemTypeOK, InFlight, Done, Held, Busy, Unmet, Served
<1>2. \A q \in Request : OwnsKey(q)'
  BY DEF Retry, Move, MayFail, IdemTypeOK, OwnsKey, InFlight, Done, Held, Busy, Unmet, Served
<1>3. \A j \in Key : StoredFits(j)'
  BY DEF Retry, Move, MayFail, IdemTypeOK, StoredFits, StoringOwn, InFlight, Done, Held, Busy, Unmet, Served
<1>4. \A q \in Request : AnswerFits(q)'
  BY DEF Retry, Move, MayFail, IdemTypeOK, AnswerFits, StoredFits, Held, Busy, Unmet, Served
<1>5. \A q \in Request : StoringOwn(q)'
  BY DEF Retry, Move, MayFail, IdemTypeOK, StoringOwn, Held, Busy, Unmet, Served
<1>6. QED
  BY <1>1, <1>2, <1>3, <1>4, <1>5

(* The handler succeeds. *)
LEMMA SucceedKeepsIInv ==
    ASSUME IInv, NEW r \in Request, Succeed(r)
    PROVE  IInv'
<1> USE KeyAssumption, FreeAssumption, FaultAssumption DEF IInv, Record
<1>1. IdemTypeOK'
  BY DEF Succeed, Move, MayFail, IdemTypeOK, InFlight, Done, Held, Busy, Unmet, Served
<1>2. \A q \in Request : OwnsKey(q)'
  BY DEF Succeed, Move, MayFail, IdemTypeOK, OwnsKey, InFlight, Done, Held, Busy, Unmet, Served
<1>3. \A j \in Key : StoredFits(j)'
  BY DEF Succeed, Move, MayFail, IdemTypeOK, StoredFits, StoringOwn, InFlight, Done, Held, Busy, Unmet, Served
<1>4. \A q \in Request : AnswerFits(q)'
  BY DEF Succeed, Move, MayFail, IdemTypeOK, AnswerFits, StoredFits, Held, Busy, Unmet, Served
<1>5. \A q \in Request : StoringOwn(q)'
  BY DEF Succeed, Move, MayFail, IdemTypeOK, StoringOwn, Held, Busy, Unmet, Served
<1>6. QED
  BY <1>1, <1>2, <1>3, <1>4, <1>5

(* The handler fails. *)
LEMMA FailStepKeepsIInv ==
    ASSUME IInv, NEW r \in Request, FailStep(r)
    PROVE  IInv'
<1> USE KeyAssumption, FreeAssumption, FaultAssumption DEF IInv, Record
<1>1. IdemTypeOK'
  BY DEF FailStep, Move, MayFail, Fail, IdemTypeOK, InFlight, Done, Held, Busy, Unmet, Served
<1>2. \A q \in Request : OwnsKey(q)'
  BY DEF FailStep, Move, MayFail, Fail, IdemTypeOK, OwnsKey, InFlight, Done, Held, Busy, Unmet, Served
<1>3. \A j \in Key : StoredFits(j)'
  BY DEF FailStep, Move, MayFail, Fail, IdemTypeOK, StoredFits, StoringOwn, InFlight, Done, Held, Busy, Unmet, Served
<1>4. \A q \in Request : AnswerFits(q)'
  BY DEF FailStep, Move, MayFail, Fail, IdemTypeOK, AnswerFits, StoredFits, Held, Busy, Unmet, Served
<1>5. \A q \in Request : StoringOwn(q)'
  BY DEF FailStep, Move, MayFail, Fail, IdemTypeOK, StoringOwn, Held, Busy, Unmet, Served
<1>6. QED
  BY <1>1, <1>2, <1>3, <1>4, <1>5

(* A key expires. *)
LEMMA ExpireKeepsIInv ==
    ASSUME IInv, NEW k \in Key, Expire(k)
    PROVE  IInv'
<1> USE KeyAssumption, FreeAssumption, FaultAssumption DEF IInv, Record
<1>1. IdemTypeOK'
  BY DEF Expire, Move, MayFail, IdemTypeOK, InFlight, Done, Held, Busy, Unmet, Served
<1>2. \A q \in Request : OwnsKey(q)'
  BY DEF Expire, Move, MayFail, IdemTypeOK, OwnsKey, InFlight, Done, Held, Busy, Unmet, Served
<1>3. \A j \in Key : StoredFits(j)'
  BY DEF Expire, Move, MayFail, IdemTypeOK, StoredFits, StoringOwn, InFlight, Done, Held, Busy, Unmet, Served
<1>4. \A q \in Request : AnswerFits(q)'
  BY DEF Expire, Move, MayFail, IdemTypeOK, AnswerFits, StoredFits, Held, Busy, Unmet, Served
<1>5. \A q \in Request : StoringOwn(q)'
  BY DEF Expire, Move, MayFail, IdemTypeOK, StoringOwn, Held, Busy, Unmet, Served
<1>6. QED
  BY <1>1, <1>2, <1>3, <1>4, <1>5

(* The process ends: nobody holds a key any more. *)
LEMMA CrashKeepsIInv ==
    ASSUME IInv, Crash
    PROVE  IInv'
<1> USE KeyAssumption, FreeAssumption, FaultAssumption DEF IInv, Record
<1>1. IdemTypeOK'
  BY DEF Crash, Move, MayFail, IdemTypeOK, InFlight, Done, Held, Busy, Unmet, Served
<1>2. \A q \in Request : OwnsKey(q)'
  BY DEF Crash, Move, MayFail, IdemTypeOK, OwnsKey, InFlight, Done, Held, Busy, Unmet, Served
<1>3. \A j \in Key : StoredFits(j)'
  BY DEF Crash, Move, MayFail, IdemTypeOK, StoredFits, StoringOwn, InFlight, Done, Held, Busy, Unmet, Served
<1>4. \A q \in Request : AnswerFits(q)'
  BY DEF Crash, Move, MayFail, IdemTypeOK, AnswerFits, StoredFits, Held, Busy, Unmet, Served
<1>5. \A q \in Request : StoringOwn(q)'
  BY DEF Crash, Move, MayFail, IdemTypeOK, StoringOwn, Held, Busy, Unmet, Served
<1>6. QED
  BY <1>1, <1>2, <1>3, <1>4, <1>5

(* Something else fails. *)
LEMMA ElsewhereKeepsIInv ==
    ASSUME IInv, Elsewhere
    PROVE  IInv'
<1> USE KeyAssumption, FreeAssumption, FaultAssumption DEF IInv, Record
<1>1. IdemTypeOK'
  BY DEF Elsewhere, Move, MayFail, IdemTypeOK, InFlight, Done, Held, Busy, Unmet, Served
<1>2. \A q \in Request : OwnsKey(q)'
  BY DEF Elsewhere, Move, MayFail, IdemTypeOK, OwnsKey, InFlight, Done, Held, Busy, Unmet, Served
<1>3. \A j \in Key : StoredFits(j)'
  BY DEF Elsewhere, Move, MayFail, IdemTypeOK, StoredFits, StoringOwn, InFlight, Done, Held, Busy, Unmet, Served
<1>4. \A q \in Request : AnswerFits(q)'
  BY DEF Elsewhere, Move, MayFail, IdemTypeOK, AnswerFits, StoredFits, Held, Busy, Unmet, Served
<1>5. \A q \in Request : StoringOwn(q)'
  BY DEF Elsewhere, Move, MayFail, IdemTypeOK, StoringOwn, Held, Busy, Unmet, Served
<1>6. QED
  BY <1>1, <1>2, <1>3, <1>4, <1>5

(* Every step of the interceptor, of Redis and of a dying process keeps it. *)
LEMMA IInvStep == IInv /\ [IdemNext]_idemVars => IInv'
<1> SUFFICES ASSUME IInv, [IdemNext]_idemVars PROVE IInv'
  OBVIOUS
<1>1. ASSUME NEW r \in Request, GateStep(r) PROVE IInv'
  BY <1>1, AcquireKeepsIInv, ContendKeepsIInv, AcquireFailsKeepsIInv, UnlockedKeepsIInv, ReplayKeepsIInv,
     RefuseKeepsIInv, StoreKeepsIInv, ReleaseKeepsIInv, RetryKeepsIInv DEF GateStep
<1>2. ASSUME NEW r \in Request, Succeed(r) \/ FailStep(r) PROVE IInv'
  BY <1>2, SucceedKeepsIInv, FailStepKeepsIInv
<1>3. CASE Crash \/ Elsewhere \/ \E k \in Key : Expire(k)
  BY <1>3, CrashKeepsIInv, ElsewhereKeepsIInv, ExpireKeepsIInv
<1>4. CASE UNCHANGED idemVars
  BY <1>4 DEF idemVars, IInv, IdemTypeOK, OwnsKey, StoredFits, AnswerFits, StoringOwn, Held, InFlight,
     Busy, Unmet, Served
<1>5. QED
  BY <1>1, <1>2, <1>3, <1>4 DEF IdemNext, FailStep, Elsewhere

-----------------------------------------------------------------------------
(* Records in Redis, requests and answers fit together in every reachable  *)
(* state of the interceptor.                                               *)
THEOREM IdemInductive == IdemSpec => []IInv
<1>1. QED
  BY IInvInit, IInvStep, PTL DEF IdemSpec

(* Every variable of the interceptor's model keeps its type. *)
THEOREM IdemTypes == IdemSpec => []IdemTypeOK
<1>1. IInv => IdemTypeOK
  BY DEF IInv
<1>2. QED
  BY <1>1, IdemInductive, PTL

(* Two requests under one key are never executed at once, whatever fails   *)
(* and expires, unless one of them ran without the key.                    *)
THEOREM KeyExcludes == IdemSpec => []OneAtATime
<1>1. IInv => OneAtATime
  BY OneOwner DEF IInv, OneAtATime, OwnsKey, Executing, Held
<1>2. QED
  BY <1>1, IdemInductive, PTL

(* No request is ever answered with the result of another body, or with    *)
(* that of a request that failed.                                          *)
THEOREM ReplaysFit == IdemSpec => []AnswersFit
<1>1. IInv => AnswersFit
  BY DEF IInv, AnswersFit, AnswerFits
<1>2. QED
  BY <1>1, IdemInductive, PTL

-----------------------------------------------------------------------------
(* A step of a request: through the interceptor, or in addCase(), which    *)
(* ends inside, by an answer, or by an error.                              *)
LEMMA RequestStepIsIdem ==
    ASSUME NEW r \in Request, RequestStep(r)
    PROVE  IdemNext \/ UNCHANGED idemVars
<1>1. CASE GateStep(r)
  BY <1>1 DEF IdemNext
<1>2. CASE Known(r) \/ Queue(r)
  BY <1>2 DEF Known, Queue, IdemNext
<1>3. CASE InsertIgnored(r)
  BY <1>3 DEF InsertIgnored, IdemNext
<1>4. CASE Unknown(r) \/ Insert(r)
  BY <1>4 DEF Unknown, Insert
<1>5. QED
  BY <1>1, <1>2, <1>3, <1>4 DEF RequestStep

(* Workers, the daily task, the user and neighbours do not touch the keys. *)
LEMMA GeocodersLeaveIdem ==
    ASSUME TaskStep \/ (\E w \in Worker : WorkerStep(w)) \/ (\E e \in Ext : TypeRoad(e) \/ Neighbour(e))
    PROVE  UNCHANGED idemVars
<1>1. ASSUME NEW g \in Geocoder, Geocode(g) \/ Geocoded(g) PROVE UNCHANGED idemVars
  BY <1>1 DEF Geocode, Geocoded
<1>2. ASSUME NEW w \in Worker, NEW e \in Ext, Take(w, e) PROVE UNCHANGED idemVars
  BY <1>2 DEF Take
<1>3. ASSUME Scan \/ \E e \in Ext : NextOfRound(e) \/ TypeRoad(e) \/ Neighbour(e) PROVE UNCHANGED idemVars
  BY <1>3 DEF Scan, NextOfRound, TypeRoad, Neighbour
<1>4. QED
  BY <1>1, <1>2, <1>3 DEF TaskStep, WorkerStep, Geocoder

(* A failure of the server or of a handler is one of the interceptor's, any *)
(* other one only counts.                                                   *)
LEMMA FaultIsIdem == Fault => IdemNext
<1>1. CrashOfServer => IdemNext
  BY DEF CrashOfServer, IdemNext
<1>2. ASSUME NEW r \in Request, HandlerFails(r) PROVE IdemNext
  BY <1>2 DEF HandlerFails, IdemNext
<1>3. ASSUME NEW w \in Worker, JobFails(w) PROVE IdemNext
  BY <1>3 DEF JobFails, IdemNext, idemButFaults
<1>4. ASSUME NEW e \in Ext, Stall(e) PROVE IdemNext
  BY <1>4 DEF Stall, IdemNext, idemButFaults
<1>5. TaskFails => IdemNext
  BY DEF TaskFails, IdemNext, idemButFaults
<1>6. QED
  BY <1>1, <1>2, <1>3, <1>4, <1>5 DEF Fault

(* Whatever Ingest does is a step of the interceptor, or none of its       *)
(* business; a key may expire at any time.                                 *)
LEMMA IngestStepIsIdem == Next => IdemNext \/ UNCHANGED idemVars
<1> SUFFICES ASSUME Next PROVE IdemNext \/ UNCHANGED idemVars
  OBVIOUS
<1>1. CASE Fault
  BY <1>1, FaultIsIdem
<1>2. ASSUME NEW r \in Request, RequestStep(r) PROVE IdemNext \/ UNCHANGED idemVars
  BY <1>2, RequestStepIsIdem
<1>3. ASSUME NEW k \in Key, KeyExpires(k) PROVE IdemNext
  BY <1>3 DEF KeyExpires, IdemNext
<1>4. CASE TaskStep \/ (\E w \in Worker : WorkerStep(w)) \/ (\E e \in Ext : TypeRoad(e) \/ Neighbour(e))
  BY <1>4, GeocodersLeaveIdem
<1>5. QED
  BY <1>4, <1>3, <1>2, <1>1 DEF Next

(* addCase() behind the interceptor implements the interceptor around any  *)
(* handler (idempotency.interceptor.ts; case-patrol.service.ts addCase).   *)
THEOREM IngestImplementsIdempotency == Spec => IdemSpec
<1>1. UNCHANGED vars => UNCHANGED idemVars
  BY DEF vars
<1>2. [Next]_vars => [IdemNext]_idemVars
  BY <1>1, IngestStepIsIdem
<1>3. Init => IdemInit
  BY DEF Init
<1>4. QED
  BY <1>3, <1>2, PTL DEF Spec, IdemSpec

(* Under one key addCase() runs once at a time, unless it ran without it.  *)
THEOREM OneCaseAtATime == Spec => []OneAtATime
<1>1. QED
  BY IngestImplementsIdempotency, KeyExcludes, PTL

(* A device never gets the answer that was given to another content.       *)
THEOREM IngestAnswersFit == Spec => []AnswersFit
<1>1. QED
  BY IngestImplementsIdempotency, ReplaysFit, PTL

-----------------------------------------------------------------------------
(* The rest of Ingest: the case numbers, the queue and the geocoders.      *)

(* Every number that the counter has given belongs to one stored case.     *)
NumbersFit ==
    /\ counter \in Nat
    /\ number \in [Ext -> 0..counter]
    /\ Cardinality(Stored) = counter
    /\ \A n \in 1..counter : \E e \in Ext : number[e] = n
    /\ \A d, e \in Stored : number[d] = number[e] => d = e

(* Types, and: a job that may still run has an attempt left; the round of  *)
(* the daily task has left the case that it is busy with.                  *)
QueueFits ==
    /\ at \in [Request -> {"check", "write", "dispatch"}]
    /\ job \in [Ext -> [state : {"none", "waiting", "active", "done", "failed"}, tries : 0..Attempts]]
    /\ \A e \in Ext : job[e].state \in {"none", "waiting", "active"} => job[e].tries < Attempts
    /\ slot \in [Geocoder -> {Resting} \cup [step : {"geocoding", "recording"}, of : Ext]]
    /\ pending \in SUBSET Ext
    /\ slot[Daily] # Resting => slot[Daily].of \notin pending

ResultFits ==
    /\ road \in [Ext -> Ext \cup {NoRoad, Typed}]
    /\ edited \in BOOLEAN
    /\ geocoded \in [Ext -> Nat]
    /\ overlap \in SUBSET Ext

(* A case whose road was never written behind a geocoder's back: nobody    *)
(* looks it up once it has a road, and nobody but the writer of the road   *)
(* records its version.                                                    *)
Undisturbed(e) ==
    /\ road[e] = NoRoad =>
          geocoded[e] = 0 /\ \A g \in Geocoder : slot[g] # Slot("recording", e)
    /\ road[e] # NoRoad =>
          e \notin pending /\ \A g \in Geocoder : slot[g] # Slot("geocoding", e)
    /\ \A g \in Geocoder : slot[g] = Slot("recording", e) =>
          geocoded[e] = 0 /\ \A h \in Geocoder : slot[h] = Slot("recording", e) => h = g
    /\ geocoded[e] <= 1

GeocodersFit == \A e \in Ext \ overlap : Undisturbed(e)

WorkFits == QueueFits /\ ResultFits /\ GeocodersFit

(* Nothing has been given out in the beginning. *)
LEMMA NumbersInit == Init => NumbersFit
<1> SUFFICES ASSUME Init PROVE NumbersFit
  OBVIOUS
<1>1. counter = 0 /\ number = [e \in Ext |-> 0]
  BY DEF Init
<1>2. Stored = {}
  BY <1>1 DEF Stored
<1>3. QED
  BY <1>1, <1>2, FS_EmptySet DEF NumbersFit

(* Only a transaction of addCase() gives a number, and it stores the       *)
(* case with it: a rejected case gives its number back.                    *)
LEMMA RowsOfStep ==
    ASSUME [Next]_vars
    PROVE  UNCHANGED rows \/ \E e \in Ext : StoreCase(e)
<1>1. ASSUME NEW r \in Request, RequestStep(r) PROVE UNCHANGED rows \/ \E e \in Ext : StoreCase(e)
  <2>1. Insert(r) => \E e \in Ext : StoreCase(e)
    BY ExtAssumption DEF Insert
  <2>2. Insert(r) \/ UNCHANGED rows
    BY <1>1 DEF RequestStep, Known, Unknown, InsertIgnored, Queue
  <2>3. QED
    BY <2>1, <2>2
<1>2. ASSUME TaskStep \/ (\E w \in Worker : WorkerStep(w)) PROVE UNCHANGED rows
  <2>1. ASSUME NEW g \in Geocoder, Geocode(g) \/ Geocoded(g) PROVE UNCHANGED rows
    BY <2>1 DEF Geocode, Geocoded
  <2>2. ASSUME NEW w \in Worker, NEW e \in Ext, Take(w, e) PROVE UNCHANGED rows
    BY <2>2 DEF Take
  <2>3. ASSUME Scan \/ \E e \in Ext : NextOfRound(e) PROVE UNCHANGED rows
    BY <2>3 DEF Scan, NextOfRound
  <2>4. QED
    BY <1>2, <2>1, <2>2, <2>3 DEF TaskStep, WorkerStep, Geocoder
<1>3. ASSUME (\E k \in Key : KeyExpires(k)) \/ (\E e \in Ext : TypeRoad(e)) PROVE UNCHANGED rows
  BY <1>3 DEF KeyExpires, TypeRoad
<1>4. ASSUME Fault PROVE UNCHANGED rows
  BY <1>4 DEF Fault, CrashOfServer, HandlerFails, JobFails, Stall, TaskFails
<1>5. CASE UNCHANGED vars
  BY <1>5 DEF vars
<1>6. (\E e \in Ext : Neighbour(e)) => \E e \in Ext : StoreCase(e)
  BY DEF Neighbour
<1>7. QED
  BY <1>1, <1>2, <1>3, <1>4, <1>5, <1>6 DEF Next

(* Every step keeps the numbers and the stored cases together. *)
LEMMA NumbersStep == NumbersFit /\ [Next]_vars => NumbersFit'
<1> SUFFICES ASSUME NumbersFit, [Next]_vars PROVE NumbersFit'
  OBVIOUS
<1>1. CASE UNCHANGED rows
  BY <1>1 DEF rows, NumbersFit, Stored
<1>2. ASSUME NEW e \in Ext, StoreCase(e) PROVE NumbersFit'
  <2>2. /\ counter \in Nat /\ counter' = counter + 1
        /\ number' = [number EXCEPT ![e] = counter + 1]
    BY <1>2 DEF StoreCase, NumbersFit
  <2>3. e \notin Stored
    BY <1>2 DEF StoreCase, Storable, Fresh
  <2>4. number \in [Ext -> 0..counter]
    BY DEF NumbersFit
  <2>5. Stored' = Stored \cup {e}
    BY <2>2, <2>4 DEF Stored
  <2>6. IsFiniteSet(Stored)
    BY ExtAssumption, FS_Subset DEF Stored
  <2>7. Cardinality(Stored') = counter'
    BY <2>2, <2>3, <2>5, <2>6, FS_AddElement DEF NumbersFit
  <2>8. number' \in [Ext -> 0..counter']
    <3>1. \A x \in Ext : number'[x] \in 0..counter + 1
      BY <2>2, <2>4
    <3>2. QED
      BY <2>2, <2>4, <3>1
  <2>9. \A n \in 1..counter' : \E x \in Ext : number'[x] = n
    <3> SUFFICES ASSUME NEW n \in 1..counter' PROVE \E x \in Ext : number'[x] = n
      OBVIOUS
    <3>1. CASE n = counter + 1
      BY <2>2, <2>4, <3>1
    <3>2. CASE n # counter + 1
      <4>1. n \in 1..counter
        BY <2>2, <3>2
      <4>2. PICK x \in Ext : number[x] = n
        BY <4>1 DEF NumbersFit
      <4>3. number[x] # 0
        BY <4>1, <4>2
      <4>4. x # e
        BY <2>3, <4>3 DEF Stored
      <4>5. number'[x] = n
        BY <2>2, <2>4, <4>2, <4>4
      <4>6. QED
        BY <4>5
    <3>3. QED
      BY <3>1, <3>2
  <2>10. \A d, x \in Stored' : number'[d] = number'[x] => d = x
    <3>1. number'[e] = counter + 1
      BY <2>2, <2>4
    <3>2. \A x \in Stored : number'[x] = number[x] /\ number[x] \in 0..counter
      BY <2>2, <2>3, <2>4 DEF Stored
    <3>3. \A x \in Stored : number'[x] # counter + 1
      BY <2>2, <3>2
    <3>4. QED
      BY <2>5, <3>1, <3>2, <3>3 DEF NumbersFit
  <2>11. QED
    BY <2>2, <2>7, <2>8, <2>9, <2>10 DEF NumbersFit
<1>3. QED
  BY <1>1, <1>2, RowsOfStep

(* There are not more numbers than cases. *)
LEMMA NumbersBounded ==
    ASSUME NumbersFit
    PROVE  counter \in 0..Cardinality(Ext) /\ number \in [Ext -> 0..Cardinality(Ext)]
<1>1. Cardinality(Stored) <= Cardinality(Ext)
  BY ExtAssumption, FS_Subset DEF Stored
<1>2. Cardinality(Ext) \in Nat
  BY ExtAssumption, FS_CardinalityType
<1>3. counter \in Nat /\ counter <= Cardinality(Ext) /\ number \in [Ext -> 0..counter]
  BY <1>1 DEF NumbersFit
<1>4. 0..counter \subseteq 0..Cardinality(Ext)
  BY <1>2, <1>3
<1>5. QED
  BY <1>2, <1>3, <1>4

(* Nobody works on a case, and no case has a road, in the beginning. *)
LEMMA WorkInit == Init => WorkFits
<1> SUFFICES ASSUME Init PROVE WorkFits
  OBVIOUS
<1>1. QueueFits
  BY GeocoderAssumption DEF Init, QueueFits, Geocoder
<1>2. ResultFits
  BY DEF Init, ResultFits
<1>3. GeocodersFit
  BY DEF Init, GeocodersFit, Undisturbed, Slot, Resting
<1>4. QED
  BY <1>1, <1>2, <1>3 DEF WorkFits

(* A step that begins no lookup and no record, and writes no road and no   *)
(* version, disturbs nothing.                                              *)
LEMMA LessWorkKeeps ==
    ASSUME WorkFits, QueueFits', UNCHANGED result,
           pending' \subseteq pending,
           \A g \in Geocoder : slot'[g] = slot[g] \/ slot'[g] = Resting
    PROVE  WorkFits'
<1>1. UNCHANGED <<road, edited, geocoded, overlap>>
  BY DEF result
<1>2. ResultFits'
  BY <1>1 DEF WorkFits, ResultFits
<1>3. \A e \in Ext : Resting # Slot("recording", e) /\ Resting # Slot("geocoding", e)
  BY DEF Resting, Slot
<1>4. \A g \in Geocoder, e \in Ext :
         /\ slot'[g] = Slot("recording", e) => slot[g] = Slot("recording", e)
         /\ slot'[g] = Slot("geocoding", e) => slot[g] = Slot("geocoding", e)
  BY <1>3
<1>5. GeocodersFit'
  BY <1>1, <1>4 DEF WorkFits, GeocodersFit, Undisturbed
<1>6. QED
  BY <1>2, <1>5 DEF WorkFits

(* Requests touch the queue only by adding the job of a case. *)
LEMMA RequestsKeepWork ==
    ASSUME WorkFits,
           \/ \E r \in Request : RequestStep(r) \/ HandlerFails(r)
           \/ CrashOfServer
           \/ \E k \in Key : KeyExpires(k)
           \/ \E e \in Ext : Neighbour(e)
    PROVE  WorkFits'
<1> USE DEF WorkFits
<1>1. UNCHANGED <<slot, pending, result>>
  BY DEF RequestStep, Known, Unknown, Insert, InsertIgnored, Queue, HandlerFails, CrashOfServer,
     KeyExpires, Neighbour, queue
<1>2. at' \in [Request -> {"check", "write", "dispatch"}]
  BY DEF RequestStep, Known, Unknown, Insert, InsertIgnored, Queue, HandlerFails, CrashOfServer,
     KeyExpires, Neighbour, Step, QueueFits
<1>3. job' = job \/ \E e \in Ext : job[e].state = "none" /\ job' = [job EXCEPT ![e].state = "waiting"]
  BY ExtAssumption DEF RequestStep, Known, Unknown, Insert, InsertIgnored, Queue, HandlerFails,
     CrashOfServer, KeyExpires, Neighbour, queue
<1>4. QueueFits'
  <2>1. CASE job' = job
    BY <1>1, <1>2, <2>1 DEF QueueFits
  <2>2. ASSUME NEW e \in Ext, job[e].state = "none", job' = [job EXCEPT ![e].state = "waiting"]
        PROVE  QueueFits'
    <3>1. job' \in [Ext -> [state : {"none", "waiting", "active", "done", "failed"}, tries : 0..Attempts]]
      BY <2>2 DEF QueueFits
    <3>2. \A x \in Ext : job'[x].tries = job[x].tries /\ (x # e => job'[x].state = job[x].state)
      BY <2>2 DEF QueueFits
    <3>3. \A x \in Ext : job'[x].state \in {"none", "waiting", "active"} => job'[x].tries < Attempts
      BY <2>2, <3>2 DEF QueueFits
    <3>4. QED
      BY <1>1, <1>2, <3>1, <3>3 DEF QueueFits
  <2>3. QED
    BY <1>3, <2>1, <2>2
<1>5. QED
  BY <1>1, <1>4, LessWorkKeeps

(* A change of the state of one job that uses no attempt. *)
LEMMA JobMoves ==
    ASSUME QueueFits, NEW e \in Ext, NEW s \in {"waiting", "active", "done"},
           job[e].state \in {"none", "waiting", "active"} \/ s = "done",
           job' = [job EXCEPT ![e].state = s]
    PROVE  /\ job' \in [Ext -> [state : {"none", "waiting", "active", "done", "failed"}, tries : 0..Attempts]]
           /\ \A x \in Ext : job'[x].state \in {"none", "waiting", "active"} => job'[x].tries < Attempts
<1>1. job' \in [Ext -> [state : {"none", "waiting", "active", "done", "failed"}, tries : 0..Attempts]]
  BY DEF QueueFits
<1>2. \A x \in Ext : /\ job'[x].tries = job[x].tries
                     /\ x # e => job'[x].state = job[x].state
                     /\ job'[e].state = s
  BY DEF QueueFits
<1>3. \A x \in Ext : job'[x].state \in {"none", "waiting", "active"} => job'[x].tries < Attempts
  BY <1>2 DEF QueueFits
<1>4. QED
  BY <1>1, <1>3

(* What a busy geocoder has in hand. *)
LEMMA BusySlot ==
    ASSUME QueueFits, NEW g \in Geocoder, slot[g] # Resting
    PROVE  /\ slot[g].of \in Ext
           /\ slot[g] = Slot(slot[g].step, slot[g].of)
           /\ slot[g].step \in {"geocoding", "recording"}
BY DEF QueueFits, Slot

(* process(): a worker takes a job whose case has no road. *)
LEMMA TakeKeepsWork ==
    ASSUME WorkFits, NEW w \in Worker, NEW e \in Ext, Take(w, e)
    PROVE  WorkFits'
<1> USE DEF WorkFits
<1>1. w \in Geocoder /\ w # Daily /\ Daily \in Geocoder
  BY GeocoderAssumption DEF Geocoder
<1>2. UNCHANGED <<at, pending, road, edited, geocoded, overlap>> /\ slot[w] = Resting /\ job[e].state = "waiting"
  BY DEF Take, result
<1>3. CASE road[e] # NoRoad
  <2>1. job' = [job EXCEPT ![e].state = "done"] /\ slot' = slot
    BY <1>3 DEF Take
  <2>2. QueueFits'
    BY <1>2, <2>1, JobMoves DEF QueueFits
  <2>3. QED
    BY <1>2, <2>1, <2>2, LessWorkKeeps DEF result
<1>4. CASE road[e] = NoRoad
  <2>1. job' = [job EXCEPT ![e].state = "active"] /\ slot' = [slot EXCEPT ![w] = Slot("geocoding", e)]
    BY <1>4 DEF Take
  <2>2. Slot("geocoding", e) \in [step : {"geocoding", "recording"}, of : Ext]
    BY DEF Slot
  <2>3. slot' \in [Geocoder -> {Resting} \cup [step : {"geocoding", "recording"}, of : Ext]] /\ slot'[Daily] = slot[Daily]
    BY <1>1, <2>1, <2>2 DEF QueueFits
  <2>4. QueueFits'
    BY <1>2, <2>1, <2>3, JobMoves DEF QueueFits
  <2>5. ResultFits'
    BY <1>2 DEF ResultFits
  <2>6. /\ \A x \in Ext : Slot("geocoding", e) # Slot("recording", x)
        /\ \A x \in Ext : Slot("geocoding", e) = Slot("geocoding", x) => x = e
    BY DEF Slot
  <2>7. \A g \in Geocoder : slot'[g] = IF g = w THEN Slot("geocoding", e) ELSE slot[g]
    BY <2>1 DEF QueueFits
  <2>8. \A g \in Geocoder, x \in Ext :
           /\ slot'[g] = Slot("recording", x) => slot[g] = Slot("recording", x)
           /\ slot'[g] = Slot("geocoding", x) => slot[g] = Slot("geocoding", x) \/ x = e
    BY <2>6, <2>7
  <2>9. GeocodersFit'
    BY <1>2, <1>4, <2>8 DEF GeocodersFit, Undisturbed
  <2>10. QED
    BY <2>4, <2>5, <2>9
<1>5. QED
  BY <1>3, <1>4

(* addressGeocoder(): a round of the daily task takes cases without road. *)
LEMMA ScanKeepsWork ==
    ASSUME WorkFits, Scan
    PROVE  WorkFits'
<1> USE DEF WorkFits
<1>1. /\ UNCHANGED <<at, job, slot, road, edited, geocoded, overlap>>
      /\ slot[Daily] = Resting
      /\ pending' = {e \in Stored : road[e] = NoRoad}
  BY DEF Scan, result
<1>2. QueueFits'
  BY <1>1 DEF QueueFits, Stored
<1>3. ResultFits'
  BY <1>1 DEF ResultFits
<1>4. GeocodersFit'
  BY <1>1 DEF GeocodersFit, Undisturbed
<1>5. QED
  BY <1>2, <1>3, <1>4

(* The next case of the round. *)
LEMMA RoundKeepsWork ==
    ASSUME WorkFits, NEW e \in Ext, NextOfRound(e)
    PROVE  WorkFits'
<1> USE DEF WorkFits
<1>1. /\ UNCHANGED <<at, job, road, edited, geocoded, overlap>>
      /\ e \in pending /\ pending' = pending \ {e}
      /\ slot' = [slot EXCEPT ![Daily] = Slot("geocoding", e)]
  BY DEF NextOfRound, result
<1>2. Daily \in Geocoder
  BY DEF Geocoder
<1>3. Slot("geocoding", e) \in [step : {"geocoding", "recording"}, of : Ext] /\ Slot("geocoding", e).of = e
  BY DEF Slot
<1>4. slot' \in [Geocoder -> {Resting} \cup [step : {"geocoding", "recording"}, of : Ext]] /\ slot'[Daily].of = e
  BY <1>1, <1>2, <1>3 DEF QueueFits
<1>5. QueueFits'
  BY <1>1, <1>4 DEF QueueFits
<1>6. ResultFits'
  BY <1>1 DEF ResultFits
<1>7. /\ \A x \in Ext : Slot("geocoding", e) # Slot("recording", x)
      /\ \A x \in Ext : Slot("geocoding", e) = Slot("geocoding", x) => x = e
  BY DEF Slot
<1>8. \A g \in Geocoder : slot'[g] = IF g = Daily THEN Slot("geocoding", e) ELSE slot[g]
  BY <1>1 DEF QueueFits
<1>9. \A g \in Geocoder, x \in Ext :
         /\ slot'[g] = Slot("recording", x) => slot[g] = Slot("recording", x)
         /\ slot'[g] = Slot("geocoding", x) => slot[g] = Slot("geocoding", x) \/ x = e
  BY <1>7, <1>8
<1>10. GeocodersFit'
  BY <1>1, <1>9 DEF GeocodersFit, Undisturbed
<1>11. QED
  BY <1>5, <1>6, <1>10

(* A road is written: if nobody else has looked, nobody looks any more. *)
LEMMA GeocodeKeepsWork ==
    ASSUME WorkFits, NEW g \in Geocoder, Geocode(g)
    PROVE  WorkFits'
<1> USE DEF WorkFits
<1> DEFINE e == slot[g].of
<1>1. /\ slot[g].step = "geocoding"
      /\ road' = [road EXCEPT ![e] = e]
      /\ overlap' = IF Looked(e) \ {g} # {} THEN overlap \cup {e} ELSE overlap
      /\ slot' = [slot EXCEPT ![g].step = "recording"]
      /\ UNCHANGED <<at, job, pending, edited, geocoded>>
  BY DEF Geocode, WriteRoad
<1>2. slot[g] # Resting
  BY <1>1 DEF Resting, Slot
<1>3. e \in Ext /\ slot[g] = Slot("geocoding", e)
  BY <1>1, <1>2, BusySlot
<1> HIDE DEF e
<1>4. \A h \in Geocoder : slot'[h] = IF h = g THEN Slot("recording", e) ELSE slot[h]
  BY <1>1, <1>3 DEF QueueFits, Slot
<1>5. Slot("recording", e) \in [step : {"geocoding", "recording"}, of : Ext] /\ Slot("recording", e).of = e
  BY <1>3 DEF Slot
<1>6. slot' \in [Geocoder -> {Resting} \cup [step : {"geocoding", "recording"}, of : Ext]]
  <2>1. slot' = [h \in Geocoder |-> slot'[h]]
    BY <1>1 DEF QueueFits
  <2>2. \A h \in Geocoder : slot'[h] \in {Resting} \cup [step : {"geocoding", "recording"}, of : Ext]
    BY <1>4, <1>5 DEF QueueFits
  <2>3. QED
    BY <2>1, <2>2
<1>7. Daily \in Geocoder /\ (slot'[Daily] # Resting => slot'[Daily].of \notin pending)
  <2>1. Daily \in Geocoder
    BY DEF Geocoder
  <2>2. CASE g = Daily
    <3>1. slot[g].of = e
      BY DEF e
    <3>2. QED
      BY <1>2, <1>4, <1>5, <2>1, <2>2, <3>1 DEF QueueFits
  <2>3. CASE g # Daily
    BY <1>4, <2>1, <2>3 DEF QueueFits
  <2>4. QED
    BY <2>1, <2>2, <2>3
<1>8. QueueFits'
  BY <1>1, <1>6, <1>7 DEF QueueFits
<1>9. ResultFits'
  BY <1>1, <1>3 DEF ResultFits
<1>10. /\ \A x \in Ext : Slot("recording", e) # Slot("geocoding", x)
       /\ \A x \in Ext : Slot("recording", e) = Slot("recording", x) => x = e
  BY DEF Slot
<1>11. ASSUME NEW x \in Ext, x \notin overlap' PROVE Undisturbed(x)'
  <2>1. x \notin overlap /\ Undisturbed(x)
    BY <1>1, <1>11 DEF GeocodersFit
  <2>2. CASE x # e
    <3>1. road'[x] = road[x]
      BY <1>1, <2>2 DEF ResultFits
    <3>2. \A h \in Geocoder :
             /\ slot'[h] = Slot("recording", x) => h # g /\ slot[h] = Slot("recording", x)
             /\ slot'[h] = Slot("geocoding", x) => slot[h] = Slot("geocoding", x)
      BY <1>4, <1>10, <2>2
    <3>3. QED
      BY <1>1, <2>1, <3>1, <3>2 DEF Undisturbed
  <2>3. CASE x = e
    <3>1. Looked(e) \ {g} = {}
      BY <1>1, <1>11, <2>3
    <3>2. road[e] = NoRoad /\ geocoded[e] = 0 /\ \A h \in Geocoder : slot[h] # Slot("recording", e)
      BY <1>3, <2>1, <2>3 DEF Undisturbed
    <3>3. \A h \in Geocoder : h # g => slot[h] # Slot("geocoding", e)
      BY <3>1 DEF Looked
    <3>4. e \notin pending
      <4>1. CASE g = Daily
        BY <1>2, <4>1 DEF QueueFits, e
      <4>2. CASE g # Daily
        BY <3>1, <4>2 DEF Looked
      <4>3. QED
        BY <4>1, <4>2
    <3>5. road'[e] = e /\ e # NoRoad
      BY <1>1, <1>3, ExtAssumption DEF ResultFits
    <3>6. \A h \in Geocoder : /\ slot'[h] # Slot("geocoding", e)
                              /\ slot'[h] = Slot("recording", e) => h = g
      BY <1>3, <1>4, <1>10, <3>2, <3>3
    <3>7. pending' = pending /\ geocoded' = geocoded
      BY <1>1
    <3>8. QED
      BY <2>3, <3>2, <3>4, <3>5, <3>6, <3>7 DEF Undisturbed
  <2>4. QED
    BY <2>2, <2>3
<1>12. GeocodersFit'
  BY <1>11 DEF GeocodersFit
<1>13. QED
  BY <1>8, <1>9, <1>12

(* The version of a road, and the end of the job. *)
LEMMA GeocodedKeepsWork ==
    ASSUME WorkFits, NEW g \in Geocoder, Geocoded(g)
    PROVE  WorkFits'
<1> USE DEF WorkFits
<1> DEFINE e == slot[g].of
<1>1. /\ slot[g].step = "recording"
      /\ geocoded' = [geocoded EXCEPT ![e] = @ + 1]
      /\ job' = job \/ (job[e].state = "active" /\ job' = [job EXCEPT ![e].state = "done"])
      /\ slot' = [slot EXCEPT ![g] = Resting]
      /\ UNCHANGED <<at, pending, road, edited, overlap>>
  BY DEF Geocoded
<1>2. slot[g] # Resting
  BY <1>1 DEF Resting, Slot
<1>3. e \in Ext /\ slot[g] = Slot("recording", e)
  BY <1>1, <1>2, BusySlot
<1> HIDE DEF e
<1>4. \A h \in Geocoder : slot'[h] = IF h = g THEN Resting ELSE slot[h]
  BY <1>1 DEF QueueFits
<1>5. QueueFits'
  <2>1. slot' \in [Geocoder -> {Resting} \cup [step : {"geocoding", "recording"}, of : Ext]]
    BY <1>1 DEF QueueFits
  <2>2. slot'[Daily] # Resting => slot'[Daily].of \notin pending
    BY <1>4 DEF QueueFits, Geocoder
  <2>3. /\ job' \in [Ext -> [state : {"none", "waiting", "active", "done", "failed"}, tries : 0..Attempts]]
        /\ \A x \in Ext : job'[x].state \in {"none", "waiting", "active"} => job'[x].tries < Attempts
    <3>1. CASE job' = job
      BY <3>1 DEF QueueFits
    <3>2. CASE job' = [job EXCEPT ![e].state = "done"]
      BY <1>3, <3>2, JobMoves
    <3>3. QED
      BY <1>1, <3>1, <3>2
  <2>4. QED
    BY <1>1, <2>1, <2>2, <2>3 DEF QueueFits
<1>6. ResultFits'
  BY <1>1, <1>3 DEF ResultFits
<1>7. \A x \in Ext : Resting # Slot("recording", x) /\ Resting # Slot("geocoding", x)
  BY DEF Resting, Slot
<1>8. \A h \in Geocoder, x \in Ext :
         /\ slot'[h] = Slot("recording", x) => slot[h] = Slot("recording", x) /\ h # g
         /\ slot'[h] = Slot("geocoding", x) => slot[h] = Slot("geocoding", x)
  BY <1>4, <1>7
<1>9. ASSUME NEW x \in Ext, x \notin overlap' PROVE Undisturbed(x)'
  <2>1. x \notin overlap /\ Undisturbed(x)
    BY <1>1, <1>9 DEF GeocodersFit
  <2>2. CASE x # e
    <3>1. geocoded'[x] = geocoded[x]
      BY <1>1, <2>2 DEF ResultFits
    <3>2. QED
      BY <1>1, <1>8, <2>1, <3>1 DEF Undisturbed
  <2>3. CASE x = e
    <3>1. /\ road[e] # NoRoad /\ geocoded[e] = 0
          /\ \A h \in Geocoder : slot[h] = Slot("recording", e) => h = g
          /\ e \notin pending /\ \A h \in Geocoder : slot[h] # Slot("geocoding", e)
      BY <1>3, <2>1, <2>3 DEF Undisturbed
    <3>2. geocoded'[e] = 1
      BY <1>1, <1>3, <3>1 DEF ResultFits
    <3>3. \A h \in Geocoder : slot'[h] # Slot("recording", e) /\ slot'[h] # Slot("geocoding", e)
      BY <1>3, <1>8, <3>1
    <3>4. road' = road /\ pending' = pending
      BY <1>1
    <3>5. QED
      BY <2>3, <3>1, <3>2, <3>3, <3>4 DEF Undisturbed
  <2>4. QED
    BY <2>2, <2>3
<1>10. GeocodersFit'
  BY <1>9 DEF GeocodersFit
<1>11. QED
  BY <1>5, <1>6, <1>10

(* updateCase(): a road that is typed is written like any other. *)
LEMMA TypeRoadKeepsWork ==
    ASSUME WorkFits, NEW e \in Ext, TypeRoad(e)
    PROVE  WorkFits'
<1> USE DEF WorkFits
<1>1. /\ road' = [road EXCEPT ![e] = Typed]
      /\ overlap' = IF Looked(e) \ {Typed} # {} THEN overlap \cup {e} ELSE overlap
      /\ edited' = TRUE
      /\ UNCHANGED <<at, job, slot, pending, geocoded>>
  BY DEF TypeRoad, WriteRoad, queue
<1>2. QueueFits'
  BY <1>1 DEF QueueFits
<1>3. ResultFits'
  BY <1>1 DEF ResultFits
<1>4. ASSUME NEW x \in Ext, x \notin overlap' PROVE Undisturbed(x)'
  <2>1. x \notin overlap /\ Undisturbed(x)
    BY <1>1, <1>4 DEF GeocodersFit
  <2>2. CASE x # e
    <3>1. road'[x] = road[x]
      BY <1>1, <2>2 DEF ResultFits
    <3>2. QED
      BY <1>1, <2>1, <3>1 DEF Undisturbed
  <2>3. CASE x = e
    <3>1. Looked(e) \subseteq {Typed}
      BY <1>1, <1>4, <2>3
    <3>2. e \notin pending /\ \A h \in Geocoder : slot[h] # Slot("geocoding", e)
      BY <3>1, GeocoderAssumption DEF Looked, Geocoder
    <3>3. road'[e] = Typed /\ Typed # NoRoad
      BY <1>1, ExtAssumption DEF ResultFits
    <3>4. slot' = slot /\ pending' = pending /\ geocoded' = geocoded
      BY <1>1
    <3>5. QED
      BY <2>1, <2>3, <3>2, <3>3, <3>4 DEF Undisturbed
  <2>4. QED
    BY <2>2, <2>3
<1>5. GeocodersFit'
  BY <1>4 DEF GeocodersFit
<1>6. QED
  BY <1>2, <1>3, <1>5

(* A failed attempt, a lock that runs out, and a round that ends: less is  *)
(* under way, and a job with an attempt left waits again.                  *)
LEMMA FaultsKeepWork ==
    ASSUME WorkFits,
           \/ \E w \in Worker : JobFails(w)
           \/ \E e \in Ext : Stall(e)
           \/ TaskFails
    PROVE  WorkFits'
<1> USE DEF WorkFits
<1>1. Daily \in Geocoder /\ Worker \subseteq Geocoder /\ Daily \notin Worker
  BY GeocoderAssumption DEF Geocoder
<1>2. ASSUME NEW w \in Worker, JobFails(w) PROVE WorkFits'
  <2> DEFINE e == slot[w].of
  <2>1. /\ slot[w] # Resting /\ slot' = [slot EXCEPT ![w] = Resting]
        /\ job' = job \/ (job[e].state = "active" /\ job' = [job EXCEPT ![e] = Again(e)])
        /\ UNCHANGED <<at, pending>> /\ UNCHANGED result
    BY <1>2 DEF JobFails
  <2>2. e \in Ext
    BY <1>1, <2>1, BusySlot
  <2> HIDE DEF e
  <2>3. /\ job' \in [Ext -> [state : {"none", "waiting", "active", "done", "failed"}, tries : 0..Attempts]]
        /\ \A x \in Ext : job'[x].state \in {"none", "waiting", "active"} => job'[x].tries < Attempts
    <3>1. CASE job' = job
      BY <3>1 DEF QueueFits
    <3>2. CASE job[e].state = "active" /\ job' = [job EXCEPT ![e] = Again(e)]
      <4>1. job[e].tries \in 0..Attempts /\ job[e].tries < Attempts
        BY <2>2, <3>2 DEF QueueFits
      <4>2. PICK n \in 1..Attempts : n = job[e].tries + 1
        BY <4>1, GeocoderAssumption
      <4>3. Again(e) = [state |-> IF n < Attempts THEN "waiting" ELSE "failed", tries |-> n]
        BY <4>2 DEF Again
      <4>4. PICK a \in [state : {"waiting", "failed"}, tries : 0..Attempts] :
               a = Again(e) /\ (a.state = "waiting" => a.tries < Attempts)
        BY <4>2, <4>3
      <4>5. job' = [job EXCEPT ![e] = a]
        BY <3>2, <4>4
      <4>6. job' \in [Ext -> [state : {"none", "waiting", "active", "done", "failed"}, tries : 0..Attempts]]
        BY <4>5 DEF QueueFits
      <4>7. \A x \in Ext : job'[x] = IF x = e THEN a ELSE job[x]
        BY <4>5 DEF QueueFits
      <4>8. \A x \in Ext : job'[x].state \in {"none", "waiting", "active"} => job'[x].tries < Attempts
        BY <4>4, <4>7 DEF QueueFits
      <4>9. QED
        BY <4>6, <4>8
    <3>3. QED
      BY <2>1, <3>1, <3>2
  <2>4. \A g \in Geocoder : slot'[g] = IF g = w THEN Resting ELSE slot[g]
    BY <2>1 DEF QueueFits
  <2>5. slot' \in [Geocoder -> {Resting} \cup [step : {"geocoding", "recording"}, of : Ext]]
    BY <2>1 DEF QueueFits
  <2>6. QueueFits'
    BY <1>1, <2>1, <2>3, <2>4, <2>5 DEF QueueFits
  <2>7. QED
    BY <2>1, <2>4, <2>6, LessWorkKeeps
<1>3. ASSUME NEW e \in Ext, Stall(e) PROVE WorkFits'
  <2>1. /\ job[e].state = "active" /\ job' = [job EXCEPT ![e].state = "waiting"]
        /\ UNCHANGED <<at, slot, pending>> /\ UNCHANGED result
    BY <1>3 DEF Stall
  <2>2. QueueFits'
    BY <2>1, JobMoves DEF QueueFits
  <2>3. QED
    BY <2>1, <2>2, LessWorkKeeps
<1>4. ASSUME TaskFails PROVE WorkFits'
  <2>1. /\ slot' = [slot EXCEPT ![Daily] = Resting] /\ pending' = {}
        /\ UNCHANGED <<at, job>> /\ UNCHANGED result
    BY <1>4 DEF TaskFails
  <2>2. \A g \in Geocoder : slot'[g] = IF g = Daily THEN Resting ELSE slot[g]
    BY <2>1 DEF QueueFits
  <2>3. QueueFits'
    BY <1>1, <2>1, <2>2 DEF QueueFits
  <2>4. QED
    BY <2>1, <2>2, <2>3, LessWorkKeeps
<1>5. QED
  BY <1>2, <1>3, <1>4

(* Every step of requests, workers, the daily task, users and faults.      *)
LEMMA WorkStep == WorkFits /\ [Next]_vars => WorkFits'
<1> SUFFICES ASSUME WorkFits, [Next]_vars PROVE WorkFits'
  OBVIOUS
<1>1. Daily \in Geocoder /\ Worker \subseteq Geocoder
  BY DEF Geocoder
<1>2. CASE \/ \E r \in Request : RequestStep(r) \/ HandlerFails(r)
           \/ CrashOfServer
           \/ \E k \in Key : KeyExpires(k)
           \/ \E e \in Ext : Neighbour(e)
  BY <1>2, RequestsKeepWork
<1>3. ASSUME NEW w \in Worker, WorkerStep(w) PROVE WorkFits'
  BY <1>1, <1>3, TakeKeepsWork, GeocodeKeepsWork, GeocodedKeepsWork DEF WorkerStep
<1>4. CASE TaskStep
  BY <1>1, <1>4, ScanKeepsWork, RoundKeepsWork, GeocodeKeepsWork, GeocodedKeepsWork DEF TaskStep
<1>5. CASE \E e \in Ext : TypeRoad(e)
  BY <1>5, TypeRoadKeepsWork
<1>6. CASE \/ \E w \in Worker : JobFails(w)
           \/ \E e \in Ext : Stall(e)
           \/ TaskFails
  BY <1>6, FaultsKeepWork
<1>7. CASE UNCHANGED vars
  BY <1>7 DEF vars, queue, result, WorkFits, QueueFits, ResultFits, GeocodersFit, Undisturbed
<1>8. QED
  BY <1>2, <1>3, <1>4, <1>5, <1>6, <1>7 DEF Next, Fault

(* Numbers, jobs, geocoders and roads fit together in every reachable      *)
(* state, whatever fails, stalls and is delivered twice.                   *)
THEOREM IngestInductive == Spec => [](NumbersFit /\ WorkFits)
<1>1. Init => NumbersFit /\ WorkFits
  BY NumbersInit, WorkInit
<1>2. NumbersFit /\ WorkFits /\ [Next]_vars => (NumbersFit /\ WorkFits)'
  BY NumbersStep, WorkStep
<1>3. QED
  BY <1>1, <1>2, PTL DEF Spec

(* Every variable keeps its type; no job has more attempts than it may,    *)
(* and there are not more numbers than cases.                              *)
THEOREM IngestTypes == Spec => []TypeOK
<1>1. IdemTypeOK /\ NumbersFit /\ WorkFits => TypeOK
  BY NumbersBounded DEF TypeOK, WorkFits, QueueFits, ResultFits
<1>2. QED
  BY <1>1, IngestInductive, IngestImplementsIdempotency, IdemTypes, PTL

(* A repeated job and the daily task write no second version of a road     *)
(* unless the road was written behind a geocoder's back, for every number  *)
(* of workers, cases and failures (process, addressGeocoder).              *)
THEOREM OneVersionPerRoad == Spec => []RepeatedJobWritesNoSecondVersion
<1>1. WorkFits => RepeatedJobWritesNoSecondVersion
  BY DEF WorkFits, GeocodersFit, Undisturbed, RepeatedJobWritesNoSecondVersion
<1>2. QED
  BY <1>1, IngestInductive, PTL

-----------------------------------------------------------------------------
(* addCase() takes next() as one step, inside its transaction.  That this  *)
(* is what the numbering promises: the cases are the lines of a ledger     *)
(* with one row, each entered by the transaction that stores it.           *)
CaseOf(n) == CHOOSE e \in Ext : number[e] = n

ProjectLedger == INSTANCE NumberLedger
    WITH Keys <- {"project"}, Tx <- Ext, SeedRows <- {}, Legacy <- [k \in {"project"} |-> 0],
         book <- [k \in {"project"} |-> [n \in 1..counter |-> CaseOf(n)]]

Lines == [k \in {"project"} |-> [n \in 1..counter |-> CaseOf(n)]]

(* A number names the case that carries it. *)
LEMMA CaseOfNumber ==
    ASSUME NumbersFit, NEW n \in 1..counter
    PROVE  /\ CaseOf(n) \in Ext /\ number[CaseOf(n)] = n
           /\ \A e \in Ext : number[e] = n => CaseOf(n) = e
<1>1. CaseOf(n) \in Ext /\ number[CaseOf(n)] = n
  BY DEF NumbersFit, CaseOf
<1>2. ASSUME NEW e \in Ext, number[e] = n PROVE CaseOf(n) = e
  <2>1. n # 0
    OBVIOUS
  <2>2. e \in Stored /\ CaseOf(n) \in Stored
    BY <1>1, <1>2, <2>1 DEF Stored
  <2>3. QED
    BY <1>1, <1>2, <2>2 DEF NumbersFit
<1>3. QED
  BY <1>1, <1>2

(* A transaction of addCase() enters one line at the end. *)
LEMMA InsertEnters ==
    ASSUME NumbersFit, NumbersFit', NEW e \in Ext, StoreCase(e)
    PROVE  ProjectLedger!LedgerNext
<1>2. /\ counter \in Nat /\ counter' = counter + 1
      /\ number' = [number EXCEPT ![e] = counter + 1]
      /\ number \in [Ext -> 0..counter]
      /\ e \notin Stored
  BY DEF StoreCase, NumbersFit, Storable, Fresh
<1>3. ASSUME NEW n \in 1..counter PROVE CaseOf(n)' = CaseOf(n) /\ CaseOf(n) # e /\ CaseOf(n) \in Ext
  <2>1. PICK x \in Ext : x = CaseOf(n) /\ number[x] = n
    BY CaseOfNumber
  <2>2. x # e
    BY <1>2, <2>1 DEF Stored
  <2>3. number'[x] = n /\ n \in 1..counter'
    BY <1>2, <2>1, <2>2
  <2>4. CaseOf(n)' = x
    <3>1. /\ CaseOf(n)' \in Ext /\ number'[CaseOf(n)'] = n
      BY <2>1, <2>3 DEF CaseOf
    <3>2. x \in Stored' /\ CaseOf(n)' \in Stored'
      BY <2>3, <3>1 DEF Stored
    <3>3. QED
      BY <2>3, <3>1, <3>2 DEF NumbersFit
  <2>5. QED
    BY <2>1, <2>2, <2>4
<1>4. ASSUME NEW n \in Nat, n = counter + 1 PROVE CaseOf(n)' = e
  <2>1. number'[e] = n
    BY <1>2, <1>4
  <2>2. \A x \in Ext : number'[x] = n => x = e
    BY <1>2, <1>4
  <2>3. CaseOf(n)' \in Ext /\ number'[CaseOf(n)'] = n
    BY <2>1 DEF CaseOf
  <2>4. QED
    BY <2>2, <2>3
<1>5. ASSUME NEW n \in 1..counter' PROVE CaseOf(n)' = IF n <= counter THEN CaseOf(n) ELSE e
  <2>1. CASE n <= counter
    BY <1>2, <1>3, <1>5, <2>1
  <2>2. CASE n > counter
    <3>1. n \in Nat /\ n = counter + 1
      BY <1>2, <1>5, <2>2
    <3>2. CaseOf(n)' = e
      BY <1>4, <3>1
    <3>3. ~ (n <= counter)
      BY <1>2, <2>2, <3>1
    <3>4. QED
      BY <3>2, <3>3
  <2>3. QED
    BY <1>2, <2>1, <2>2
<1>6. /\ Lines["project"] = [n \in 1..counter |-> CaseOf(n)]
      /\ Lines'["project"] = [n \in 1..counter' |-> CaseOf(n)']
  BY DEF Lines
<1>7. /\ Len(Lines["project"]) = counter /\ DOMAIN Lines["project"] = 1..counter
      /\ Len(Lines'["project"]) = counter' /\ DOMAIN Lines'["project"] = 1..counter'
  BY <1>2, <1>6
<1>8. ~ \E k \in {"project"} : \E n \in DOMAIN Lines[k] : Lines[k][n] = e
  <2>1. ASSUME NEW n \in 1..counter PROVE Lines["project"][n] # e
    BY <1>3, <1>6, <2>1
  <2>2. QED
    BY <1>7, <2>1
<1>9. Lines' # Lines
  BY <1>2, <1>7
<1>10. \A k \in {"project"} :
          /\ Len(Lines'[k]) >= Len(Lines[k])
          /\ \A n \in DOMAIN Lines'[k] : Lines'[k][n] = IF n <= Len(Lines[k]) THEN Lines[k][n] ELSE e
  <2>1. counter' >= counter
    BY <1>2
  <2>2. ASSUME NEW n \in 1..counter'
        PROVE  Lines'["project"][n] = IF n <= counter THEN Lines["project"][n] ELSE e
    BY <1>2, <1>5, <1>6, <2>2
  <2>3. QED
    BY <1>7, <2>1, <2>2
<1>11. ProjectLedger!Enter(e)
  BY <1>8, <1>9, <1>10 DEF ProjectLedger!Enter, ProjectLedger!Grows, ProjectLedger!Owns, Lines
<1>12. DOMAIN Lines' = {"project"} /\ \A k \in {"project"} : Lines'[k] \in Seq(Ext \cup {"legacy", "nobody"})
  <2>1. DOMAIN Lines' = {"project"}
    BY DEF Lines
  <2>2. \A n \in 1..counter' : CaseOf(n)' \in Ext \cup {"legacy", "nobody"}
    BY <1>2, <1>3, <1>5
  <2>3. Lines'["project"] \in [1..counter' -> Ext \cup {"legacy", "nobody"}]
    BY <1>6, <2>2
  <2>4. counter' \in Nat
    BY <1>2
  <2>5. Lines'["project"] \in Seq(Ext \cup {"legacy", "nobody"})
    BY <2>3, <2>4
  <2>6. QED
    BY <2>1, <2>5
<1>13. QED
  BY <1>11, <1>12 DEF ProjectLedger!LedgerNext, ProjectLedger!LegacyOwner, ProjectLedger!Nobody, Lines

(* The case numbers of a project are such a ledger, whatever fails: no     *)
(* number is skipped by a case that is refused, given twice, or changes    *)
(* its case (addCase, caseEncode.next).                                    *)
THEOREM CasesFormLedger == Spec => ProjectLedger!LedgerSpec
<1>1. Init => ProjectLedger!LedgerInit
  BY DEF Init, ProjectLedger!LedgerInit, ProjectLedger!LegacyOwner
<1>2. NumbersFit /\ NumbersFit' /\ [Next]_vars => ProjectLedger!LedgerNext \/ Lines' = Lines
  <2> SUFFICES ASSUME NumbersFit, NumbersFit', [Next]_vars
               PROVE  ProjectLedger!LedgerNext \/ Lines' = Lines
    OBVIOUS
  <2>1. CASE UNCHANGED rows
    BY <2>1 DEF rows, Lines, CaseOf
  <2>2. CASE \E e \in Ext : StoreCase(e)
    BY <2>2, InsertEnters
  <2>3. QED
    BY <2>1, <2>2, RowsOfStep
<1>3. NumbersFit /\ NumbersFit' /\ [Next]_vars
        => [ProjectLedger!LedgerNext]_[k \in {"project"} |-> [n \in 1..counter |-> CaseOf(n)]]
  BY <1>2 DEF Lines
<1>4. QED
  BY <1>1, <1>3, IngestInductive, PTL DEF Spec, ProjectLedger!LedgerSpec
=============================================================================
