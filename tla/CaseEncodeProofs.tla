-------------------------- MODULE CaseEncodeProofs --------------------------
(***************************************************************************)
(* Proofs about CaseEncode, for any set of transactions, any finite set of *)
(* counter rows and any batch length.                                      *)
(*                                                                         *)
(* A counter row that is locked still shows its committed value, which is  *)
(* the base of the holder's pool; every issued pool lies at or below the   *)
(* committed value.  So the pool of the next transaction to commit starts  *)
(* where the issued ones and the corrections end, and what a row has given *)
(* out or passed over are disjoint sets that leave no hole.                *)
(***************************************************************************)
EXTENDS CaseEncode, TLAPS, FiniteSetTheorems, WellFoundedInduction

-----------------------------------------------------------------------------
(* Lemmas about batches: what counting requests by row yields.             *)

(* A batch is a function on an initial interval of the positive numbers.   *)
LEMMA BatchShape ==
    ASSUME NEW b \in Batches
    PROVE  \E n \in Nat : DOMAIN b = 1..n /\ b \in [1..n -> Keys]
  <1>1. PICK n \in 1..MaxBatch : b \in [1..n -> Keys]
    BY DEF Batches
  <1> QED
    BY <1>1, BatchAssumption

(* The requests of a batch for one row are finitely many, and none when    *)
(* the row does not occur in the batch.                                    *)
LEMMA NeedType ==
    ASSUME NEW b \in Batches, NEW k \in Keys
    PROVE  /\ IsFiniteSet({i \in DOMAIN b : b[i] = k})
           /\ Need(b, k) \in Nat
           /\ k \notin {b[i] : i \in DOMAIN b} => Need(b, k) = 0
  <1>1. PICK n \in Nat : DOMAIN b = 1..n
    BY BatchShape
  <1>2. IsFiniteSet(DOMAIN b)
    BY <1>1, FS_Interval
  <1>3. IsFiniteSet({i \in DOMAIN b : b[i] = k})
    BY <1>2, FS_Subset
  <1>4. Need(b, k) \in Nat
    BY <1>3, FS_CardinalityType DEF Need
  <1>5. ASSUME k \notin {b[i] : i \in DOMAIN b} PROVE Need(b, k) = 0
    <2>1. {i \in DOMAIN b : b[i] = k} = {}
      BY <1>5
    <2> QED
      BY <2>1, FS_EmptySet DEF Need
  <1> QED
    BY <1>3, <1>4, <1>5

(* The position of a request among those for its row lies in its pool.     *)
LEMMA NthBounds ==
    ASSUME NEW b \in Batches, NEW i \in DOMAIN b
    PROVE  /\ IsFiniteSet({j \in 1..i : b[j] = b[i]})
           /\ Nth(b, i) \in 1..Need(b, b[i])
  <1> DEFINE S == {j \in 1..i : b[j] = b[i]}
             T == {j \in DOMAIN b : b[j] = b[i]}
  <1>1. PICK n \in Nat : DOMAIN b = 1..n /\ b \in [1..n -> Keys]
    BY BatchShape
  <1>2. b[i] \in Keys
    BY <1>1
  <1>3. IsFiniteSet(T) /\ Cardinality(T) \in Nat
    BY <1>2, NeedType DEF Need
  <1>4. S \in SUBSET T
    BY <1>1
  <1>5. IsFiniteSet(S) /\ Cardinality(S) <= Cardinality(T)
    BY <1>3, <1>4, FS_Subset
  <1>6. Cardinality(S) \in Nat
    BY <1>5, FS_CardinalityType
  <1>7. i \in S
    BY <1>1
  <1>8. Cardinality(S) # 0
    BY <1>5, <1>7, FS_EmptySet
  <1> QED
    BY <1>3, <1>5, <1>6, <1>8 DEF Nth, Need

(* Two requests of a batch for the same row have different positions.      *)
LEMMA NthInjective ==
    ASSUME NEW b \in Batches, NEW i \in DOMAIN b, NEW j \in DOMAIN b,
           b[i] = b[j], Nth(b, i) = Nth(b, j)
    PROVE  i = j
  <1>1. PICK n \in Nat : DOMAIN b = 1..n
    BY BatchShape
  <1>2. ASSUME NEW x \in DOMAIN b, NEW y \in DOMAIN b, b[x] = b[y], x < y
        PROVE  Nth(b, x) # Nth(b, y)
    <2> DEFINE S == {m \in 1..x : b[m] = b[x]}
               T == {m \in 1..y : b[m] = b[y]}
    <2>1. S \in SUBSET T /\ y \in T /\ y \notin S
      BY <1>1, <1>2
    <2>2. IsFiniteSet(T)
      BY NthBounds
    <2>3. Cardinality(S) # Cardinality(T)
      BY <2>1, <2>2, FS_Subset
    <2> QED
      BY <2>3 DEF Nth
  <1> QED
    BY <1>1, <1>2

-----------------------------------------------------------------------------
(* The inductive invariant, in named parts.                                *)

Rows(t) == {reqs[t][i] : i \in DOMAIN reqs[t]}
End(t, k) == base[t][k] + Need(reqs[t], k)

(* A transaction that has started and has not failed has a batch; accounts *)
(* of the seed script ask for its rows, and only they are ever loose.      *)
BatchInv ==
    \A t \in Tx :
        /\ pc[t] \notin {"idle", "aborted"} => reqs[t] \in Batches
        /\ t \in Bare => Rows(t) \subseteq SeedRows
        /\ pc[t] \in {"loose", "lost"} => t \in Bare

(* Between its first row and its end a transaction holds exactly the rows  *)
(* of its batch that it has raised, and their committed value stands still.*)
LockInv ==
    \A t \in Tx, k \in Keys :
        /\ holder[k] = t => /\ pc[t] \in {"raising", "taken"}
                            /\ base[t][k] = last[k]
                            /\ k \in Rows(t)
        /\ k \in todo[t] => k \in Rows(t)
        /\ pc[t] \in {"raising", "taken"} /\ k \in Rows(t)
              => k \in todo[t] \/ holder[k] = t
        /\ pc[t] = "taken" => todo[t] = {}

(* The counters never fall below what was in use; the seed script locks    *)
(* only its own rows.                                                      *)
FloorInv == \A k \in Keys : Legacy[k] <= last[k] /\ (holder[k] = "script" => k \in SeedRows)

(* An issued pool lies above the legacy numbers and within the counter. *)
IssuedInv ==
    \A t \in Issued : \A k \in Rows(t) :
        Legacy[k] <= base[t][k] /\ End(t, k) <= last[k]

(* Issued pools of one row do not overlap. *)
DisjointInv ==
    \A t, u \in Issued : \A k \in Rows(t) \cap Rows(u) :
        t # u => End(t, k) <= base[u][k] \/ End(u, k) <= base[t][k]

(* Every number up to the counter is legacy, issued or passed over. *)
Given(k) == UNION {Pool(t, k) : t \in Issued}
CoverInv == \A k \in Keys : 1..Legacy[k] \cup Given(k) \cup jumped[k] = 1..last[k]

(* What a correction has passed over was given to nobody, lies on a row of *)
(* the seed script, and ...                                                *)
JumpInv ==
    \A k \in Keys :
        /\ k \notin SeedRows => jumped[k] = {}
        /\ \A n \in jumped[k] : n > Legacy[k] /\ \A t \in Issued : n \notin Pool(t, k)

(* ... below a number in use, as what the script has read does.            *)
Reached(k, n) == \E j \in Years[k] : \E m \in InUse(j) : n <= m
ReadInv ==
    /\ \A k \in SeedRows : seen[k] = 0 \/ Reached(k, seen[k])
    /\ \A k \in SeedRows : \A n \in jumped[k] : Reached(k, n)

IInv ==
    /\ TypeOK /\ BatchInv /\ LockInv /\ FloorInv
    /\ IssuedInv /\ DisjointInv
    /\ CoverInv /\ JumpInv /\ ReadInv

-----------------------------------------------------------------------------
LEMMA IInvInit == Init => IInv
  <1> SUFFICES ASSUME Init PROVE IInv
    OBVIOUS
  <1>1. TypeOK /\ FloorInv
    BY LegacyAssumption, NoTxAssumption DEF Init, TypeOK, FloorInv
  <1>2. BatchInv /\ LockInv
    BY NoTxAssumption DEF Init, BatchInv, LockInv, Rows
  <1>3. Issued = {}
    BY DEF Init, Issued
  <1>4. IssuedInv /\ DisjointInv
    BY <1>3 DEF IssuedInv, DisjointInv
  <1>5. CoverInv /\ JumpInv /\ ReadInv
    BY <1>3, SeedAssumption DEF CoverInv, Given, JumpInv, ReadInv, Init
  <1> QED
    BY <1>1, <1>2, <1>4, <1>5 DEF IInv

(* Steps that change no counter, no batch and no pool of an issued         *)
(* transaction, and issue none, leave alone what is said of the pools.     *)
LEMMA PoolsStand ==
    ASSUME Issued' = Issued, Committed \subseteq Committed', Committed \subseteq Issued,
           \A u \in Issued : reqs'[u] = reqs[u] /\ base'[u] = base[u],
           UNCHANGED <<last, jumped>>
    PROVE  /\ \A u \in Issued : /\ Rows(u)' = Rows(u)
                                /\ \A k : End(u, k)' = End(u, k) /\ Pool(u, k)' = Pool(u, k)
           /\ \A k : InUse(k) \subseteq InUse(k)'
           /\ \A k, n : Reached(k, n) => Reached(k, n)'
           /\ IssuedInv => IssuedInv'
           /\ DisjointInv => DisjointInv'
           /\ CoverInv => CoverInv'
           /\ JumpInv => JumpInv'
  <1>1. \A u \in Issued : /\ Rows(u)' = Rows(u)
                          /\ \A k : End(u, k)' = End(u, k) /\ Pool(u, k)' = Pool(u, k)
    BY DEF Rows, End, Pool
  <1>2. \A k : InUse(k) \subseteq InUse(k)'
    BY <1>1 DEF InUse
  <1>3. \A k, n : Reached(k, n) => Reached(k, n)'
    BY <1>2 DEF Reached
  <1>4. IssuedInv => IssuedInv'
    BY <1>1 DEF IssuedInv
  <1>5. DisjointInv => DisjointInv'
    BY <1>1 DEF DisjointInv
  <1>6. CoverInv => CoverInv'
    <2>1. \A k : Given(k)' = Given(k)
      BY <1>1 DEF Given
    <2> QED
      BY <2>1 DEF CoverInv
  <1>7. JumpInv => JumpInv'
    BY <1>1 DEF JumpInv
  <1> QED
    BY <1>1, <1>2, <1>3, <1>4, <1>5, <1>6, <1>7

LEMMA CommittedIsIssued == Committed \subseteq Issued
  BY DEF Committed, Issued

(* With it, a step that leaves what the script has read keeps all of these.*)
LEMMA PoolInvStands ==
    ASSUME IInv, Issued' = Issued, Committed \subseteq Committed',
           \A u \in Issued : reqs'[u] = reqs[u] /\ base'[u] = base[u],
           UNCHANGED <<last, jumped>>,
           \A k \in SeedRows : seen'[k] \in {0, seen[k]} \/ Reached(k, seen'[k])
    PROVE  IssuedInv' /\ DisjointInv' /\ CoverInv' /\ JumpInv' /\ ReadInv'
  <1>1. IssuedInv' /\ DisjointInv' /\ CoverInv' /\ JumpInv'
    BY PoolsStand, CommittedIsIssued DEF IInv
  <1>2. \A k, n : Reached(k, n) => Reached(k, n)'
    BY PoolsStand, CommittedIsIssued
  <1>3. ReadInv'
    BY <1>2 DEF IInv, ReadInv
  <1> QED
    BY <1>1, <1>3

(* Sending a statement touches neither the counters nor any pool. *)
LEMMA IInvSend ==
    ASSUME IInv, NEW t \in Tx, NEW b \in Batches, Send(t, b)
    PROVE  IInv'
  <1> USE DEF IInv
  <1>1. {b[i] : i \in DOMAIN b} \subseteq Keys
    BY BatchShape
  <1>2. TypeOK'
    BY <1>1 DEF Send, TypeOK
  <1>3. \A u \in Tx : u # t => Rows(u)' = Rows(u) /\ reqs'[u] = reqs[u]
    BY DEF Send, TypeOK, Rows
  <1>4. Rows(t)' = {b[i] : i \in DOMAIN b} /\ todo'[t] = {b[i] : i \in DOMAIN b} /\ pc'[t] = "raising"
    BY DEF Send, TypeOK, Rows
  <1>5. t \in Bare => Rows(t)' \subseteq SeedRows
    <2> SUFFICES ASSUME t \in Bare PROVE {b[i] : i \in DOMAIN b} \subseteq SeedRows
      BY <1>4
    <2>1. PICK n \in 1..MaxBatch : b \in [1..n -> Keys]
      BY DEF Batches
    <2>2. DOMAIN b = 1..n /\ Len(b) = n /\ n \in Nat \ {0}
      BY <2>1, BatchAssumption
    <2>3. b[1] \in SeedRows /\ Len(b) = 1
      BY <2>2 DEF Send, MayAsk
    <2> QED
      BY <2>2, <2>3
  <1>6. BatchInv'
    BY <1>3, <1>5 DEF Send, TypeOK, BatchInv
  <1>7. LockInv'
    <2>1. \A k \in Keys : holder[k] # t
      BY DEF Send, LockInv
    <2> QED
      BY <1>3, <1>4, <2>1 DEF Send, TypeOK, LockInv
  <1>8. FloorInv'
    BY DEF Send, FloorInv
  <1>9. Issued' = Issued /\ Committed' = Committed /\ t \notin Issued
    BY DEF Send, TypeOK, Committed, Issued
  <1>10. \A u \in Issued : reqs'[u] = reqs[u] /\ base'[u] = base[u]
    BY <1>3, <1>9 DEF Send, Issued
  <1>11. IssuedInv' /\ DisjointInv' /\ CoverInv' /\ JumpInv' /\ ReadInv'
    BY <1>9, <1>10, PoolInvStands DEF Send
  <1> QED
    BY <1>2, <1>6, <1>7, <1>8, <1>11

(* Raising a row records its committed value and changes no counter. *)
LEMMA IInvRaise ==
    ASSUME IInv, NEW t \in Tx, NEW k \in Keys, Raise(t, k)
    PROVE  IInv'
  <1> USE DEF IInv
  <1>1. TypeOK'
    BY DEF Raise, TypeOK
  <1>2. UNCHANGED reqs /\ \A u : Rows(u)' = Rows(u)
    BY DEF Raise, Rows
  <1>3. BatchInv'
    BY <1>2 DEF Raise, TypeOK, BatchInv
  <1>4. Issued' = Issued /\ Committed' = Committed /\ t \notin Issued
    BY DEF Raise, TypeOK, Committed, Issued
  <1>5. \A u \in Issued : reqs'[u] = reqs[u] /\ base'[u] = base[u]
    BY <1>4 DEF Raise, TypeOK, Issued
  <1>6. k \in Rows(t)
    BY DEF Raise, IsNext, LockInv
  <1>7. LockInv'
    <2> SUFFICES ASSUME NEW u \in Tx, NEW j \in Keys
                 PROVE  /\ holder'[j] = u => /\ pc'[u] \in {"raising", "taken"}
                                             /\ base'[u][j] = last'[j]
                                             /\ j \in Rows(u)'
                        /\ j \in todo'[u] => j \in Rows(u)'
                        /\ pc'[u] \in {"raising", "taken"} /\ j \in Rows(u)'
                              => j \in todo'[u] \/ holder'[j] = u
                        /\ pc'[u] = "taken" => todo'[u] = {}
      BY DEF LockInv
    <2> QED
      BY <1>2, <1>6, NoTxAssumption DEF Raise, TypeOK, LockInv
  <1>8. FloorInv'
    BY TxAssumption DEF Raise, FloorInv, TypeOK
  <1>9. IssuedInv' /\ DisjointInv' /\ CoverInv' /\ JumpInv' /\ ReadInv'
    BY <1>4, <1>5, PoolInvStands DEF Raise
  <1> QED
    BY <1>1, <1>3, <1>7, <1>8, <1>9

(* A transaction that fails takes its pool with it. *)
LEMMA IInvRollback ==
    ASSUME IInv, NEW t \in Tx, Rollback(t)
    PROVE  IInv'
  <1> USE DEF IInv
  <1>1. TypeOK'
    BY DEF Rollback, TypeOK
  <1>2. \A u \in Tx : u # t => Rows(u)' = Rows(u) /\ reqs'[u] = reqs[u] /\ base'[u] = base[u]
    BY DEF Rollback, TypeOK, Rows
  <1>3. Rows(t)' = {}
    BY DEF Rollback, TypeOK, Rows
  <1>4. BatchInv'
    BY <1>2, <1>3 DEF Rollback, TypeOK, BatchInv
  <1>5. Issued' = Issued /\ Committed' = Committed /\ t \notin Issued
    BY DEF Rollback, TypeOK, Committed, Issued
  <1>6. \A u \in Issued : reqs'[u] = reqs[u] /\ base'[u] = base[u]
    BY <1>2, <1>5 DEF Issued
  <1>7. LockInv'
    BY <1>2, NoTxAssumption DEF Rollback, TypeOK, LockInv
  <1>8. FloorInv'
    BY NoTxAssumption DEF Rollback, FloorInv
  <1>9. IssuedInv' /\ DisjointInv' /\ CoverInv' /\ JumpInv' /\ ReadInv'
    BY <1>5, <1>6, PoolInvStands DEF Rollback
  <1> QED
    BY <1>1, <1>4, <1>7, <1>8, <1>9

(* What a commit does to the counters: those of its rows move from the     *)
(* base of its pool to its end, the others stand.                          *)
LEMMA CommitMoves ==
    ASSUME IInv, NEW t \in Tx, Commit(t)
    PROVE  /\ \A k \in Keys : last[k] \in Nat /\ last'[k] \in Nat /\ last[k] <= last'[k]
           /\ \A k \in Rows(t) : k \in Keys /\ base[t][k] = last[k] /\ End(t, k) = last'[k]
           /\ \A k \in Keys : Pool(t, k) = last[k] + 1 .. last'[k]
           /\ \E k \in Keys : last'[k] # last[k]
           /\ t \notin Issued /\ Issued' = Issued \cup {t} /\ Committed \subseteq Committed'
           /\ \A u : /\ Rows(u)' = Rows(u)
                     /\ \A k : End(u, k)' = End(u, k) /\ Pool(u, k)' = Pool(u, k)
  <1> USE DEF IInv
  <1>1. reqs[t] \in Batches /\ \A k \in Keys : Need(reqs[t], k) \in Nat
    BY NeedType DEF BatchInv, Commit
  <1>2. \A k \in Keys : k \in Rows(t) <=> holder[k] = t
    BY DEF Commit, LockInv
  <1>3. UNCHANGED <<reqs, base>>
    BY DEF Commit
  <1>4. t \notin Issued /\ Issued' = Issued \cup {t} /\ Committed \subseteq Committed'
    BY DEF Commit, TypeOK, Committed, Issued
  <1>5. \A u : /\ Rows(u)' = Rows(u)
               /\ \A k : End(u, k)' = End(u, k) /\ Pool(u, k)' = Pool(u, k)
    BY <1>3 DEF Rows, End, Pool
  <1>6. ASSUME NEW k \in Keys, k \in Rows(t)
        PROVE  base[t][k] = last[k] /\ last'[k] = last[k] + Need(reqs[t], k)
    BY <1>2, <1>6 DEF Commit, LockInv
  <1>7. ASSUME NEW k \in Keys, k \notin Rows(t) PROVE last'[k] = last[k]
    BY <1>2, <1>7 DEF Commit
  <1>8. ASSUME NEW k \in Keys
        PROVE  /\ last[k] \in Nat /\ last'[k] \in Nat /\ last[k] <= last'[k]
               /\ Pool(t, k) = last[k] + 1 .. last'[k]
    <2>1. last[k] \in Nat /\ base[t][k] \in Nat
      BY DEF TypeOK
    <2>2. CASE k \in Rows(t)
      BY <2>1, <2>2, <1>1, <1>6 DEF Pool
    <2>3. CASE k \notin Rows(t)
      <3>1. Need(reqs[t], k) = 0
        BY <2>3, <1>1, NeedType DEF Rows
      <3> QED
        BY <3>1, <2>1, <2>3, <1>7 DEF Pool
    <2> QED
      BY <2>2, <2>3
  <1>9. \A k \in Rows(t) : k \in Keys /\ base[t][k] = last[k] /\ End(t, k) = last'[k]
    <2>1. Rows(t) \subseteq Keys
      BY <1>1, BatchShape DEF Rows
    <2> QED
      BY <2>1, <1>6 DEF End
  <1>10. \E k \in Keys : last'[k] # last[k]
    <2>1. PICK n \in 1..MaxBatch : reqs[t] \in [1..n -> Keys]
      BY <1>1 DEF Batches
    <2>2. 1 \in DOMAIN reqs[t]
      BY <2>1, BatchAssumption
    <2>3. reqs[t][1] \in Keys /\ reqs[t][1] \in Rows(t)
      BY <2>1, <2>2 DEF Rows
    <2>4. Nth(reqs[t], 1) \in 1..Need(reqs[t], reqs[t][1])
      BY <1>1, <2>2, NthBounds
    <2>5. Need(reqs[t], reqs[t][1]) >= 1
      BY <2>3, <2>4, <1>1
    <2> QED
      BY <2>3, <2>5, <1>1, <1>6, <1>8
  <1> QED
    BY <1>4, <1>5, <1>8, <1>9, <1>10

(* The numbers and counters of issued transactions are natural numbers. *)
LEMMA IssuedType ==
    ASSUME IInv, NEW u \in Issued, NEW k \in Keys
    PROVE  /\ Rows(u) \subseteq Keys
           /\ base[u][k] \in Nat /\ End(u, k) \in Nat
           /\ Pool(u, k) = base[u][k] + 1 .. End(u, k)
           /\ k \notin Rows(u) => Pool(u, k) = {}
           /\ Pool(u, k) \subseteq 1..last[k]
  <1> USE DEF IInv
  <1>1. reqs[u] \in Batches /\ base[u][k] \in Nat
    BY DEF BatchInv, TypeOK, Issued
  <1>2. Need(reqs[u], k) \in Nat /\ (k \notin Rows(u) => Need(reqs[u], k) = 0)
    BY <1>1, NeedType DEF Rows
  <1>3. Rows(u) \subseteq Keys
    BY <1>1, BatchShape DEF Rows
  <1>4. base[u][k] \in Nat /\ End(u, k) \in Nat /\ Pool(u, k) = base[u][k] + 1 .. End(u, k)
    BY <1>1, <1>2 DEF End, Pool
  <1>5. k \notin Rows(u) => Pool(u, k) = {}
    BY <1>1, <1>2 DEF Pool
  <1>6. Pool(u, k) \subseteq 1..last[k]
    <2>1. Pool(u, k) \subseteq Given(k)
      BY DEF Given
    <2>2. Given(k) \subseteq 1..last[k]
      BY DEF CoverInv
    <2> QED
      BY <2>1, <2>2
  <1> QED
    BY <1>3, <1>4, <1>5, <1>6

LEMMA InUseBelow ==
    ASSUME IInv, NEW k \in Keys
    PROVE  InUse(k) \subseteq 1..last[k]
  <1>1. InUse(k) \subseteq 1..Legacy[k] \cup Given(k)
    BY CommittedIsIssued DEF InUse, Given
  <1>2. 1..Legacy[k] \cup Given(k) \cup jumped[k] = 1..last[k]
    BY DEF IInv, CoverInv
  <1> QED
    BY <1>1, <1>2

LEMMA JumpedBelow ==
    ASSUME IInv, NEW k \in Keys
    PROVE  jumped[k] \subseteq 1..last[k]
  <1>1. 1..Legacy[k] \cup Given(k) \cup jumped[k] = 1..last[k]
    BY DEF IInv, CoverInv
  <1> QED
    BY <1>1

(* The pool of a transaction that commits starts where the issued pools    *)
(* and the corrections of the row end, and the counter moves to its end.   *)
LEMMA IInvCommit ==
    ASSUME IInv, NEW t \in Tx, Commit(t)
    PROVE  IInv'
  <1> USE DEF IInv
  <1>1. /\ \A k \in Keys : last[k] \in Nat /\ last'[k] \in Nat /\ last[k] <= last'[k]
        /\ \A k \in Rows(t) : k \in Keys /\ base[t][k] = last[k] /\ End(t, k) = last'[k]
        /\ \A k \in Keys : Pool(t, k) = last[k] + 1 .. last'[k]
        /\ t \notin Issued /\ Issued' = Issued \cup {t} /\ Committed \subseteq Committed'
        /\ \A u : /\ Rows(u)' = Rows(u)
                  /\ \A k : End(u, k)' = End(u, k) /\ Pool(u, k)' = Pool(u, k)
    BY CommitMoves
  <1>2. UNCHANGED <<reqs, todo, base, seen, left, jumped>>
    BY DEF Commit
  <1>3. TypeOK'
    <2>1. last' \in [Keys -> Nat]
      BY <1>1 DEF Commit
    <2> QED
      BY <2>1 DEF Commit, TypeOK
  <1>4. BatchInv'
    BY <1>1, <1>2 DEF Commit, TypeOK, BatchInv
  <1>5. LockInv'
    <2> SUFFICES ASSUME NEW u \in Tx, NEW j \in Keys
                 PROVE  /\ holder'[j] = u => /\ pc'[u] \in {"raising", "taken"}
                                             /\ base'[u][j] = last'[j]
                                             /\ j \in Rows(u)'
                        /\ j \in todo'[u] => j \in Rows(u)'
                        /\ pc'[u] \in {"raising", "taken"} /\ j \in Rows(u)'
                              => j \in todo'[u] \/ holder'[j] = u
                        /\ pc'[u] = "taken" => todo'[u] = {}
      BY DEF LockInv
    <2> QED
      BY <1>1, <1>2, NoTxAssumption DEF Commit, TypeOK, LockInv
  <1>6. FloorInv'
    <2> SUFFICES ASSUME NEW k \in Keys
                 PROVE  Legacy[k] <= last'[k] /\ (holder'[k] = "script" => k \in SeedRows)
      BY DEF FloorInv
    <2>1. Legacy[k] \in Nat
      BY LegacyAssumption
    <2>2. holder'[k] = "script" => holder[k] = "script"
      BY NoTxAssumption DEF Commit
    <2> QED
      BY <1>1, <2>1, <2>2 DEF FloorInv
  <1>7. IssuedInv'
    <2> SUFFICES ASSUME NEW u \in Issued \cup {t}, NEW k \in Rows(u)
                 PROVE  Legacy[k] <= base[u][k] /\ End(u, k) <= last'[k]
      BY <1>1, <1>2 DEF IssuedInv
    <2>1. CASE u = t
      BY <2>1, <1>1 DEF FloorInv
    <2>2. CASE u \in Issued
      <3>1. Rows(u) \subseteq Keys
        BY <2>2, BatchShape DEF BatchInv, Issued, Rows
      <3>2. Legacy[k] <= base[u][k] /\ End(u, k) <= last[k]
        BY <2>2 DEF IssuedInv
      <3>3. End(u, k) \in Nat /\ last[k] \in Nat /\ last'[k] \in Nat /\ last[k] <= last'[k]
        BY <2>2, <3>1, <1>1, IssuedType
      <3> QED
        BY <3>2, <3>3
    <2> QED
      BY <2>1, <2>2
  <1>8. DisjointInv'
    <2>1. \A u \in Issued : \A k \in Rows(u) \cap Rows(t) : End(u, k) <= base[t][k]
      BY <1>1 DEF IssuedInv
    <2> QED
      BY <2>1, <1>1, <1>2 DEF DisjointInv
  <1>9. CoverInv'
    <2> SUFFICES ASSUME NEW k \in Keys
                 PROVE  1..Legacy[k] \cup Given(k)' \cup jumped'[k] = 1..last'[k]
      BY DEF CoverInv
    <2>1. Given(k)' = Given(k) \cup Pool(t, k)
      <3>1. \A n : n \in Given(k)' <=> \E u \in Issued' : n \in Pool(u, k)'
        BY DEF Given
      <3>2. \A n : n \in Given(k) <=> \E u \in Issued : n \in Pool(u, k)
        BY DEF Given
      <3> QED
        BY <3>1, <3>2, <1>1
    <2>2. 1..last'[k] = 1..last[k] \cup last[k] + 1 .. last'[k]
      <3>1. last[k] \in Nat /\ last'[k] \in Nat /\ last[k] <= last'[k]
        BY <1>1
      <3> QED
        BY <3>1
    <2> QED
      BY <2>1, <2>2, <1>1, <1>2 DEF CoverInv
  <1>10. JumpInv'
    <2>1. \A k \in Keys : \A n \in jumped[k] : n \notin Pool(t, k)
      <3> SUFFICES ASSUME NEW k \in Keys, NEW n \in jumped[k] PROVE n \notin Pool(t, k)
        OBVIOUS
      <3>1. n \in 1..last[k]
        BY JumpedBelow
      <3>2. last[k] \in Nat /\ last'[k] \in Nat /\ Pool(t, k) = last[k] + 1 .. last'[k]
        BY <1>1
      <3> QED
        BY <3>1, <3>2
    <2> QED
      BY <2>1, <1>1, <1>2 DEF JumpInv
  <1>11. ReadInv'
    <2>1. \A k : InUse(k) \subseteq InUse(k)'
      BY <1>1 DEF InUse
    <2>2. \A k, n : Reached(k, n) => Reached(k, n)'
      BY <2>1 DEF Reached
    <2> QED
      BY <2>2, <1>2 DEF ReadInv
  <1> QED
    BY <1>3, <1>4, <1>5, <1>6, <1>7, <1>8, <1>9, <1>10, <1>11

(* Saving a user, or not, moves no counter. *)
LEMMA IInvSaveUser ==
    ASSUME IInv, NEW t \in Tx, SaveUser(t)
    PROVE  IInv'
  <1> USE DEF IInv
  <1>1. UNCHANGED <<last, holder, reqs, todo, base, seen, left, jumped>>
    BY DEF SaveUser
  <1>2. Issued' = Issued /\ Committed \subseteq Committed'
    BY DEF SaveUser, TypeOK, Committed, Issued
  <1>3. TypeOK' /\ FloorInv' /\ \A u : Rows(u)' = Rows(u)
    BY <1>1 DEF SaveUser, TypeOK, FloorInv, Rows
  <1>4. BatchInv'
    BY <1>1, <1>3 DEF SaveUser, TypeOK, BatchInv
  <1>5. LockInv'
    BY <1>1, <1>3 DEF SaveUser, TypeOK, LockInv
  <1>6. IssuedInv' /\ DisjointInv' /\ CoverInv' /\ JumpInv' /\ ReadInv'
    BY <1>1, <1>2, PoolInvStands
  <1> QED
    BY <1>3, <1>4, <1>5, <1>6

-----------------------------------------------------------------------------
(* The correction of the seed script.                                      *)

(* A finite set of natural numbers that is not empty has a greatest one:   *)
(* a smallest subset without one would still lack one without any element. *)
LEMMA FiniteMax ==
    ASSUME NEW S, S \subseteq Nat, IsFiniteSet(S), S # {}
    PROVE  Max(S) \in S /\ \A y \in S : Max(S) >= y
  <1> DEFINE Tops(A) == \E x \in A : \A y \in A : x >= y
             Bad == {A \in SUBSET S : A # {} /\ ~ Tops(A)}
  <1>1. Bad = {}
    <2> SUFFICES ASSUME Bad # {} PROVE FALSE
      OBVIOUS
    <2>1. Bad \subseteq FiniteSubsetsOf(S)
      BY FS_FiniteSubsetsOfFinite
    <2>2. PICK A \in Bad : \A B \in Bad : <<B, A>> \notin StrictSubsetOrdering(S)
      <3> HIDE DEF Bad
      <3> QED
        BY <2>1, FS_StrictSubsetOrderingWellFounded, WFMin
    <2>3. PICK a \in A : TRUE
      BY <2>2
    <2> DEFINE B == A \ {a}
    <2>4. B \subseteq A /\ B # A /\ B \in SUBSET S /\ A \in SUBSET S
      BY <2>2, <2>3
    <2>5. <<B, A>> \in StrictSubsetOrdering(S)
      BY <2>4 DEF StrictSubsetOrdering
    <2>6. B = {} \/ Tops(B)
      BY <2>2, <2>4, <2>5
    <2>7. Tops(A)
      <3>1. A \subseteq Nat /\ a \in Nat /\ A = B \cup {a}
        BY <2>3, <2>4
      <3>2. CASE B = {}
        <4>1. A = {a}
          BY <3>1, <3>2
        <4> QED
          BY <4>1, <3>1
      <3>3. CASE Tops(B)
        <4>1. PICK x \in B : \A y \in B : x >= y
          BY <3>3
        <4>2. x >= a \/ a >= x
          BY <3>1, <4>1
        <4>3. CASE x >= a
          BY <4>1, <4>3, <3>1
        <4>4. CASE a >= x
          <5>1. \A y \in B : a >= y
            BY <3>1, <4>1, <4>4
          <5> QED
            BY <5>1, <3>1, <2>3
        <4> QED
          BY <4>2, <4>3, <4>4
      <3> QED
        BY <2>6, <3>2, <3>3
    <2> QED
      BY <2>2, <2>7
  <1>2. Tops(S)
    BY <1>1
  <1> QED
    BY <1>2 DEF Max

(* What the script reads is 0 or a number in use of the company. *)
LEMMA HighestReached ==
    ASSUME IInv, NEW k \in SeedRows
    PROVE  Highest[k] \in Nat /\ (Highest[k] = 0 \/ Reached(k, Highest[k]))
  <1> USE DEF IInv
  <1> DEFINE Used == UNION {InUse(j) : j \in Years[k]}
  <1>1. Years[k] \subseteq Keys /\ IsFiniteSet(Years[k])
    BY YearsAssumption, KeysAssumption, FS_Subset
  <1>2. ASSUME NEW j \in Years[k] PROVE InUse(j) \subseteq Nat /\ IsFiniteSet(InUse(j))
    <2>1. InUse(j) \subseteq 1..last[j] /\ last[j] \in Nat
      BY <1>1, InUseBelow DEF TypeOK
    <2>2. IsFiniteSet(1..last[j])
      BY <2>1, FS_Interval
    <2> QED
      BY <2>1, <2>2, FS_Subset
  <1>3. IsFiniteSet({InUse(j) : j \in Years[k]})
    <2> DEFINE f == [j \in Years[k] |-> InUse(j)]
    <2>1. {InUse(j) : j \in Years[k]} = {f[j] : j \in Years[k]}
      OBVIOUS
    <2>2. f \in Surjection(Years[k], {f[j] : j \in Years[k]})
      BY DEF Surjection
    <2> QED
      BY <1>1, <2>1, <2>2, FS_Surjection
  <1>4. IsFiniteSet(Used) /\ Used \subseteq Nat
    BY <1>2, <1>3, FS_UNION
  <1>5. IsFiniteSet({0} \cup Used)
    <2>1. IsFiniteSet(Used \cup {0})
      BY <1>4, FS_AddElement
    <2>2. Used \cup {0} = {0} \cup Used
      OBVIOUS
    <2> QED
      BY <2>1, <2>2
  <1> DEFINE All == {0} \cup Used
  <1>6. All \subseteq Nat /\ All # {} /\ IsFiniteSet(All)
    BY <1>4, <1>5
  <1>7. Max(All) \in All
    <2> HIDE DEF All
    <2> QED
      BY <1>6, FiniteMax
  <1>8. Highest[k] = Max(All)
    BY DEF Highest
  <1>9. Highest[k] \in All
    BY <1>7, <1>8
  <1>10. Highest[k] \in Nat
    <2> HIDE DEF All
    <2> QED
      BY <1>6, <1>9
  <1>11. Highest[k] = 0 \/ \E j \in Years[k] : Highest[k] \in InUse(j)
    BY <1>9
  <1> QED
    BY <1>10, <1>11 DEF Reached

(* A step of the script that leaves every transaction alone keeps what is  *)
(* said of their locks, when no row they hold changes hands.               *)
LEMMA ScriptKeepsLocks ==
    ASSUME IInv, UNCHANGED <<pc, reqs, todo, base>>,
           \A k \in Keys : holder'[k] \in Tx \/ holder[k] \in Tx
                              => holder'[k] = holder[k] /\ last'[k] = last[k]
    PROVE  BatchInv' /\ LockInv' /\ Issued' = Issued /\ Committed' = Committed
  <1> USE DEF IInv
  <1>1. \A u : Rows(u)' = Rows(u)
    BY DEF Rows
  <1>2. BatchInv'
    BY <1>1 DEF BatchInv
  <1>3. LockInv'
    BY <1>1 DEF LockInv
  <1> QED
    BY <1>2, <1>3 DEF Issued, Committed

LEMMA IInvReadMax == IInv /\ ReadMax => IInv'
  <1> SUFFICES ASSUME IInv, ReadMax PROVE IInv'
    OBVIOUS
  <1> USE DEF IInv
  <1>1. UNCHANGED <<last, holder, pc, reqs, todo, base, jumped>>
    BY DEF ReadMax
  <1>2. BatchInv' /\ LockInv' /\ Issued' = Issued /\ Committed' = Committed
    BY <1>1, ScriptKeepsLocks
  <1>3. seen' \in [SeedRows -> Nat] /\ \A k \in SeedRows : seen'[k] \in {0} \/ Reached(k, seen'[k])
    BY HighestReached DEF ReadMax, Highest
  <1>4. TypeOK' /\ FloorInv'
    BY <1>1, <1>3 DEF ReadMax, TypeOK, FloorInv
  <1>5. IssuedInv' /\ DisjointInv' /\ CoverInv' /\ JumpInv' /\ ReadInv'
    BY <1>1, <1>2, <1>3, PoolInvStands
  <1> QED
    BY <1>2, <1>4, <1>5

LEMMA IInvSeedRow ==
    ASSUME IInv, NEW k \in SeedRows, SeedRow(k)
    PROVE  IInv'
  <1> USE DEF IInv
  <1>1. UNCHANGED <<last, pc, reqs, todo, base, seen, jumped>>
    BY DEF SeedRow
  <1>2. \A j \in Keys : holder'[j] \in Tx \/ holder[j] \in Tx => holder'[j] = holder[j]
    BY NoTxAssumption, TxAssumption DEF SeedRow, TypeOK
  <1>3. BatchInv' /\ LockInv' /\ Issued' = Issued /\ Committed' = Committed
    BY <1>1, <1>2, ScriptKeepsLocks
  <1>4. TypeOK' /\ FloorInv'
    BY <1>1, SeedAssumption DEF SeedRow, TypeOK, FloorInv
  <1>5. IssuedInv' /\ DisjointInv' /\ CoverInv' /\ JumpInv' /\ ReadInv'
    BY <1>1, <1>3, PoolInvStands
  <1> QED
    BY <1>3, <1>4, <1>5

(* GREATEST never takes a counter back, and what it passes over was above  *)
(* every number given out.                                                 *)
LEMMA IInvSeedCounters == IInv /\ SeedCounters => IInv'
  <1> SUFFICES ASSUME IInv, SeedCounters PROVE IInv'
    OBVIOUS
  <1> USE DEF IInv
  <1>1. UNCHANGED <<pc, reqs, todo, base, left>>
    BY DEF SeedCounters
  <1>2. \A k \in Keys : holder'[k] \in Tx \/ holder[k] \in Tx
                           => holder'[k] = holder[k] /\ last'[k] = last[k]
    BY NoTxAssumption, TxAssumption DEF SeedCounters, Freed
  <1>3. BatchInv' /\ LockInv' /\ Issued' = Issued /\ Committed' = Committed
    BY <1>1, <1>2, ScriptKeepsLocks
  <1>4. ASSUME NEW k \in Keys, holder[k] = "script"
        PROVE  /\ k \in SeedRows /\ last[k] \in Nat /\ seen[k] \in Nat
               /\ last'[k] = IF seen[k] > last[k] THEN seen[k] ELSE last[k]
               /\ jumped'[k] = jumped[k] \cup last[k] + 1 .. seen[k]
    BY <1>4 DEF SeedCounters, FloorInv, TypeOK
  <1>5. ASSUME NEW k \in Keys, holder[k] # "script"
        PROVE  last'[k] = last[k] /\ last[k] \in Nat /\ jumped'[k] = jumped[k]
    BY <1>5 DEF SeedCounters, TypeOK
  <1>6. \A k \in Keys : last'[k] \in Nat /\ last[k] <= last'[k] /\ jumped'[k] \subseteq Nat
    BY <1>4, <1>5 DEF TypeOK
  <1>7. TypeOK'
    <2>1. last' \in [Keys -> Nat] /\ jumped' \in [Keys -> SUBSET Nat]
      BY <1>6 DEF SeedCounters
    <2> QED
      BY <2>1 DEF SeedCounters, Freed, TypeOK
  <1>8. FloorInv'
    <2>1. \A k \in Keys : holder'[k] # "script"
      BY NoTxAssumption DEF SeedCounters, Freed
    <2> QED
      BY <2>1, <1>5, <1>4, LegacyAssumption DEF FloorInv
  <1>9. \A u : /\ Rows(u)' = Rows(u)
               /\ \A k : End(u, k)' = End(u, k) /\ Pool(u, k)' = Pool(u, k)
    BY <1>1 DEF Rows, End, Pool
  <1>10. IssuedInv'
    <2> SUFFICES ASSUME NEW u \in Issued, NEW k \in Rows(u)
                 PROVE  Legacy[k] <= base[u][k] /\ End(u, k) <= last'[k]
      BY <1>1, <1>3, <1>9 DEF IssuedInv
    <2>1. CASE k \in Keys
      BY <2>1, <1>4, <1>5, IssuedType DEF IssuedInv
    <2>2. Rows(u) \subseteq Keys
      <3>1. reqs[u] \in Batches
        BY DEF BatchInv, Issued
      <3> QED
        BY <3>1, BatchShape DEF Rows
    <2> QED
      BY <2>1, <2>2
  <1>11. DisjointInv'
    BY <1>1, <1>3, <1>9 DEF DisjointInv
  <1>12. CoverInv'
    <2> SUFFICES ASSUME NEW k \in Keys
                 PROVE  1..Legacy[k] \cup Given(k)' \cup jumped'[k] = 1..last'[k]
      BY DEF CoverInv
    <2>1. Given(k)' = Given(k)
      BY <1>3, <1>9 DEF Given
    <2>2. CASE holder[k] = "script"
      <3>1. 1..last'[k] = 1..last[k] \cup last[k] + 1 .. seen[k]
        <4>1. last[k] \in Nat /\ seen[k] \in Nat /\ last'[k] = IF seen[k] > last[k] THEN seen[k] ELSE last[k]
          BY <1>4, <2>2
        <4>2. CASE seen[k] > last[k]
          BY <4>1, <4>2
        <4>3. CASE seen[k] <= last[k]
          BY <4>1, <4>3
        <4> QED
          BY <4>1, <4>2, <4>3
      <3>2. jumped'[k] = jumped[k] \cup last[k] + 1 .. seen[k]
        BY <1>4, <2>2
      <3>3. 1..Legacy[k] \cup Given(k) \cup jumped[k] = 1..last[k]
        BY DEF CoverInv
      <3> QED
        BY <2>1, <3>1, <3>2, <3>3
    <2>3. CASE holder[k] # "script"
      BY <2>1, <2>3, <1>5 DEF CoverInv
    <2> QED
      BY <2>2, <2>3
  <1>13. JumpInv'
    <2> SUFFICES ASSUME NEW k \in Keys
                 PROVE  /\ k \notin SeedRows => jumped'[k] = {}
                        /\ \A n \in jumped'[k] : n > Legacy[k] /\ \A u \in Issued : n \notin Pool(u, k)
      BY <1>3, <1>9 DEF JumpInv
    <2>1. CASE holder[k] = "script"
      <3>1. \A n \in last[k] + 1 .. seen[k] : n > Legacy[k]
        BY <2>1, <1>4, LegacyAssumption DEF FloorInv
      <3>2. \A n \in last[k] + 1 .. seen[k] : \A u \in Issued : n \notin Pool(u, k)
        <4>1. \A u \in Issued : Pool(u, k) \subseteq 1..last[k]
          BY IssuedType
        <4> QED
          BY <4>1, <2>1, <1>4
      <3> QED
        BY <2>1, <3>1, <3>2, <1>4 DEF JumpInv
    <2>2. CASE holder[k] # "script"
      BY <2>2, <1>5 DEF JumpInv
    <2> QED
      BY <2>1, <2>2
  <1>14. ReadInv'
    <2>1. \A k, n : Reached(k, n)' <=> Reached(k, n)
      BY <1>3, <1>9 DEF Reached, InUse
    <2>2. ASSUME NEW k \in SeedRows, NEW n \in jumped'[k] PROVE Reached(k, n)
      <3>1. k \in Keys
        BY SeedAssumption
      <3>2. CASE n \in jumped[k]
        BY <3>2 DEF ReadInv
      <3>3. CASE n \notin jumped[k]
        <4>1. holder[k] = "script"
          BY <2>2, <3>1, <3>3, <1>5
        <4>2. n \in last[k] + 1 .. seen[k] /\ last[k] \in Nat /\ seen[k] \in Nat
          BY <2>2, <3>1, <3>3, <4>1, <1>4
        <4>3. PICK j \in Years[k] : \E m \in InUse(j) : seen[k] <= m
          BY <4>2 DEF ReadInv, Reached
        <4>4. PICK m \in InUse(j) : seen[k] <= m
          BY <4>3
        <4>5. m \in Nat
          <5>1. j \in Keys
            BY YearsAssumption
          <5>2. InUse(j) \subseteq 1..last[j]
            BY <5>1, InUseBelow
          <5> QED
            BY <5>2, <4>4
        <4>6. n <= m
          BY <4>2, <4>4, <4>5
        <4> QED
          BY <4>6 DEF Reached
      <3> QED
        BY <3>2, <3>3
    <2>3. \A k \in SeedRows : seen'[k] = 0
      BY DEF SeedCounters
    <2> QED
      BY <2>1, <2>2, <2>3 DEF ReadInv
  <1> QED
    BY <1>3, <1>7, <1>8, <1>10, <1>11, <1>12, <1>13, <1>14

LEMMA IInvSeedFails == IInv /\ SeedFails => IInv'
  <1> SUFFICES ASSUME IInv, SeedFails PROVE IInv'
    OBVIOUS
  <1> USE DEF IInv
  <1>1. UNCHANGED <<last, pc, reqs, todo, base, jumped>>
    BY DEF SeedFails
  <1>2. \A k \in Keys : holder'[k] \in Tx \/ holder[k] \in Tx => holder'[k] = holder[k]
    BY NoTxAssumption, TxAssumption DEF SeedFails, Freed
  <1>3. BatchInv' /\ LockInv' /\ Issued' = Issued /\ Committed' = Committed
    BY <1>1, <1>2, ScriptKeepsLocks
  <1>4. TypeOK'
    BY <1>1 DEF SeedFails, Freed, TypeOK
  <1>5. FloorInv'
    BY <1>1, NoTxAssumption DEF SeedFails, Freed, FloorInv
  <1>6. IssuedInv' /\ DisjointInv' /\ CoverInv' /\ JumpInv' /\ ReadInv'
    BY <1>1, <1>3, PoolInvStands DEF SeedFails
  <1> QED
    BY <1>3, <1>4, <1>5, <1>6

LEMMA IInvStutter == IInv /\ UNCHANGED vars => IInv'
  <1> SUFFICES ASSUME IInv, UNCHANGED vars PROVE IInv'
    OBVIOUS
  <1> USE DEF IInv
  <1>1. UNCHANGED <<last, holder, pc, reqs, todo, base, seen, left, jumped>>
    BY DEF vars
  <1>2. BatchInv' /\ LockInv' /\ Issued' = Issued /\ Committed' = Committed
    BY <1>1, ScriptKeepsLocks
  <1>3. TypeOK' /\ FloorInv'
    BY <1>1 DEF TypeOK, FloorInv
  <1>4. IssuedInv' /\ DisjointInv' /\ CoverInv' /\ JumpInv' /\ ReadInv'
    BY <1>1, <1>2, PoolInvStands
  <1> QED
    BY <1>2, <1>3, <1>4

-----------------------------------------------------------------------------
(* The inductive invariant holds of every reachable state of the counters. *)
THEOREM Inductive == Spec => []IInv
  <1>1. IInv /\ Next => IInv'
    BY IInvSend, IInvRaise, IInvCommit, IInvRollback, IInvSaveUser,
       IInvReadMax, IInvSeedRow, IInvSeedCounters, IInvSeedFails DEF Next
  <1>2. IInv /\ [Next]_vars => IInv'
    BY <1>1, IInvStutter
  <1> QED
    BY IInvInit, <1>2, PTL DEF Spec

(* The variables keep their types: counters are natural numbers, and a     *)
(* transaction's batch is one that nextMany can be called with.            *)
THEOREM TypeCorrect == Spec => []TypeOK
  BY Inductive, PTL DEF IInv

(* Pools of two issued transactions on one row have no number in common.   *)
LEMMA IssuedPoolsApart ==
    ASSUME IInv, NEW t \in Issued, NEW u \in Issued, t # u, NEW k \in Keys
    PROVE  Pool(t, k) \cap Pool(u, k) = {}
  <1>1. \A w \in {t, u} : /\ base[w][k] \in Nat /\ End(w, k) \in Nat
                          /\ Pool(w, k) = base[w][k] + 1 .. End(w, k)
                          /\ k \notin Rows(w) => Pool(w, k) = {}
    BY IssuedType
  <1>2. CASE k \in Rows(t) /\ k \in Rows(u)
    BY <1>1, <1>2 DEF IInv, DisjointInv
  <1>3. CASE ~ (k \in Rows(t) /\ k \in Rows(u))
    BY <1>1, <1>3
  <1> QED
    BY <1>2, <1>3

(* What is said of a row of the seed script.                               *)
LEMMA SeedRowAccounts ==
    ASSUME IInv, NEW k \in SeedRows
    PROVE  /\ InUse(k) \cup Unsaved(k) \cup jumped[k] = 1..last[k]
           /\ InUse(k) \cap Unsaved(k) = {}
           /\ jumped[k] \cap (InUse(k) \cup Unsaved(k)) = {}
           /\ \A n \in jumped[k] : \E j \in Years[k] : \E m \in InUse(j) : n <= m
  <1> USE DEF IInv
  <1>1. k \in Keys
    BY SeedAssumption
  <1>2. /\ InUse(k) = 1..Legacy[k] \cup UNION {Pool(t, k) : t \in Committed}
        /\ Unsaved(k) = UNION {Pool(t, k) : t \in Issued \ Committed}
    BY DEF InUse, Unsaved
  <1>3. InUse(k) \cup Unsaved(k) \cup jumped[k] = 1..last[k]
    <2>1. 1..Legacy[k] \cup Given(k) = InUse(k) \cup Unsaved(k)
      <3>1. \A n : n \in Given(k) <=> \E t \in Issued : n \in Pool(t, k)
        BY DEF Given
      <3>2. \A n : n \in InUse(k) <=> n \in 1..Legacy[k] \/ \E t \in Committed : n \in Pool(t, k)
        BY DEF InUse
      <3>3. \A n : n \in Unsaved(k) <=> \E t \in Issued \ Committed : n \in Pool(t, k)
        BY DEF Unsaved
      <3> QED
        BY <3>1, <3>2, <3>3, CommittedIsIssued
    <2>2. 1..Legacy[k] \cup Given(k) \cup jumped[k] = 1..last[k]
      BY <1>1 DEF CoverInv
    <2> QED
      BY <2>1, <2>2
  <1>4. \A t \in Issued : \A n \in Pool(t, k) : n \notin 1..Legacy[k]
    <2> SUFFICES ASSUME NEW t \in Issued, NEW n \in Pool(t, k) PROVE n \notin 1..Legacy[k]
      OBVIOUS
    <2>1. k \in Rows(t) /\ n \in base[t][k] + 1 .. End(t, k) /\ base[t][k] \in Nat /\ End(t, k) \in Nat
      BY <1>1, IssuedType
    <2>2. Legacy[k] <= base[t][k] /\ Legacy[k] \in Nat
      BY <1>1, <2>1, LegacyAssumption DEF IssuedInv
    <2> QED
      BY <2>1, <2>2
  <1>5. InUse(k) \cap Unsaved(k) = {}
    <2>1. \A t \in Committed : \A u \in Issued \ Committed : Pool(t, k) \cap Pool(u, k) = {}
      BY <1>1, IssuedPoolsApart, CommittedIsIssued
    <2> QED
      BY <2>1, <1>2, <1>4
  <1>6. jumped[k] \cap (InUse(k) \cup Unsaved(k)) = {}
    <2>1. \A n \in jumped[k] : n \notin 1..Legacy[k] /\ \A t \in Issued : n \notin Pool(t, k)
      BY <1>1, LegacyAssumption DEF JumpInv, TypeOK
    <2> QED
      BY <2>1, <1>2, CommittedIsIssued
  <1>7. \A n \in jumped[k] : \E j \in Years[k] : \E m \in InUse(j) : n <= m
    BY DEF ReadInv, Reached
  <1> QED
    BY <1>3, <1>5, <1>6, <1>7

LEMMA IInvGaps == IInv => OnlySeedLeavesGaps
  <1> SUFFICES ASSUME IInv PROVE OnlySeedLeavesGaps
    OBVIOUS
  <1> USE DEF IInv
  <1>1. ASSUME NEW k \in Keys \ SeedRows PROVE InUse(k) = 1..last[k]
    <2>1. \A t \in Issued \ Committed : Pool(t, k) = {}
      <3> SUFFICES ASSUME NEW t \in Issued \ Committed PROVE Pool(t, k) = {}
        OBVIOUS
      <3>1. t \in Tx /\ pc[t] \in {"loose", "lost"}
        BY DEF Issued, Committed
      <3>2. Rows(t) \subseteq SeedRows
        BY <3>1 DEF BatchInv
      <3> QED
        BY <3>2, IssuedType
    <2>2. jumped[k] = {}
      BY DEF JumpInv
    <2>3. InUse(k) = 1..Legacy[k] \cup Given(k)
      BY <2>1, CommittedIsIssued DEF InUse, Given
    <2>4. 1..Legacy[k] \cup Given(k) \cup jumped[k] = 1..last[k]
      BY DEF CoverInv
    <2> QED
      BY <2>2, <2>3, <2>4
  <1> QED
    BY <1>1, SeedRowAccounts DEF OnlySeedLeavesGaps

(* Case, order, inspection and survey numbers of committed data are        *)
(* 1 .. last_number, whatever rolls back or dies, and the holes in the     *)
(* employee numbers are those the seed script makes (nextMany inside the   *)
(* caller's transaction; scripts/seed.ts).                                 *)
THEOREM GapsAreTheSeedScripts == Spec => []OnlySeedLeavesGaps
  BY Inductive, IInvGaps, PTL

(* What transaction t holds of row k lies in its pool. *)
LEMMA NumberInPool ==
    ASSUME IInv, NEW t \in Tx, Live(t), NEW i \in DOMAIN reqs[t]
    PROVE  /\ reqs[t] \in Batches
           /\ reqs[t][i] \in Keys \cap Rows(t)
           /\ base[t][reqs[t][i]] \in Nat
           /\ End(t, reqs[t][i]) \in Nat
           /\ Number(t, i) \in base[t][reqs[t][i]] + 1 .. End(t, reqs[t][i])
  <1>1. reqs[t] \in Batches
    BY DEF IInv, BatchInv, Live
  <1>2. reqs[t][i] \in Keys \cap Rows(t)
    BY <1>1, BatchShape DEF Rows
  <1>3. base[t][reqs[t][i]] \in Nat
    BY <1>2 DEF IInv, TypeOK
  <1>4. Need(reqs[t], reqs[t][i]) \in Nat /\ Nth(reqs[t], i) \in 1..Need(reqs[t], reqs[t][i])
    BY <1>1, <1>2, NeedType, NthBounds
  <1>5. /\ End(t, reqs[t][i]) \in Nat
        /\ Number(t, i) \in base[t][reqs[t][i]] + 1 .. End(t, reqs[t][i])
    BY <1>3, <1>4 DEF Number, End
  <1> QED
    BY <1>1, <1>2, <1>3, <1>5

(* Live pools of one row start at or above the legacy numbers, and those   *)
(* of two transactions do not overlap: two that have not committed cannot  *)
(* both hold the row, and one that has lies below the other's base.        *)
LEMMA LivePoolsApart ==
    ASSUME IInv, NEW t \in Tx, NEW u \in Tx, Live(t), Live(u),
           NEW k \in Keys, k \in Rows(t), k \in Rows(u)
    PROVE  /\ Legacy[k] <= base[t][k]
           /\ t # u => End(t, k) <= base[u][k] \/ End(u, k) <= base[t][k]
  <1> USE DEF IInv
  <1>1. \A w \in {t, u} : pc[w] = "taken" => holder[k] = w /\ base[w][k] = last[k]
    BY DEF LockInv
  <1>2. \A w \in {t, u} : pc[w] # "taken" =>
           w \in Issued /\ Legacy[k] <= base[w][k] /\ End(w, k) <= last[k]
    BY DEF IssuedInv, Issued, Live
  <1>3. Legacy[k] <= base[t][k]
    BY <1>1, <1>2 DEF FloorInv
  <1>4. ASSUME t # u PROVE End(t, k) <= base[u][k] \/ End(u, k) <= base[t][k]
    <2>1. CASE pc[t] = "taken" /\ pc[u] = "taken"
      BY <2>1, <1>1, <1>4
    <2>2. CASE pc[t] = "taken" /\ pc[u] # "taken"
      BY <2>2, <1>1, <1>2
    <2>3. CASE pc[t] # "taken" /\ pc[u] = "taken"
      BY <2>3, <1>1, <1>2
    <2>4. CASE pc[t] # "taken" /\ pc[u] # "taken"
      BY <2>4, <1>2, <1>4 DEF DisjointInv
    <2> QED
      BY <2>1, <2>2, <2>3, <2>4
  <1> QED
    BY <1>3, <1>4

LEMMA IInvUnique == IInv => NoDuplicateNumber
  <1> SUFFICES ASSUME IInv PROVE NoDuplicateNumber
    OBVIOUS
  <1>1. ASSUME NEW t \in Tx, NEW u \in Tx, Live(t), Live(u),
               NEW i \in DOMAIN reqs[t], NEW j \in DOMAIN reqs[u],
               reqs[t][i] = reqs[u][j], Number(t, i) = Number(u, j)
        PROVE  t = u /\ i = j
    <2>1. /\ Number(t, i) \in base[t][reqs[t][i]] + 1 .. End(t, reqs[t][i])
          /\ Number(u, j) \in base[u][reqs[t][i]] + 1 .. End(u, reqs[t][i])
          /\ reqs[t][i] \in Keys /\ reqs[t][i] \in Rows(t) /\ reqs[t][i] \in Rows(u)
          /\ base[t][reqs[t][i]] \in Nat /\ base[u][reqs[t][i]] \in Nat
          /\ End(t, reqs[t][i]) \in Nat /\ End(u, reqs[t][i]) \in Nat
      BY <1>1, NumberInPool
    <2>2. t = u
      BY <1>1, <2>1, LivePoolsApart
    <2>3. Nth(reqs[t], i) = Nth(reqs[t], j)
      <3>1. reqs[t] \in Batches
        BY <1>1, NumberInPool
      <3>2. Nth(reqs[t], i) \in Nat /\ Nth(reqs[t], j) \in Nat
        <4>1. \A m \in DOMAIN reqs[t] :
                 /\ reqs[t][m] \in Keys
                 /\ Nth(reqs[t], m) \in 1..Need(reqs[t], reqs[t][m])
          BY <3>1, NthBounds, BatchShape
        <4> QED
          BY <4>1, <1>1, <2>2
      <3> QED
        BY <1>1, <2>1, <2>2, <3>2 DEF Number
    <2>4. i = j
      BY <1>1, <2>2, <2>3, NthInjective, NumberInPool
    <2> QED
      BY <2>2, <2>4
  <1>2. ASSUME NEW t \in Tx, Live(t), NEW i \in DOMAIN reqs[t]
        PROVE  Number(t, i) > Legacy[reqs[t][i]]
    BY <1>2, NumberInPool, LivePoolsApart, LegacyAssumption
  <1> QED
    BY <1>1, <1>2 DEF NoDuplicateNumber

(* No number is handed out twice, for any number of concurrent requests,   *)
(* rows and batch sizes (nextMany, docs/internal/architecture.md:150).     *)
THEOREM NumbersAreUnique == Spec => []NoDuplicateNumber
  BY Inductive, IInvUnique, PTL

-----------------------------------------------------------------------------
(* The refinement of NumberLedger.                                         *)

(* Every number up to the counter that is neither a legacy one nor passed  *)
(* over was taken by exactly one transaction, and OwnerOf finds it.        *)
OwnersFit ==
    \A k \in Keys : \A n \in 1..last[k] : n > Legacy[k] /\ n \notin jumped[k] =>
        /\ OwnerOf(k, n) \in Issued
        /\ n \in Pool(OwnerOf(k, n), k)
        /\ \A u \in Issued : n \in Pool(u, k) => u = OwnerOf(k, n)

(* The taker of a number is unique because issued pools do not overlap,    *)
(* and exists because what is given out and passed over leaves no hole.    *)
LEMMA IInvOwners == IInv => OwnersFit
<1> SUFFICES ASSUME IInv, NEW k \in Keys, NEW n \in 1..last[k],
                    n > Legacy[k], n \notin jumped[k]
             PROVE  /\ OwnerOf(k, n) \in Issued
                    /\ n \in Pool(OwnerOf(k, n), k)
                    /\ \A u \in Issued : n \in Pool(u, k) => u = OwnerOf(k, n)
  BY DEF OwnersFit
<1>1. last[k] \in Nat /\ Legacy[k] \in Nat
  BY LegacyAssumption DEF IInv, TypeOK
<1>2. \E u \in Issued : n \in Pool(u, k)
  <2>1. n \in Given(k)
    BY <1>1 DEF IInv, CoverInv
  <2>2. QED
    BY <2>1 DEF Given
<1>3. OwnerOf(k, n) = CHOOSE u \in Issued : n \in Pool(u, k)
  BY <1>1 DEF OwnerOf
<1>4. OwnerOf(k, n) \in Issued /\ n \in Pool(OwnerOf(k, n), k)
  BY <1>2, <1>3
<1>5. ASSUME NEW u \in Issued, NEW v \in Issued, n \in Pool(u, k), n \in Pool(v, k)
      PROVE  u = v
  BY <1>5, IssuedPoolsApart
<1>6. QED
  BY <1>4, <1>5

(* What a step must leave alone for numbers to keep their takers: pools of *)
(* issued transactions, and which numbers up to the counter were jumped.   *)
Steady ==
    /\ \A u \in Issued : u \in Issued' /\ \A k \in Keys : Pool(u, k)' = Pool(u, k)
    /\ \A k \in Keys : \A n \in 1..last[k] : n \in jumped'[k] <=> n \in jumped[k]

LEMMA OwnersStay ==
    ASSUME OwnersFit, OwnersFit', TypeOK, TypeOK', Steady,
           NEW k \in Keys, NEW n \in 1..last[k], last[k] <= last'[k]
    PROVE  OwnerOf(k, n)' = OwnerOf(k, n)
<1>1. last[k] \in Nat /\ last'[k] \in Nat /\ Legacy[k] \in Nat
  BY LegacyAssumption DEF TypeOK
<1>2. n \in jumped'[k] <=> n \in jumped[k]
  BY DEF Steady
<1>3. CASE n <= Legacy[k]
  BY <1>3 DEF OwnerOf
<1>4. CASE n > Legacy[k] /\ n \in jumped[k]
  BY <1>1, <1>2, <1>4 DEF OwnerOf
<1>5. CASE n > Legacy[k] /\ n \notin jumped[k]
  <2>1. PICK u \in Issued : u = OwnerOf(k, n) /\ n \in Pool(u, k)
    BY <1>5 DEF OwnersFit
  <2>2. u \in Issued' /\ n \in Pool(u, k)'
    BY <2>1 DEF Steady
  <2>3. n \in 1..last'[k]
    BY <1>1
  <2>4. u = OwnerOf(k, n)'
    BY <2>2, <2>3, <1>2, <1>5 DEF OwnersFit
  <2>5. QED
    BY <2>1, <2>4
<1>6. QED
  BY <1>1, <1>3, <1>4, <1>5

(* The ledger that the counters show. *)
Book == [k \in Keys |-> [n \in 1..last[k] |-> OwnerOf(k, n)]]

(* A step that leaves the counters alone is none of the ledger. *)
LEMMA BookStands ==
    ASSUME OwnersFit, OwnersFit', TypeOK, TypeOK', last' = last, Steady
    PROVE  Book' = Book
<1>1. \A k \in Keys : \A n \in 1..last[k] : OwnerOf(k, n)' = OwnerOf(k, n)
  <2> SUFFICES ASSUME NEW k \in Keys, NEW n \in 1..last[k] PROVE OwnerOf(k, n)' = OwnerOf(k, n)
    OBVIOUS
  <2>1. last[k] <= last'[k]
    BY DEF TypeOK
  <2>2. QED
    BY <2>1, OwnersStay
<1>2. QED
  BY <1>1 DEF Book

(* When every new line of a step has owner w, the ledger grows by w.       *)
LEMMA BookGrows ==
    ASSUME IInv, IInv', OwnersFit, OwnersFit', Steady, NEW w \in Tx \cup {"nobody"},
           \A k \in Keys : last[k] <= last'[k],
           \A k \in Keys : \A n \in 1..last'[k] : n > last[k] => OwnerOf(k, n)' = w
    PROVE  /\ \A k \in Keys : Ledger!Grows(k, w)
           /\ DOMAIN Book' = Keys
           /\ \A k \in Keys : Book'[k] \in Seq(Tx \cup {"legacy", "nobody"})
           /\ \A k \in Keys : Len(Book[k]) = last[k] /\ Len(Book'[k]) = last'[k]
                              /\ DOMAIN Book[k] = 1..last[k] /\ DOMAIN Book'[k] = 1..last'[k]
<1> USE DEF IInv
<1>1. \A k \in Keys : last[k] \in Nat /\ last'[k] \in Nat /\ Legacy[k] \in Nat /\ Legacy[k] <= last[k]
  BY LegacyAssumption DEF TypeOK, FloorInv
<1>2. ASSUME NEW k \in Keys, NEW n \in 1..last[k] PROVE OwnerOf(k, n)' = OwnerOf(k, n)
  BY <1>2, OwnersStay
<1>3. ASSUME NEW k \in Keys, NEW n \in 1..last'[k]
      PROVE  OwnerOf(k, n)' = IF n <= last[k] THEN OwnerOf(k, n) ELSE w
  <2>1. CASE n <= last[k]
    BY <2>1, <1>1, <1>2, <1>3
  <2>2. CASE n > last[k]
    BY <2>2, <1>1, <1>3
  <2>3. QED
    BY <1>1, <1>3, <2>1, <2>2
<1>4. \A k \in Keys : Len(Book[k]) = last[k] /\ Len(Book'[k]) = last'[k]
                      /\ DOMAIN Book[k] = 1..last[k] /\ DOMAIN Book'[k] = 1..last'[k]
  BY <1>1 DEF Book
<1>5. ASSUME NEW k \in Keys PROVE Ledger!Grows(k, w)
  <2>1. ASSUME NEW n \in 1..last'[k]
        PROVE  Book'[k][n] = IF n <= last[k] THEN Book[k][n] ELSE w
    <3>1. Book'[k][n] = OwnerOf(k, n)'
      BY <1>5, <2>1 DEF Book
    <3>2. n <= last[k] => Book[k][n] = OwnerOf(k, n)
      BY <1>1, <1>5, <2>1 DEF Book
    <3>3. QED
      BY <3>1, <3>2, <1>3, <1>5
  <2>2. Len(Book'[k]) >= Len(Book[k])
    BY <1>1, <1>4, <1>5
  <2>3. \A n \in DOMAIN Book'[k] : Book'[k][n] = IF n <= Len(Book[k]) THEN Book[k][n] ELSE w
    BY <2>1, <1>4, <1>5
  <2>4. QED
    BY <2>2, <2>3 DEF Ledger!Grows, Book
<1>6. ASSUME NEW k \in Keys, NEW n \in 1..last[k] PROVE OwnerOf(k, n) \in Tx \cup {"legacy", "nobody"}
  <2>1. CASE n <= Legacy[k] \/ n \in jumped[k]
    BY <2>1 DEF OwnerOf
  <2>2. CASE n > Legacy[k] /\ n \notin jumped[k]
    BY <2>2, <1>6 DEF OwnersFit, Issued
  <2>3. QED
    BY <1>1, <1>6, <2>1, <2>2
<1>7. ASSUME NEW k \in Keys PROVE Book'[k] \in Seq(Tx \cup {"legacy", "nobody"})
  <2>1. \A n \in 1..last'[k] : OwnerOf(k, n)' \in Tx \cup {"legacy", "nobody"}
    BY <1>1, <1>3, <1>6, <1>7
  <2>2. Book'[k] \in [1..last'[k] -> Tx \cup {"legacy", "nobody"}]
    BY <2>1, <1>7 DEF Book
  <2>3. QED
    BY <2>2, <1>1, <1>7
<1>8. DOMAIN Book' = Keys
  BY DEF Book
<1>9. QED
  BY <1>4, <1>5, <1>7, <1>8

(* A commit enters exactly its own lines, all at once, at the end of every *)
(* row it asked for (nextMany in the caller's transaction, or alone).      *)
LEMMA CommitEnters ==
    ASSUME IInv, IInv', OwnersFit, OwnersFit', NEW t \in Tx, Commit(t)
    PROVE  Ledger!LedgerNext
<1> USE DEF IInv
<1>1. /\ \A k \in Keys : last[k] \in Nat /\ last'[k] \in Nat /\ last[k] <= last'[k]
      /\ \A k \in Keys : Pool(t, k) = last[k] + 1 .. last'[k]
      /\ \E k \in Keys : last'[k] # last[k]
      /\ t \notin Issued /\ Issued' = Issued \cup {t}
      /\ \A u : \A k : Pool(u, k)' = Pool(u, k)
  BY CommitMoves
<1>2. jumped' = jumped
  BY DEF Commit
<1>3. Steady
  BY <1>1, <1>2 DEF Steady
<1>4. ASSUME NEW k \in Keys, NEW n \in 1..last'[k], n > last[k] PROVE OwnerOf(k, n)' = t
  <2>1. last[k] \in Nat /\ last'[k] \in Nat /\ Legacy[k] \in Nat /\ Legacy[k] <= last[k]
    BY <1>1, LegacyAssumption DEF FloorInv
  <2>2. n \in Pool(t, k)' /\ t \in Issued' /\ n > Legacy[k]
    BY <2>1, <1>1, <1>4
  <2>3. n \notin jumped'[k]
    <3>1. jumped[k] \subseteq 1..last[k]
      BY JumpedBelow
    <3>2. QED
      BY <3>1, <2>1, <1>2, <1>4
  <2>4. QED
    BY <2>2, <2>3 DEF OwnersFit
<1>5. /\ \A k \in Keys : Ledger!Grows(k, t)
      /\ DOMAIN Book' = Keys
      /\ \A k \in Keys : Book'[k] \in Seq(Tx \cup {"legacy", "nobody"})
      /\ \A k \in Keys : Len(Book[k]) = last[k] /\ Len(Book'[k]) = last'[k]
                         /\ DOMAIN Book[k] = 1..last[k] /\ DOMAIN Book'[k] = 1..last'[k]
  BY <1>1, <1>3, <1>4, BookGrows
<1>6. ASSUME NEW k \in Keys, NEW n \in 1..last[k] PROVE OwnerOf(k, n) # t
  <2>1. last[k] \in Nat /\ Legacy[k] \in Nat
    BY <1>1, LegacyAssumption
  <2>2. CASE n <= Legacy[k] \/ n \in jumped[k]
    BY <2>2, TxAssumption DEF OwnerOf
  <2>3. CASE n > Legacy[k] /\ n \notin jumped[k]
    BY <2>3, <1>1, <1>6 DEF OwnersFit
  <2>4. QED
    BY <2>1, <2>2, <2>3
<1>7. ~ \E k \in Keys : \E n \in DOMAIN Book[k] : Book[k][n] = t
  BY <1>5, <1>6 DEF Book
<1>8. Book' # Book
  <2>1. PICK k \in Keys : last'[k] # last[k]
    BY <1>1
  <2>2. Len(Book'[k]) # Len(Book[k])
    BY <2>1, <1>5
  <2>3. QED
    BY <2>2
<1>9. Ledger!Enter(t)
  BY <1>5, <1>7, <1>8 DEF Ledger!Enter, Ledger!Owns, Book
<1>10. QED
  BY <1>5, <1>9 DEF Ledger!LedgerNext, Ledger!LegacyOwner, Ledger!Nobody, Book

(* A correction enters lines that nobody took, on rows of the seed script. *)
LEMMA CorrectionPassesOver ==
    ASSUME IInv, IInv', OwnersFit, OwnersFit', SeedCounters
    PROVE  Ledger!LedgerNext
<1> USE DEF IInv
<1>1. ASSUME NEW k \in Keys, holder[k] = "script"
      PROVE  /\ k \in SeedRows /\ last[k] \in Nat /\ seen[k] \in Nat
             /\ last'[k] = IF seen[k] > last[k] THEN seen[k] ELSE last[k]
             /\ jumped'[k] = jumped[k] \cup last[k] + 1 .. seen[k]
  BY <1>1 DEF SeedCounters, FloorInv, TypeOK
<1>2. ASSUME NEW k \in Keys, holder[k] # "script"
      PROVE  last'[k] = last[k] /\ last[k] \in Nat /\ jumped'[k] = jumped[k]
  BY <1>2 DEF SeedCounters, TypeOK
<1>3. \A k \in Keys : last[k] <= last'[k]
  BY <1>1, <1>2
<1>4. Steady
  <2>1. \A u : \A k : Pool(u, k)' = Pool(u, k)
    BY DEF SeedCounters, Pool
  <2>2. Issued' = Issued
    BY DEF SeedCounters, Issued
  <2>3. ASSUME NEW k \in Keys, NEW n \in 1..last[k] PROVE n \in jumped'[k] <=> n \in jumped[k]
    BY <2>3, <1>1, <1>2
  <2>4. QED
    BY <2>1, <2>2, <2>3 DEF Steady
<1>5. ASSUME NEW k \in Keys, NEW n \in 1..last'[k], n > last[k] PROVE OwnerOf(k, n)' = "nobody"
  <2>1. holder[k] = "script"
    BY <1>2, <1>5
  <2>2. n \in jumped'[k] /\ n > Legacy[k] /\ Legacy[k] \in Nat
    BY <2>1, <1>1, <1>5, LegacyAssumption DEF FloorInv
  <2>3. QED
    BY <2>2 DEF OwnerOf
<1>6. /\ \A k \in Keys : Ledger!Grows(k, "nobody")
      /\ DOMAIN Book' = Keys
      /\ \A k \in Keys : Book'[k] \in Seq(Tx \cup {"legacy", "nobody"})
  BY <1>3, <1>4, <1>5, BookGrows
<1>7. ASSUME NEW k \in Keys \ SeedRows PROVE Book'[k] = Book[k]
  <2>1. last'[k] = last[k]
    BY <1>1, <1>2, <1>7
  <2>2. \A n \in 1..last[k] : OwnerOf(k, n)' = OwnerOf(k, n)
    BY <1>3, <1>4, <1>7, OwnersStay
  <2>3. QED
    BY <2>1, <2>2, <1>7 DEF Book
<1>8. Ledger!PassOver
  BY <1>6, <1>7 DEF Ledger!PassOver, Ledger!Nobody, Book
<1>9. QED
  BY <1>6, <1>8 DEF Ledger!LedgerNext, Ledger!LegacyOwner, Ledger!Nobody, Book

(* The counters implement the ledger: whatever interleaves, rolls back or  *)
(* is seeded, numbers appear in order, all of a batch at once, never       *)
(* change hands, and only the rows the seed script corrects ever have a    *)
(* line that nobody took (case-encode.service.ts nextMany, seedCounters).  *)
THEOREM CountersImplementLedger == Spec => ImplementsLedger
<1>1. Init => Ledger!LedgerInit
  BY LegacyAssumption DEF Init, Ledger!LedgerInit, Ledger!LegacyOwner, OwnerOf
<1>2. IInv /\ IInv' /\ OwnersFit /\ OwnersFit' /\ [Next]_vars => Ledger!LedgerNext \/ Book' = Book
  <2> SUFFICES ASSUME IInv, IInv', OwnersFit, OwnersFit', [Next]_vars
               PROVE  Ledger!LedgerNext \/ Book' = Book
    OBVIOUS
  <2> USE DEF IInv
  <2>1. ASSUME NEW t \in Tx, Commit(t) PROVE Ledger!LedgerNext
    BY <2>1, CommitEnters
  <2>2. ASSUME SeedCounters PROVE Ledger!LedgerNext
    BY <2>2, CorrectionPassesOver
  <2>3. ASSUME last' = last, jumped' = jumped, Issued \subseteq Issued',
               \A u \in Issued : reqs'[u] = reqs[u] /\ base'[u] = base[u]
        PROVE  Book' = Book
    BY <2>3, BookStands DEF Steady, Pool
  <2>4. ASSUME NEW t \in Tx, NEW b \in Batches, Send(t, b) PROVE Book' = Book
    <3>1. t \notin Issued /\ Issued' = Issued
      BY <2>4 DEF Send, TypeOK, Issued
    <3>2. \A u \in Issued : reqs'[u] = reqs[u] /\ base'[u] = base[u]
      BY <2>4, <3>1 DEF Send, TypeOK, Issued
    <3>3. QED
      BY <2>3, <2>4, <3>1, <3>2 DEF Send
  <2>5. ASSUME NEW t \in Tx, NEW k \in Keys, Raise(t, k) PROVE Book' = Book
    <3>1. t \notin Issued /\ Issued' = Issued
      BY <2>5 DEF Raise, TypeOK, Issued
    <3>2. \A u \in Issued : reqs'[u] = reqs[u] /\ base'[u] = base[u]
      BY <2>5, <3>1 DEF Raise, TypeOK, Issued
    <3>3. QED
      BY <2>3, <2>5, <3>1, <3>2 DEF Raise
  <2>6. ASSUME NEW t \in Tx, Rollback(t) PROVE Book' = Book
    <3>1. t \notin Issued /\ Issued' = Issued
      BY <2>6 DEF Rollback, TypeOK, Issued
    <3>2. \A u \in Issued : reqs'[u] = reqs[u] /\ base'[u] = base[u]
      BY <2>6, <3>1 DEF Rollback, TypeOK, Issued
    <3>3. QED
      BY <2>3, <2>6, <3>1, <3>2 DEF Rollback
  <2>7. ASSUME NEW t \in Tx, SaveUser(t) PROVE Book' = Book
    <3>1. Issued' = Issued
      BY <2>7 DEF SaveUser, TypeOK, Issued
    <3>2. QED
      BY <2>3, <2>7, <3>1 DEF SaveUser
  <2>8. ASSUME ReadMax \/ SeedFails \/ (\E k \in SeedRows : SeedRow(k)) \/ UNCHANGED vars
        PROVE  Book' = Book
    BY <2>3, <2>8 DEF ReadMax, SeedFails, SeedRow, vars, Issued
  <2>9. QED
    BY <2>1, <2>2, <2>4, <2>5, <2>6, <2>7, <2>8 DEF Next
<1>3. IInv /\ IInv' /\ OwnersFit /\ OwnersFit' /\ [Next]_vars
        => [Ledger!LedgerNext]_[k \in Keys |-> [n \in 1..last[k] |-> OwnerOf(k, n)]]
  BY <1>2 DEF Book
<1>4. QED
  BY <1>1, <1>3, Inductive, IInvOwners, PTL DEF Spec, ImplementsLedger, Ledger!LedgerSpec
=============================================================================
