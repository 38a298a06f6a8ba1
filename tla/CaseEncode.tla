----------------------------- MODULE CaseEncode -----------------------------
(***************************************************************************)
(* Case numbers: apps/api/src/case-encode/case-encode.service.ts.          *)
(*                                                                         *)
(* nextMany() is one SQL statement that raises the counter rows of a batch *)
(* in sort order (INSERT ... ON CONFLICT DO UPDATE ... RETURNING) inside   *)
(* the caller's transaction.  PostgreSQL (external) locks each row as the  *)
(* statement reaches it and keeps the lock until the transaction commits   *)
(* or rolls back; a statement that meets a locked row waits and then       *)
(* updates the latest committed version of the row.                        *)
(*                                                                         *)
(* A transaction of the model takes numbers once, as every caller does.    *)
(* addCase, WorkOrder.create, Maintenance.create, Survey.addCase and       *)
(* createAccount pass the manager of their transaction (executor).  The    *)
(* seed script does not (apps/api/src/scripts/seed.ts, employeeNoOf): its  *)
(* statement commits alone, and the user is saved or updated later.  After *)
(* its accounts the script reads the highest employee number of every      *)
(* company, over all years, and raises the counter of one year to it       *)
(* (seedCounters, one statement for all companies).                        *)
(*                                                                         *)
(* A counter row is known by its rank in the sort order.                   *)
(***************************************************************************)
EXTENDS Naturals, Sequences, FiniteSets, FiniteSetsExt

CONSTANTS
    Keys,       \* ranks of the counter rows (prefix, seq_date)
    Tx,         \* transactions
    Bare,       \* those that are accounts of the seed script: no executor
    NoTx,       \* "nobody holds the row lock"
    Legacy,     \* [Keys -> Nat]: highest number in use when the table was made
    SeedRows,   \* rows ('EMP-<company>', '2026') the seed script uses
    Years,      \* [SeedRows -> SUBSET Keys]: all rows of the same company
    MaxBatch    \* longest batch of requests

ASSUME KeysAssumption   == Keys \subseteq Nat /\ IsFiniteSet(Keys)
ASSUME NoTxAssumption   == NoTx \notin Tx \cup {"script"}
ASSUME TxAssumption     == Tx \cap {"script", "legacy", "nobody"} = {}
ASSUME BareAssumption   == Bare \subseteq Tx
ASSUME LegacyAssumption == Legacy \in [Keys -> Nat]
ASSUME SeedAssumption   == SeedRows \subseteq Keys
ASSUME YearsAssumption  == Years \in [SeedRows -> SUBSET Keys]
                           /\ \A k \in SeedRows : k \in Years[k]
ASSUME BatchAssumption  == MaxBatch \in Nat \ {0}

VARIABLES
    last,     \* committed case_sequences.last_number of every row
    holder,   \* transaction that holds the row lock, or the seed script
    pc,       \* where every transaction is
    reqs,     \* its batch: the row each request asks for
    todo,     \* rows its statement still has to raise
    base,     \* value of a row before the transaction raised it
    seen,     \* highest number the seed script has read for a row
    left,     \* rows its seedCounters statement still has to raise
    jumped    \* history: numbers a correction has passed over

vars == <<last, holder, pc, reqs, todo, base, seen, left, jumped>>

Batches == UNION {[1..n -> Keys] : n \in 1..MaxBatch}

(* How many requests of the batch ask for row k: the Map "counts". *)
Need(batch, k) == Cardinality({i \in DOMAIN batch : batch[i] = k})

(* Numbers the statement returned for row k: (last - need, last]. *)
Pool(t, k) == base[t][k] + 1 .. base[t][k] + Need(reqs[t], k)

(* Numbers of a pool are shifted out in the order of the input: a request *)
(* gets the number of its place among the requests for the same row.       *)
Nth(batch, i) == Cardinality({j \in 1..i : batch[j] = batch[i]})
Number(t, i)  == base[t][reqs[t][i]] + Nth(reqs[t], i)

(* Transactions whose data is saved, and all whose counters are committed: *)
(* an account of the seed script is "loose" until its user is saved.       *)
Committed == {t \in Tx : pc[t] = "committed"}
Issued == {t \in Tx : pc[t] \in {"loose", "lost", "committed"}}

(* Numbers of row k that committed data carries. *)
InUse(k) == 1..Legacy[k] \cup UNION {Pool(t, k) : t \in Committed}

Init ==
    /\ last = Legacy            \* the migration back-filled the counters
    /\ holder = [k \in Keys |-> NoTx]
    /\ pc = [t \in Tx |-> "idle"]
    /\ reqs = [t \in Tx |-> <<>>]
    /\ todo = [t \in Tx |-> {}]
    /\ base = [t \in Tx |-> [k \in Keys |-> 0]]
    /\ seen = [k \in SeedRows |-> 0]
    /\ left = {}
    /\ jumped = [k \in Keys |-> {}]

(* An account of the seed script is under way; its correction is. *)
Seeding == \E t \in Bare : pc[t] \in {"raising", "taken", "loose"}
Correcting == left # {} \/ \E k \in Keys : holder[k] = "script"

(* What t may ask for: employee numbers are taken one at a time (next()),  *)
(* and the seed script takes nothing else, one account after the other.    *)
MayAsk(t, batch) ==
    /\ \A i \in DOMAIN batch : batch[i] \in SeedRows => Len(batch) = 1
    /\ t \in Bare => batch[1] \in SeedRows /\ ~ Seeding /\ ~ Correcting

(* next()/nextMany(): count the requests per row, then send the statement. *)
Send(t, batch) ==
    /\ pc[t] = "idle"
    /\ MayAsk(t, batch)
    /\ pc' = [pc EXCEPT ![t] = "raising"]
    /\ reqs' = [reqs EXCEPT ![t] = batch]
    /\ todo' = [todo EXCEPT ![t] = {batch[i] : i \in DOMAIN batch}]
    /\ UNCHANGED <<last, holder, base, seen, left, jumped>>

(* Mutant: the rows are raised in the order of the input. *)
IsNextUnsorted(t, k) == k \in todo[t]

(* The rows are sorted before the statement is built. *)
IsNext(t, k) == k \in todo[t] /\ \A j \in todo[t] : k <= j

(* Mutant: the highest number is read without waiting for the row lock. *)
RaiseUnlocked(t, k) ==
    /\ pc[t] = "raising"
    /\ IsNext(t, k)
    /\ holder' = [holder EXCEPT ![k] = t]
    /\ base' = [base EXCEPT ![t][k] = last[k]]
    /\ todo' = [todo EXCEPT ![t] = @ \ {k}]
    /\ pc' = [pc EXCEPT ![t] = IF todo[t] = {k} THEN "taken" ELSE "raising"]
    /\ UNCHANGED <<last, reqs, seen, left, jumped>>

(* ON CONFLICT DO UPDATE on one row: wait for its lock, raise it. *)
Raise(t, k) ==
    /\ pc[t] = "raising"
    /\ IsNext(t, k)
    /\ holder[k] = NoTx
    /\ holder' = [holder EXCEPT ![k] = t]
    /\ base' = [base EXCEPT ![t][k] = last[k]]
    /\ todo' = [todo EXCEPT ![t] = @ \ {k}]
    /\ pc' = [pc EXCEPT ![t] = IF todo[t] = {k} THEN "taken" ELSE "raising"]
    /\ UNCHANGED <<last, reqs, seen, left, jumped>>

(* The raised rows become visible and their locks are released: with the   *)
(* caller's data, or, without an executor, at the end of the statement.    *)
Commit(t) ==
    /\ pc[t] = "taken"
    /\ pc' = [pc EXCEPT ![t] = IF t \in Bare THEN "loose" ELSE "committed"]
    /\ last' = [k \in Keys |-> IF holder[k] = t
                               THEN base[t][k] + Need(reqs[t], k) ELSE last[k]]
    /\ holder' = [k \in Keys |-> IF holder[k] = t THEN NoTx ELSE holder[k]]
    /\ UNCHANGED <<reqs, todo, base, seen, left, jumped>>

(* Mutant: every caller takes its numbers outside its transaction.         *)
RollbackKeepsCounter(t) ==
    /\ pc[t] \in {"raising", "taken"}
    /\ pc' = [pc EXCEPT ![t] = "aborted"]
    /\ last' = [k \in Keys |-> IF holder[k] = t
                               THEN base[t][k] + Need(reqs[t], k) ELSE last[k]]
    /\ holder' = [k \in Keys |-> IF holder[k] = t THEN NoTx ELSE holder[k]]
    /\ todo' = [todo EXCEPT ![t] = {}]
    /\ UNCHANGED <<reqs, base, seen, left, jumped>>

(* The caller throws after taking numbers, or the process dies: the        *)
(* counters go back with the data, and nothing of the transaction is left. *)
Rollback(t) ==
    /\ pc[t] \in {"raising", "taken"}
    /\ pc' = [pc EXCEPT ![t] = "aborted"]
    /\ holder' = [k \in Keys |-> IF holder[k] = t THEN NoTx ELSE holder[k]]
    /\ reqs' = [reqs EXCEPT ![t] = <<>>]
    /\ todo' = [todo EXCEPT ![t] = {}]
    /\ base' = [base EXCEPT ![t] = [k \in Keys |-> 0]]
    /\ UNCHANGED <<last, seen, left, jumped>>

(* The seed script saves the user that carries the number, or it fails or  *)
(* dies before: the number is out and nobody has it.                       *)
SaveUser(t) ==
    /\ pc[t] = "loose"
    /\ \E end \in {"committed", "lost"} : pc' = [pc EXCEPT ![t] = end]
    /\ UNCHANGED <<last, holder, reqs, todo, base, seen, left, jumped>>

(* The seed script reads the highest employee number of every company, of  *)
(* whichever year, and sends seedCounters() for those that have any ...    *)
Highest == [k \in SeedRows |-> Max({0} \cup UNION {InUse(j) : j \in Years[k]})]

ReadMax ==
    /\ ~ Seeding /\ ~ Correcting
    /\ seen' = Highest
    /\ left' = {k \in SeedRows : Highest[k] > 0}
    /\ UNCHANGED <<last, holder, pc, reqs, todo, base, jumped>>

(* ... one statement whose rows are not sorted and stay locked to its end. *)
SeedRow(k) ==
    /\ k \in left
    /\ holder[k] = NoTx
    /\ holder' = [holder EXCEPT ![k] = "script"]
    /\ left' = left \ {k}
    /\ UNCHANGED <<last, pc, reqs, todo, base, seen, jumped>>

Freed == [k \in Keys |-> IF holder[k] = "script" THEN NoTx ELSE holder[k]]

(* Mutant: the counters are set to what was read, without GREATEST. *)
SeedCountersToRead ==
    /\ Correcting /\ left = {}
    /\ last' = [k \in Keys |-> IF holder[k] = "script" THEN seen[k] ELSE last[k]]
    /\ jumped' = [k \in Keys |-> IF holder[k] = "script"
                                 THEN jumped[k] \cup last[k] + 1 .. seen[k] ELSE jumped[k]]
    /\ holder' = Freed
    /\ seen' = [k \in SeedRows |-> 0]
    /\ UNCHANGED <<pc, reqs, todo, base, left>>

(* Its end: every counter is GREATEST(last_number, what was read). *)
SeedCounters ==
    /\ Correcting /\ left = {}
    /\ last' = [k \in Keys |-> IF holder[k] = "script" /\ seen[k] > last[k]
                               THEN seen[k] ELSE last[k]]
    /\ jumped' = [k \in Keys |-> IF holder[k] = "script"
                                 THEN jumped[k] \cup last[k] + 1 .. seen[k] ELSE jumped[k]]
    /\ holder' = Freed
    /\ seen' = [k \in SeedRows |-> 0]
    /\ UNCHANGED <<pc, reqs, todo, base, left>>

(* The statement fails or the script dies: the counters stay. *)
SeedFails ==
    /\ Correcting
    /\ left' = {}
    /\ holder' = Freed
    /\ seen' = [k \in SeedRows |-> 0]
    /\ UNCHANGED <<last, pc, reqs, todo, base, jumped>>

Next ==
    \/ \E t \in Tx :
          \/ \E batch \in Batches : Send(t, batch)
          \/ \E k \in Keys : Raise(t, k)
          \/ Commit(t)
          \/ Rollback(t)
          \/ SaveUser(t)
    \/ ReadMax
    \/ \E k \in SeedRows : SeedRow(k)
    \/ SeedCounters
    \/ SeedFails

(* A row lock that is freed again and again is granted in the end          *)
(* (PostgreSQL queues waiters); a transaction that has its numbers ends.   *)
Fairness ==
    /\ \A t \in Tx : /\ SF_vars(\E k \in Keys : Raise(t, k))
                     /\ WF_vars(Commit(t))
    /\ \A k \in SeedRows : SF_vars(SeedRow(k))
    /\ WF_vars(SeedCounters)

Spec == Init /\ [][Next]_vars
FairSpec == Spec /\ Fairness

-----------------------------------------------------------------------------
TypeOK ==
    /\ last \in [Keys -> Nat]
    /\ holder \in [Keys -> Tx \cup {NoTx, "script"}]
    /\ pc \in [Tx -> {"idle", "raising", "taken", "loose", "lost",
                      "committed", "aborted"}]
    /\ reqs \in [Tx -> Batches \cup {<<>>}]
    /\ todo \in [Tx -> SUBSET Keys]
    /\ base \in [Tx -> [Keys -> Nat]]
    /\ seen \in [SeedRows -> Nat]
    /\ left \in SUBSET SeedRows
    /\ jumped \in [Keys -> SUBSET Nat]

(* Transactions whose numbers are, or may become, part of the data. *)
Live(t) == pc[t] \in {"taken", "loose", "committed"}

(* No two requests, of the same batch or of different transactions, ever   *)
(* hold the same number of one counter row, and none holds a number that   *)
(* was in use before the counters existed: what the single statement and   *)
(* the row lock kept until commit are for (nextMany), also while the seed  *)
(* script takes numbers of its own and corrects the counters.              *)
NoDuplicateNumber ==
    /\ \A t, u \in Tx : Live(t) /\ Live(u) =>
          \A i \in DOMAIN reqs[t], j \in DOMAIN reqs[u] :
             reqs[t][i] = reqs[u][j] /\ Number(t, i) = Number(u, j)
                => t = u /\ i = j
    /\ \A t \in Tx : Live(t) =>
          \A i \in DOMAIN reqs[t] : Number(t, i) > Legacy[reqs[t][i]]

(* Numbers of row k that an account of the seed script has taken and that  *)
(* no saved user carries.                                                  *)
Unsaved(k) == UNION {Pool(t, k) : t \in Issued \ Committed}

(* A counter the seed script has no part in is dense: committed data       *)
(* carries 1 .. last_number, whatever rolls back or dies (next() inside    *)
(* the caller's transaction).  On a row of the script, every number up to  *)
(* the counter that no data carries either was taken by one of the         *)
(* script's accounts that is not saved, or was passed over by a correction *)
(* and then lies below an employee number in use in some year of the       *)
(* company; no number is two of these at once.                             *)
OnlySeedLeavesGaps ==
    /\ \A k \in Keys \ SeedRows : InUse(k) = 1..last[k]
    /\ \A k \in SeedRows :
          /\ InUse(k) \cup Unsaved(k) \cup jumped[k] = 1..last[k]
          /\ InUse(k) \cap Unsaved(k) = {}
          /\ jumped[k] \cap (InUse(k) \cup Unsaved(k)) = {}
          /\ \A n \in jumped[k] : \E j \in Years[k] : \E m \in InUse(j) : n <= m

(* A statement that has been sent does not wait for ever. *)
EveryStatementEnds == \A t \in Tx : pc[t] = "raising" ~> pc[t] # "raising"

(* The numbers as a ledger: who took each line. *)
OwnerOf(k, n) ==
    IF n <= Legacy[k] THEN "legacy"
    ELSE IF n \in jumped[k] THEN "nobody"
    ELSE CHOOSE t \in Issued : n \in Pool(t, k)

Ledger == INSTANCE NumberLedger
    WITH book <- [k \in Keys |-> [n \in 1..last[k] |-> OwnerOf(k, n)]]

(* The counters implement the ledger: numbers appear in order, a batch at  *)
(* a time, never change owner, and only a correction by the seed script    *)
(* enters lines that nobody took.                                          *)
ImplementsLedger == Ledger!LedgerSpec
=============================================================================
