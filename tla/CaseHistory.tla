---------------------------- MODULE CaseHistory ----------------------------
(***************************************************************************)
(* Writing versions: record() and recordMany() of                          *)
(* apps/api/src/case-history/case-history.service.ts.                      *)
(*                                                                         *)
(* A writer is one call.  In its own transaction it reads MAX(version) of  *)
(* its entities, and saves a row for every one of them at MAX + 1.         *)
(* TypeORM's save() (external) first loads the rows with these keys and    *)
(* then UPDATEs those it has found and INSERTs the others.  Transactions   *)
(* read what is committed (PostgreSQL's default); an INSERT of a key that  *)
(* exists fails the whole transaction, and this failure, like any other,   *)
(* is only logged.                                                         *)
(*                                                                         *)
(* A batch is a set: recordMany() also numbers an entity that is listed    *)
(* twice, but every caller lists rows of its table, each once.             *)
(***************************************************************************)
EXTENDS Naturals, Sequences, FiniteSets, FiniteSetsExt

CONSTANTS
    Subject,   \* (case_type, case_id)
    Writer,   \* calls of record() and recordMany()
    Nobody    \* no row with this version

ASSUME NobodyAssumption == Nobody \notin Writer
ASSUME WriterAssumption == IsFiniteSet(Writer)

Version == 1..Cardinality(Writer)

VARIABLES
    pc,       \* where every writer is
    batch,    \* its entities: one for record(), several for recordMany()
    version,  \* the version it computed for every entity
    found,    \* entities whose row save() found to exist
    author,   \* case_histories: who wrote this version of this entity
    met       \* writers that ran at the same time as another on an entity

historyVars == <<pc, batch, version, found, author, met>>

Versions(e) == {v \in Version : author[e][v] # Nobody}
Active == {w \in Writer : pc[w] \in {"numbered", "loaded"}}

HistoryInit ==
    /\ pc = [w \in Writer |-> "start"]
    /\ batch = [w \in Writer |-> {}]
    /\ version = [w \in Writer |-> [e \in Subject |-> 0]]
    /\ found = [w \in Writer |-> {}]
    /\ author = [e \in Subject |-> [v \in Version |-> Nobody]]
    /\ met = {}

(* Mutants: MAX is read without + 1, or the counting skips a number. *)
NextVersionStays(e) == Max({1} \cup Versions(e))
NextVersionSkips(e) == Max({0} \cup Versions(e)) + 2

(* MAX(version) + 1 for every entity of the batch. *)
NextVersion(e) == Max({0} \cup Versions(e)) + 1

NumberVersions(w, entities) ==
    /\ pc[w] = "start"
    /\ pc' = [pc EXCEPT ![w] = "numbered"]
    /\ batch' = [batch EXCEPT ![w] = entities]
    /\ version' = [version EXCEPT ![w] =
          [e \in Subject |-> IF e \in entities THEN NextVersion(e) ELSE 0]]
    /\ LET others == {u \in Active : batch[u] \cap entities # {}}
       IN met' = met \cup others \cup (IF others = {} THEN {} ELSE {w})
    /\ UNCHANGED <<found, author>>

(* save() looks for rows with the same keys. *)
LoadExisting(w) ==
    /\ pc[w] = "numbered"
    /\ pc' = [pc EXCEPT ![w] = "loaded"]
    /\ found' = [found EXCEPT ![w] =
          {e \in batch[w] : author[e][version[w][e]] # Nobody}]
    /\ UNCHANGED <<batch, version, author, met>>

(* The rows to insert whose key has been taken in the meantime. *)
Taken(w) == {e \in batch[w] \ found[w] : author[e][version[w][e]] # Nobody}

Save(w) ==
    /\ pc[w] = "loaded"
    /\ Taken(w) = {}
    /\ pc' = [pc EXCEPT ![w] = "saved"]
    /\ author' = [e \in Subject |->
          IF e \in batch[w] THEN [author[e] EXCEPT ![version[w][e]] = w] ELSE author[e]]
    /\ UNCHANGED <<batch, version, found, met>>

(* Mutant: the rows that could be inserted stay. *)
FailPartially(w) ==
    /\ pc[w] = "loaded"
    /\ Taken(w) # {}
    /\ pc' = [pc EXCEPT ![w] = "failed"]
    /\ author' = [e \in Subject |->
          IF e \in batch[w] \ Taken(w) THEN [author[e] EXCEPT ![version[w][e]] = w]
          ELSE author[e]]
    /\ UNCHANGED <<batch, version, found, met>>

(* duplicate key: the transaction is rolled back, the caller goes on. *)
Fail(w) ==
    /\ pc[w] = "loaded"
    /\ Taken(w) # {}
    /\ pc' = [pc EXCEPT ![w] = "failed"]
    /\ UNCHANGED <<batch, version, found, author, met>>

(* Anything else that fails under way is swallowed by the same catch: a    *)
(* statement, the connection, the commit.                                  *)
Break(w) ==
    /\ w \in Active
    /\ pc' = [pc EXCEPT ![w] = "broken"]
    /\ UNCHANGED <<batch, version, found, author, met>>

WriterStep(w) == LoadExisting(w) \/ Save(w) \/ Fail(w) \/ Break(w)

HistoryNext ==
    \E w \in Writer :
       \/ \E entities \in SUBSET Subject \ {{}} : NumberVersions(w, entities)
       \/ WriterStep(w)

HistorySpec == HistoryInit /\ [][HistoryNext]_historyVars

-----------------------------------------------------------------------------
HistoryTypeOK ==
    /\ pc \in [Writer -> {"start", "numbered", "loaded", "saved", "failed", "broken"}]
    /\ batch \in [Writer -> SUBSET Subject]
    /\ version \in [Writer -> [Subject -> Version \cup {0}]]
    /\ found \in [Writer -> SUBSET Subject]
    /\ author \in [Subject -> [Version -> Writer \cup {Nobody}]]
    /\ met \subseteq Writer

(* Versions of an entity are 1 .. n, whatever collides or fails: MAX + 1   *)
(* never skips a number (record, recordMany).                              *)
NoHoles == \A e \in Subject : \A v \in Versions(e) : v = 1 \/ v - 1 \in Versions(e)

(* A version that was written while nobody else wrote to the same entities *)
(* stays as it is: restoring and comparing can rely on it.                 *)
SoloVersionsStay ==
    \A w \in Writer \ met : pc[w] = "saved" =>
        \A e \in batch[w] : author[e][version[w][e]] = w

(* A key is only ever a duplicate because another writer has taken it in   *)
(* the meantime, and of a batch that failed in any way nothing is kept.    *)
RefusedForARival ==
    \A w \in Writer :
        /\ pc[w] = "failed" => w \in met
        /\ pc[w] \in {"failed", "broken"} => \A e \in Subject, v \in Version : author[e][v] # w

(* History is only added to, never changed (data-model.md:134); of two     *)
(* changes at the same time one fails (record, lines 153-154).             *)
AppendOnly ==
    [][\A e \in Subject : \A v \in Versions(e) : author'[e][v] = author[e][v]]_historyVars
=============================================================================
