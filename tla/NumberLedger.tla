---------------------------- MODULE NumberLedger ----------------------------
(***************************************************************************)
(* What the numbering of cases, orders, inspections and employees promises *)
(* (docs/internal/architecture.md:150, "1000 numbers, 0 duplicates, no     *)
(* gap"): the numbers of one counter row are a ledger, every line of which *)
(* was taken by exactly one transaction, and a transaction gets all of its *)
(* numbers in one step or none.  Only the rows that a correction of the    *)
(* seed script moves also have lines that nobody took.                     *)
(*                                                                         *)
(* book[k][n] is the transaction that took number n of counter row k.      *)
(* Legacy lines were there before the counters were introduced.            *)
(***************************************************************************)
EXTENDS Naturals, Sequences

CONSTANTS Keys,     \* counter rows (prefix, seq_date) in their sort order
          Tx,       \* transactions that take numbers
          SeedRows, \* rows the seed script corrects
          Legacy    \* [Keys -> Nat]: numbers issued before the counters

VARIABLE book

LegacyOwner == "legacy"
Nobody == "nobody"

LedgerInit == book = [k \in Keys |-> [n \in 1..Legacy[k] |-> LegacyOwner]]

Owns(t) == \E k \in Keys : \E n \in DOMAIN book[k] : book[k][n] = t

(* The ledger of row k gets lines of owner w, possibly none, at its end. *)
Grows(k, w) ==
    /\ Len(book'[k]) >= Len(book[k])
    /\ \A n \in DOMAIN book'[k] :
          book'[k][n] = IF n <= Len(book[k]) THEN book[k][n] ELSE w

(* One transaction appends its lines to every counter row it asked for. *)
Enter(t) ==
    /\ ~ Owns(t)
    /\ book' # book
    /\ \A k \in Keys : Grows(k, t)

(* A correction passes over numbers of the seed script's rows. *)
PassOver ==
    /\ \A k \in Keys : Grows(k, Nobody)
    /\ \A k \in Keys \ SeedRows : book'[k] = book[k]

LedgerNext ==
    /\ DOMAIN book' = Keys
    /\ \A k \in Keys : book'[k] \in Seq(Tx \cup {LegacyOwner, Nobody})
    /\ PassOver \/ \E t \in Tx : Enter(t)

LedgerSpec == LedgerInit /\ [][LedgerNext]_book
=============================================================================
