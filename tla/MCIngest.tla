------------------------------ MODULE MCIngest ------------------------------
EXTENDS Ingest, TLC

CONSTANTS r1, r2, k1, b1, e1, e2

(* A request and its repetition, for the same case. *)
SameKey == [r \in {r1, r2} |-> k1]
SameBody == [r \in {r1, r2} |-> b1]
OneCase == [r \in {r1, r2} |-> e1]

(* The same detection, which a neighbour sends under another external id.  *)
Resent == [e \in {e1, e2} |-> e1]
=============================================================================
