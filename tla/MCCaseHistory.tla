--------------------------- MODULE MCCaseHistory ---------------------------
(* Three calls on two entities. *)
EXTENDS CaseHistory, TLC

CONSTANTS e1, e2, w1, w2, w3

MCSubject == {e1, e2}
MCWriter == {w1, w2, w3}
============================================================================
