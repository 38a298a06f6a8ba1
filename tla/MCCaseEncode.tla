---------------------------- MODULE MCCaseEncode ----------------------------
(* Three transactions, t3 an account of the seed script, and four counter  *)
(* rows, batches of up to two requests.  Row 1 counts cases and carries a  *)
(* number from before the counters were made; row 3 counts the employees   *)
(* of a company that already had two in the year of row 2; row 4 counts    *)
(* those of a company without any.                                         *)
EXTENDS CaseEncode, TLC

CONSTANTS t1, t2, t3

MCTx       == {t1, t2, t3}
MCBare     == {t3}
MCKeys     == 1..4
MCSeedRows == {3, 4}
MCYears    == 3 :> {2, 3} @@ 4 :> {4}
MCLegacy   == <<1, 2, 0, 0>>
============================================================================
