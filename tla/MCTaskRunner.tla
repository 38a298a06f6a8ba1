---------------------------- MODULE MCTaskRunner ----------------------------
(* Two instances; three calls in the first, as the schedule and the        *)
(* trigger make them, and one in the second.                               *)
EXTENDS TaskRunner, TLC

CONSTANTS i1, i2, c1, c2, c3, c4

MCInstance == {i1, i2}
MCCall == {c1, c2, c3, c4}
MChome == [c \in MCCall |-> IF c = c4 THEN i2 ELSE i1]
=============================================================================
