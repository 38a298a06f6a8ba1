------------------------------- MODULE MCJobs -------------------------------
(* Two clients and one row of either kind. *)
EXTENDS Jobs

CONSTANTS c1, c2

MCClient == {c1, c2}
=============================================================================
