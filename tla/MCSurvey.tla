------------------------------ MODULE MCSurvey ------------------------------
(* Two orders, one with a stretch of road. *)
EXTENDS Survey, TLC

CONSTANTS o1, o2, d1

MCOrderOf == d1 :> o1
=============================================================================
