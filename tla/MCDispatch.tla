----------------------------- MODULE MCDispatch -----------------------------
(* One inspection, one case, one order id, one worker; the runs choose the *)
(* clients.                                                                *)
EXTENDS Dispatch, TLC

CONSTANTS c1, c2, o1, k1, m1, w1

OneClient  == {c1}
TwoClients == {c1, c2}
OneOrder   == {o1}
OneCase    == {k1}
OneMaint   == {m1}
OneWorker  == {w1}
Nothing    == {}

Bound(order, maint, case) ==
    [e \in Entity |-> IF e \in Order THEN order ELSE IF e \in Maint THEN maint ELSE case]
SequentialBound == Bound(5, 3, 2)
ConcurrentBound == Bound(2, 2, 2)

Interchangeable == Permutations({c1, c2})
=============================================================================
