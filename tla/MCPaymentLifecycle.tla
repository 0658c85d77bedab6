------------------------ MODULE MCPaymentLifecycle ------------------------
(***************************************************************************)
(* Small instances of PaymentLifecycle.                                    *)
(***************************************************************************)
EXTENDS PaymentLifecycle, TLC

CONSTANTS o1, o2, g1, g2, s1, s2

OneOrder == {o1}
TwoOrders == {o1, o2}
NoGids == {}
OneGid == {g1}
TwoGids == {g1, g2}
TwoSessions == {s1, s2}
Symmetry == Permutations(TwoSessions)
============================================================================
