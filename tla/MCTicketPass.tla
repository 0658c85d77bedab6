--------------------------- MODULE MCTicketPass ---------------------------
(***************************************************************************)
(* Small instances of TicketPass.                                          *)
(***************************************************************************)
EXTENDS TicketPass, TLC

CONSTANTS t1, t2, ann, bob, cat, general, x1, x2, k1, s1, s2

OneTicket == {t1}
TwoTickets == {t1, t2}
OneBuyer == t1 :> ann
TwoBuyers == t1 :> ann @@ t2 :> ann
OneUser == {ann}
OneType == {general}
NoTransfers == {}
NoKeys == {}
OneKey == {k1}
TwoSessions == {s1, s2}
SessionSymmetry == Permutations(TwoSessions)
\* Bound of TicketGate: three entries in all.
ThreeEntries == Cardinality(rows) <= 3
ScanSymmetry == {p @@ q : p \in Permutations(TwoTickets), q \in SessionSymmetry}
============================================================================
