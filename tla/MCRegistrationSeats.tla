------------------------ MODULE MCRegistrationSeats ------------------------
(***************************************************************************)
(* Small instances of RegistrationSeats.  Two registrants, the first of    *)
(* whom may register twice (again after a cancellation), and both may wait.*)
(***************************************************************************)
EXTENDS RegistrationSeats, TLC

CONSTANTS r1, r2, r3, ann, bob, e1, e2, s1, s2

MCIdents == {ann, bob}
MCKinds == {"individual", "viewer"}
MCKindOf == ann :> "individual" @@ bob :> "viewer"
SameKindOf == ann :> "individual" @@ bob :> "individual"
MCSessions == {s1, s2}
Symmetry == Permutations(MCSessions)
\* With equal kinds the two registrants, each with its rows, can be exchanged.
ExchangePair == r1 :> r2 @@ r2 :> r1 @@ ann :> bob @@ bob :> ann @@ e1 :> e2 @@ e2 :> e1
PairSymmetry == Symmetry \cup {ExchangePair @@ p : p \in Symmetry}

TwoRegs == {r1, r2}
\* Bounds of SeatsPaid: the event stays in its registration phase, either two
\* registrants compete or one of them waits for the other's place, and the
\* capacity changes only before anybody registers.
RegistrationPhase == evStatus \in {"registration_open", "registration_closed"} /\ ~passed
Waits == \/ \E e \in Entries : entry[e] # "none"
         \/ \E s \in Sessions : sess[s].op = "join"
OneWaits ==
    Waits => /\ \E r \in Regs : reg[r] = "none"
             /\ \E e \in Entries : entry[e] = "none"
             /\ \A s \in Sessions : sess[s].op = "create" => \A r \in Regs : reg[r] = "none"
CapacityFirst == capacity = 0 => \A r \in Regs : reg[r] = "none" /\ \A s \in Sessions : sess[s] = Idle
PaidBounds == RegistrationPhase /\ OneWaits /\ CapacityFirst

ThreeRegs == {r1, r2, r3}
TwoIdentOf == r1 :> ann @@ r2 :> bob
ThreeIdentOf == TwoIdentOf @@ r3 :> ann

NoEntries == {}
NoEntryIdent == <<>>
OneEntries == {e2}
OneEntryIdent == e2 :> bob
TwoEntries == {e1, e2}
TwoEntryIdent == e1 :> ann @@ e2 :> bob
============================================================================
