------------------------------ MODULE SeatLedger ------------------------------
(***************************************************************************)
(* What the seats of an event without a fee promise, whatever requests run *)
(* at once: a registration takes a seat at most once, only while fewer     *)
(* seats are held than the event has ever offered, and never gets back the *)
(* one it has given up.                                                    *)
(***************************************************************************)
EXTENDS Integers, FiniteSets

CONSTANT Regs \* registrations that may be created

VARIABLES
    seat, \* what has become of each registration's seat
    peak  \* the largest capacity the event was ever given

ledger == <<seat, peak>>

Held == {r \in Regs : seat[r] = "held"}

LedgerTypeOK == seat \in [Regs -> {"never", "held", "given_up"}] /\ peak \in Nat

Init == seat = [r \in Regs |-> "never"] /\ peak \in Nat

Take(r) ==
    /\ seat[r] = "never"
    /\ Cardinality(Held) < peak
    /\ seat' = [seat EXCEPT ![r] = "held"]
    /\ UNCHANGED peak

GiveUp(r) ==
    /\ seat[r] = "held"
    /\ seat' = [seat EXCEPT ![r] = "given_up"]
    /\ UNCHANGED peak

Offer == peak' \in Nat /\ peak' > peak /\ UNCHANGED seat

Next == Offer \/ \E r \in Regs : Take(r) \/ GiveUp(r)

Spec == Init /\ [][Next]_ledger
=============================================================================
