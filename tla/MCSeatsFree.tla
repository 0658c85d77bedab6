---------------------------- MODULE MCSeatsFree ----------------------------
(***************************************************************************)
(* Two events without a fee, checked in one run: one with three            *)
(* registrations and no waitlist, and one with approval, one registration  *)
(* and a waitlist of two.                                                  *)
(***************************************************************************)
EXTENDS MCRegistrationSeats

VARIABLE part

Waitlist == INSTANCE RegistrationSeats WITH
    Approval <- TRUE, Capacities <- {1}, StartStatus <- {"registration_open"}

NobodyWaits == /\ \A e \in Entries : entry[e] = "none"
               /\ \A s \in Sessions : sess[s].op # "join"
OneRegisters == /\ reg[r2] = "none" /\ (reg[r1] = "none" \/ reg[r3] = "none")
                /\ \A s \in Sessions : sess[s].op = "create" => sess[s].on = ann
\* The two registrations of one registrant can be exchanged.
RowSymmetry == {p @@ q : p \in Symmetry, q \in Permutations({r1, r3})}

FreeInit == \/ part = "free" /\ Init
            \/ part = "waitlist" /\ Waitlist!Init

FreeNext ==
    /\ UNCHANGED part
    /\ \/ part = "free" /\ Next /\ NobodyWaits'
       \/ part = "waitlist" /\ Waitlist!Next /\ OneRegisters'

FreeSpec == FreeInit /\ [][FreeNext]_<<vars, part>>

\* Without approval no decision overtakes another: a valid ticket belongs to a
\* registration that is confirmed, or whose refund has been asked for.
TicketsWithoutApproval == part = "free" => TicketMeansConfirmed

\* Without approval, every step of the concurrent requests and jobs is a step
\* of the ledger or leaves it alone: a seat is taken once, below the largest
\* capacity ever offered, and never taken back after it was given up.
ImplementsLedger ==
    /\ part = "free" => Ledger!Init
    /\ [][part = "free" => Ledger!Next]_<<part, Ledger!ledger>>
============================================================================
