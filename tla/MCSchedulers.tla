---------------------------- MODULE MCSchedulers ----------------------------
(***************************************************************************)
(* What the scheduled jobs achieve, checked in one run: the jobs that      *)
(* close an event and serve its waitlist, and the deliveries of the        *)
(* notifications.  The one that does not run keeps its initial state, so   *)
(* that the fairness of either is the fairness of the whole.               *)
(***************************************************************************)
EXTENDS MCRegistrationSeats

CONSTANTS n1, n2, d1, d2, w1, w2, none

VARIABLES part, note, due, wanted, active, got, batch, worker, losses

Outbox == INSTANCE NotificationDelivery WITH
    Rows <- {n1, n2}, Keys <- {}, NoKey <- none, Devices <- {d1}, Workers <- {w1, w2},
    MaxAttempts <- 2, MaxRetries <- 2, MaxLosses <- 1

outbox == <<note, due, wanted, active, got, batch, worker, losses>>
all == <<part, vars, outbox>>

JobsInit == part \in {"seats", "outbox"} /\ Init /\ Outbox!Init

\* A step of one component, which the other does not see.
Seats(A) == part = "seats" /\ A /\ UNCHANGED <<part, outbox>>
Delivery(A) == part = "outbox" /\ A /\ UNCHANGED <<part, vars>>

JobsNext == Seats(Next) \/ Delivery(Outbox!Next)

\* JobFairness and the fairness of Outbox!FairSpec, for the steps above.
JobsFairness ==
    /\ \A s \in Sessions : WF_all(Seats(Abort(s)))
    /\ SF_all(Seats(\E s \in Sessions : SyncLoad(s)))
    /\ \A s \in Sessions : SF_all(Seats(SyncCommit(s)))
    /\ WF_all(Seats(ExpireAndPromote))
    /\ WF_all(Delivery(Outbox!Tick))
    /\ \A w \in {w1, w2} : WF_all(Delivery(Outbox!Proceed(w)))

JobsSpec == JobsInit /\ [][JobsNext]_all /\ JobsFairness

\* The row behind a notification that always fails gets its turn.
BatchReachesNext == part = "outbox" => Outbox!BatchReachesNext
=============================================================================
