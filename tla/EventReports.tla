----------------------------- MODULE EventReports -----------------------------
(***************************************************************************)
(* What the dashboards say of an event with a fee while its registrations, *)
(* payments, refunds and tickets move on.  A report issues one statement   *)
(* after another, and each of them sees what has been committed until      *)
(* then.  The payments, refunds and scans are reduced to what the reports  *)
(* count; PaymentLifecycle and TicketPass have their details.              *)
(***************************************************************************)
EXTENDS Integers, FiniteSets, FiniteSetsExt

CONSTANTS
    Regs,     \* registrations, each with one payment
    Tickets,  \* tickets, one per participant
    OfReg,    \* function from a ticket to its registration
    Refunds,  \* refund requests that may be made
    Fee,      \* what a registration costs
    Parts,    \* amounts that are asked back
    Capacity, \* event_configurations.capacity
    MaxScans  \* bound of the entries of one ticket

RegistrationStatus == {"none", "pending_payment", "confirmed", "checked_in", "cancelled",
                       "refund_pending", "refund_failed"}
PaymentStatus == {"none", "initiated", "verified", "failed", "refunded"}
TicketStatus == {"none", "issued", "checked_in", "used", "cancelled", "revoked"}
RefundStatus == {"pending_admin_approval", "processed", "failed"}
NoRefund == [status |-> "none"]
Idle == [read |-> "nothing"]

VARIABLES
    reg,    \* status of every registration
    pay,    \* status of its payment
    refund, \* refunds
    ticket, \* status of every ticket
    scans,  \* check_ins of every ticket
    report  \* the financial report that is being put together, and, as history,
            \* the money that the event held when it was complete

vars == <<reg, pay, refund, ticket, scans, report>>

TypeOK ==
    /\ reg \in [Regs -> RegistrationStatus]
    /\ pay \in [Regs -> PaymentStatus]
    /\ refund \in [Refunds -> [of : Regs, amount : Parts, status : RefundStatus] \cup {NoRefund}]
    /\ ticket \in [Tickets -> TicketStatus]
    /\ scans \in [Tickets -> 0 .. MaxScans]
    /\ report \in {Idle} \cup [read : {"payments", "all"}, revenue : Nat, refunded : Nat, held : Nat]

Init ==
    /\ reg = [r \in Regs |-> "none"]
    /\ pay = [r \in Regs |-> "none"]
    /\ refund = [i \in Refunds |-> NoRefund]
    /\ ticket = [t \in Tickets |-> "none"]
    /\ scans = [t \in Tickets |-> 0]
    /\ report = Idle
----------------------------------------------------------------------------
(* What the rest of the system does.                                       *)

TicketsOf(r) == {t \in Tickets : OfReg[t] = r}
AmountOf(S) == MapThenSumSet(LAMBDA i : refund[i].amount, S)
RefundsOf(r, statuses) ==
    {i \in Refunds : refund[i] # NoRefund /\ refund[i].of = r /\ refund[i].status \in statuses}
Refunded(r) == AmountOf(RefundsOf(r, {"pending_admin_approval", "processed"}))

Register(r) ==
    /\ reg[r] = "none"
    /\ reg' = [reg EXCEPT ![r] = "pending_payment"]
    /\ pay' = [pay EXCEPT ![r] = "initiated"]
    /\ UNCHANGED <<refund, ticket, scans, report>>

Verify(r) ==
    /\ pay[r] = "initiated"
    /\ pay' = [pay EXCEPT ![r] = "verified"]
    /\ reg' = [reg EXCEPT ![r] = "confirmed"]
    /\ ticket' = [t \in Tickets |-> IF OfReg[t] = r THEN "issued" ELSE ticket[t]]
    /\ UNCHANGED <<refund, scans, report>>

CancelUnpaid(r) ==
    /\ reg[r] = "pending_payment"
    /\ reg' = [reg EXCEPT ![r] = "cancelled"]
    /\ pay' = [pay EXCEPT ![r] = "failed"]
    /\ UNCHANGED <<refund, ticket, scans, report>>

CheckIn(t) ==
    LET r == OfReg[t] IN
    /\ scans[t] < MaxScans
    /\ ticket[t] \in {"issued", "checked_in", "used"}
    /\ pay[r] = "verified"
    /\ reg[r] \in {"confirmed", "refund_failed", "checked_in"}
    /\ scans' = [scans EXCEPT ![t] = @ + 1]
    /\ ticket' = [ticket EXCEPT ![t] = IF scans[t] = 0 THEN "checked_in" ELSE "used"]
    /\ reg' = [reg EXCEPT ![r] = "checked_in"]
    /\ UNCHANGED <<pay, refund, report>>

Revoke(t) ==
    /\ ticket[t] # "none"
    /\ ticket' = [ticket EXCEPT ![t] = "revoked"]
    /\ UNCHANGED <<reg, pay, refund, scans, report>>

RequestRefund(r, i, amount) ==
    /\ pay[r] = "verified"
    /\ refund[i] = NoRefund
    /\ Refunded(r) + amount <= Fee
    /\ amount = Fee => reg[r] # "checked_in" /\ \A t \in TicketsOf(r) : ticket[t] # "checked_in"
    /\ refund' = [refund EXCEPT ![i] = [of |-> r, amount |-> amount,
                                        status |-> "pending_admin_approval"]]
    /\ reg' = [reg EXCEPT ![r] = IF @ = "cancelled" THEN @ ELSE "refund_pending"]
    /\ UNCHANGED <<pay, ticket, scans, report>>

\* _apply_processed_refund: what is pending counts as refunded.
ProcessRefund(i) ==
    LET r == refund[i].of IN
    /\ refund[i].status = "pending_admin_approval"
    /\ pay[r] = "verified"
    /\ refund[i].amount = Fee => reg[r] # "checked_in" /\ \A t \in TicketsOf(r) : ticket[t] # "checked_in"
    /\ refund' = [refund EXCEPT ![i].status = "processed"]
    /\ IF Refunded(r) >= Fee
       THEN /\ pay' = [pay EXCEPT ![r] = "refunded"]
            /\ reg' = [reg EXCEPT ![r] = "cancelled"]
            /\ ticket' = [t \in Tickets |->
                             IF OfReg[t] = r /\ ticket[t] # "revoked" THEN "cancelled" ELSE ticket[t]]
       ELSE /\ reg' = [reg EXCEPT ![r] = IF @ = "refund_pending" THEN "confirmed" ELSE @]
            /\ UNCHANGED <<pay, ticket>>
    /\ UNCHANGED <<scans, report>>

FailRefund(i) ==
    LET r == refund[i].of IN
    /\ refund[i].status = "pending_admin_approval"
    /\ pay[r] = "verified"
    /\ refund' = [refund EXCEPT ![i].status = "failed"]
    /\ reg' = [reg EXCEPT ![r] = IF @ = "refund_pending" THEN "refund_failed" ELSE @]
    /\ UNCHANGED <<pay, ticket, scans, report>>
----------------------------------------------------------------------------
(* The financial report: one statement for the payments and, later, one    *)
(* for the refunds.                                                        *)

Paid(statuses) == {r \in Regs : pay[r] \in statuses}
VerifiedSum == Fee * Cardinality(Paid({"verified"}))
ProcessedRefunds == {i \in Refunds : refund[i].status = "processed"}

\* What was paid and has not been paid back.
Held == Fee * Cardinality(Paid({"verified", "refunded"})) - AmountOf(ProcessedRefunds)

ReadPayments ==
    /\ report.read # "payments"
    /\ report' = [read |-> "payments", revenue |-> VerifiedSum, refunded |-> 0, held |-> 0]
    /\ UNCHANGED <<reg, pay, refund, ticket, scans>>

ReadRefunds ==
    /\ report.read = "payments"
    /\ report' = [report EXCEPT !.read = "all", !.refunded = AmountOf(ProcessedRefunds),
                                !.held = Held]
    /\ UNCHANGED <<reg, pay, refund, ticket, scans>>

\* The report is shown; the next one reads anew.
Close == report.read = "all" /\ report' = Idle /\ UNCHANGED <<reg, pay, refund, ticket, scans>>

----------------------------------------------------------------------------
(* The operations report, the attendance report and the command center.    *)

InStatus(statuses) == {r \in Regs : reg[r] \in statuses}
ActiveRegistrations ==
    InStatus({"pending_payment", "confirmed", "checked_in", "refund_pending", "refund_failed"})
Available == Capacity - Cardinality(ActiveRegistrations)

AttendanceEligible == InStatus({"confirmed", "checked_in", "refund_failed"})
ValidTicket(t) == ticket[t] \in {"issued", "checked_in", "used"} /\ OfReg[t] \in AttendanceEligible
CheckedInTickets == {t \in Tickets : ValidTicket(t) /\ scans[t] > 0}
NoShows == Max({Cardinality(AttendanceEligible) - Cardinality(CheckedInTickets), 0})
Attended == {r \in AttendanceEligible : \E t \in TicketsOf(r) : t \in CheckedInTickets}

RefundsIn(statuses) == {i \in Refunds : refund[i].status \in statuses}
Alerts ==
    {a \in {"capacity_full", "refunds_pending", "refunds_failed"} :
        CASE a = "capacity_full" -> Available <= 0
          [] a = "refunds_pending" -> RefundsIn({"pending_admin_approval"}) # {}
          [] a = "refunds_failed" -> RefundsIn({"failed"}) # {}}
----------------------------------------------------------------------------
Next ==
    \/ \E r \in Regs :
          \/ Register(r) \/ Verify(r) \/ CancelUnpaid(r)
          \/ \E i \in Refunds, amount \in Parts : RequestRefund(r, i, amount)
    \/ \E t \in Tickets : CheckIn(t) \/ Revoke(t)
    \/ \E i \in Refunds : ProcessRefund(i) \/ FailRefund(i)
    \/ ReadPayments \/ ReadRefunds \/ Close

Spec == Init /\ [][Next]_vars
----------------------------------------------------------------------------
(* Properties.                                                             *)

\* A financial report never states more than the event held of its
\* participants' money when the report was complete, although payments and
\* refunds are read one after the other; it may state less, because a payment
\* that was refunded in full leaves the revenue and its refunds are still
\* deducted.
NetNotOverstated == report.read = "all" => report.revenue - report.refunded <= report.held

\* The attendance report counts no absentee that the list of participants does
\* not show, and misses none unless a registration has several valid tickets.
NoShowsListed ==
    LET absent == Cardinality(AttendanceEligible \ Attended) IN
    /\ NoShows <= absent
    /\ (\A r \in Regs : Cardinality({t \in TicketsOf(r) : ValidTicket(t)}) <= 1) => NoShows = absent

\* Whoever waits for a refund, or was refused one, shows up as an alert of the
\* command center, whichever parts of the fee were asked back.
RefundsAlerted ==
    /\ InStatus({"refund_pending"}) # {} => "refunds_pending" \in Alerts
    /\ InStatus({"refund_failed"}) # {} => "refunds_failed" \in Alerts
=============================================================================
