----------------------------- MODULE GateVerdict -----------------------------
(***************************************************************************)
(* What the gate says of a scanned ticket and what it does with it: the    *)
(* preview of POST /tickets/validate, the check-in that follows, and the   *)
(* check-out.  Preview and check-in test the same things in two separate   *)
(* lists, while the console, refunds and the clock change them.  The       *)
(* requests of the gate are atomic here; TicketPass has their overlaps.    *)
(***************************************************************************)
EXTENDS Integers, Sequences

CONSTANTS
    Zones,      \* access zones
    NoZone,     \* access_zone_id is not given
    Policies,   \* rows of access_policies
    NoPolicy,
    Contents,   \* what a policy may say
    LastDay,    \* bound of the clock, in days
    Ends        \* days on which the event may be made to end

VARIABLES
    tk,       \* the ticket
    policy,   \* access_policies
    zone,     \* access_zones of the ticket's event
    pay,      \* payments.status, or that the ticket has no payment
    reg,      \* registrations.status
    visits,   \* check_ins by entry_number: whether each has an exited_at
    end,      \* events.end_date
    today

vars == <<tk, policy, zone, pay, reg, visits, end, today>>
Desk == <<policy, zone, pay, reg, end, today>>

Missing == [zones |-> {}, max |-> 0]
Used == {"checked_in", "used"}
Ended == {"cancelled", "revoked"}
Confirmed == {"confirmed", "refund_failed", "checked_in"}

\* A scan as it is sent: an authentic signature, a ticket code that is still
\* the ticket's, the event in the barcode, the event the gate names, and a
\* member of the ticket's event's staff.
Scan == [signed : BOOLEAN, current : BOOLEAN, here : BOOLEAN, asked : BOOLEAN, staff : BOOLEAN]

TypeOK ==
    /\ tk \in [status : {"issued", "active"} \cup Used \cup Ended, count : Nat,
               policy : Policies \cup {NoPolicy}, from : Nat, until : Nat, dates : SUBSET Nat]
    /\ policy \in [Policies -> Contents \cup {Missing}]
    /\ zone \in [Zones -> {"none", "active", "inactive"}]
    /\ pay \in {"free", "verified", "refunded"}
    /\ reg \in Confirmed \cup {"refund_pending", "cancelled"}
    /\ visits \in Seq(BOOLEAN)
    /\ end \in Ends /\ today \in 0 .. LastDay

\* A policy names active zones of the event only, which stay active.
Grantable(c) == \A z \in c.zones : zone[z] = "active"

\* The columns a ticket copies from its policy; no limit in time without one.
Terms(p) ==
    IF p = NoPolicy THEN [from |-> 0, until |-> LastDay + 1, dates |-> {}]
    ELSE [from |-> policy[p].from, until |-> policy[p].until, dates |-> policy[p].dates]

Init ==
    /\ zone \in [Zones -> {"none", "active", "inactive"}]
    /\ policy \in [Policies -> {c \in Contents : Grantable(c)} \cup {Missing}]
    /\ \E p \in Policies \cup {NoPolicy} :
          /\ p # NoPolicy => policy[p] # Missing
          /\ tk = [status |-> "issued", count |-> 0, policy |-> p, from |-> Terms(p).from,
                   until |-> Terms(p).until, dates |-> Terms(p).dates]
    /\ pay \in {"free", "verified"} /\ reg = "confirmed" /\ visits = <<>>
    /\ end \in Ends /\ today = 0
----------------------------------------------------------------------------
(* validate_scan and check_in.                                             *)

\* Several entries need allows_reentry and max_entries; max is 1 without it.
EntriesLeft(t) == t.policy # NoPolicy /\ t.count < policy[t.policy].max
AllowedZones == IF tk.policy = NoPolicy THEN {} ELSE policy[tk.policy].zones
ZoneAllowed(z) == AllowedZones # {} => z \in AllowedZones
ZoneOpen(z) == z # NoZone => zone[z] = "active"

Reasons(scan, z) == <<
    <<"invalid_signature", ~scan.signed>>,
    <<"unknown_ticket", ~scan.current>>,
    <<"wrong_event", ~scan.here \/ ~scan.asked>>,
    <<"unauthorized_staff", ~scan.staff>>,
    <<"cancelled", tk.status \in Ended>>,
    <<"already_used", tk.status \in Used /\ tk.count >= 1 /\ ~EntriesLeft(tk)>>,
    <<"event_ended", today >= end>>,
    <<"outside_time_window", today < tk.from>>,
    <<"expired", today >= tk.until>>,
    <<"outside_time_window", tk.dates # {} /\ today \notin tk.dates>>,
    <<"access_denied", ~ZoneAllowed(z) \/ ~ZoneOpen(z)>>,
    <<"refunded", pay = "refunded">>,
    <<"payment_not_verified", pay \notin {"free", "verified"}>>,
    <<"registration_not_confirmed", reg \notin Confirmed>> >>

\* The first reason that applies is the verdict.
Preview(scan, z) ==
    LET reasons == Reasons(scan, z)
        against == {i \in DOMAIN reasons : reasons[i][2]}
    IN  IF against = {} THEN "valid"
        ELSE reasons[CHOOSE i \in against : \A j \in against : i <= j][1]

\* resolve_by_scan_payload finds the ticket whose id the check-in names.
Resolves(scan) == scan.signed /\ scan.current /\ scan.here

MayCheckIn(staff, z) ==
    /\ staff
    /\ ZoneAllowed(z) /\ ZoneOpen(z)
    /\ tk.status \in Used => EntriesLeft(tk)
    /\ tk.status \in {"issued", "active"} \cup Used
    /\ today < end /\ tk.from <= today /\ today < tk.until
    /\ tk.dates # {} => today \in tk.dates
    /\ pay \in {"free", "verified"}
    /\ reg \in Confirmed

CheckIn(z) ==
    /\ MayCheckIn(TRUE, z)
    /\ visits' = Append(visits, FALSE)
    /\ tk' = [tk EXCEPT !.count = @ + 1, !.status = IF tk.count = 0 THEN "checked_in" ELSE "used"]
    /\ reg' = "checked_in"
    /\ UNCHANGED <<policy, zone, pay, end, today>>

\* The latest entry may be left, whatever has become of the ticket.
CheckOut ==
    /\ visits # <<>>
    /\ ~visits[Len(visits)]
    /\ visits' = [visits EXCEPT ![Len(visits)] = TRUE]
    /\ UNCHANGED <<tk, Desk>>
----------------------------------------------------------------------------
(* The console.                                                            *)

Revoke ==
    /\ tk.status # "revoked"
    /\ tk' = [tk EXCEPT !.status = "revoked"]
    /\ UNCHANGED <<visits, Desk>>

Replace ==
    /\ tk.status \notin Ended /\ tk.count = 0
    /\ tk' = [tk EXCEPT !.status = "active", !.count = 0]
    /\ UNCHANGED <<visits, Desk>>

AssignAccessType(p) ==
    /\ policy[p] # Missing
    /\ tk' = [tk EXCEPT !.policy = p, !.from = Terms(p).from, !.until = Terms(p).until,
                        !.dates = Terms(p).dates]
    /\ UNCHANGED <<visits, Desk>>

\* The ticket keeps the terms that it has copied.
UpsertPolicy(p, c) ==
    /\ Grantable(c)
    /\ policy' = [policy EXCEPT ![p] = c]
    /\ UNCHANGED <<tk, zone, pay, reg, visits, end, today>>

CreateZone(z, state) ==
    /\ zone[z] = "none"
    /\ zone' = [zone EXCEPT ![z] = state]
    /\ UNCHANGED <<tk, policy, pay, reg, visits, end, today>>

MoveEnd(d) ==
    /\ end' = d
    /\ UNCHANGED <<tk, policy, zone, pay, reg, visits, today>>

NextDay ==
    /\ today < LastDay
    /\ today' = today + 1
    /\ UNCHANGED <<tk, policy, zone, pay, reg, visits, end>>
----------------------------------------------------------------------------
(* The registration and its payment (PaymentLifecycle, RegistrationSeats). *)

AskRefund ==
    /\ pay = "verified" /\ reg # "cancelled"
    /\ reg' = "refund_pending"
    /\ UNCHANGED <<tk, policy, zone, pay, visits, end, today>>

\* Declined, or a part of the amount was refunded.
EndRefund(outcome) ==
    /\ reg = "refund_pending"
    /\ reg' = outcome
    /\ UNCHANGED <<tk, policy, zone, pay, visits, end, today>>

Cancelled(t) == IF t.status \in Ended THEN t ELSE [t EXCEPT !.status = "cancelled"]

\* A payment refunded in full, if need be in parts after an entry, or a
\* cancellation without a payment.
EndRegistration ==
    /\ reg # "cancelled"
    /\ pay # "free" => reg = "refund_pending"
    /\ pay' = IF pay = "free" THEN pay ELSE "refunded"
    /\ reg' = "cancelled"
    /\ tk' = Cancelled(tk)
    /\ UNCHANGED <<policy, zone, visits, end, today>>
----------------------------------------------------------------------------
Next ==
    \/ \E z \in Zones \cup {NoZone} : CheckIn(z)
    \/ CheckOut \/ Revoke \/ Replace
    \/ \E p \in Policies : AssignAccessType(p) \/ \E c \in Contents : UpsertPolicy(p, c)
    \/ \E z \in Zones, state \in {"active", "inactive"} : CreateZone(z, state)
    \/ \E d \in Ends : MoveEnd(d)
    \/ NextDay
    \/ AskRefund \/ EndRegistration
    \/ \E outcome \in {"confirmed", "refund_failed"} : EndRefund(outcome)

Spec == Init /\ [][Next]_vars
----------------------------------------------------------------------------
(* Properties.                                                             *)

\* What the preview calls valid the gate admits, and what the gate admits the
\* preview calls valid, unless the gate names an event that is not the
\* ticket's, which only the preview looks at.
PreviewAgrees ==
    \A scan \in Scan, z \in Zones \cup {NoZone} :
        Preview(scan, z) = "valid" <=> scan.asked /\ Resolves(scan) /\ MayCheckIn(scan.staff, z)

\* A ticket counts the entries made with it, also when it was replaced.
EntriesCounted == tk.count = Len(visits)
============================================================================
