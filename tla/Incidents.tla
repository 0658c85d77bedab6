------------------------------- MODULE Incidents -------------------------------
(***************************************************************************)
(* One incident of an event: its status graph, its severity, and the       *)
(* escalation that tells the operational staff of a critical one.          *)
(***************************************************************************)
EXTENDS Integers, FiniteSets, StaleCopy

CONSTANTS
    Staff,   \* administrators and managers of the event
    Sessions \* requests that run concurrently

Severity == {"low", "critical"}
TRANSITIONS ==
    {<<"open", "acknowledged">>, <<"open", "in_progress">>, <<"open", "cancelled">>,
     <<"acknowledged", "in_progress">>, <<"acknowledged", "resolved">>, <<"acknowledged", "cancelled">>,
     <<"in_progress", "resolved">>, <<"in_progress", "cancelled">>,
     <<"resolved", "closed">>, <<"resolved", "in_progress">>}
Status == {t[1] : t \in TRANSITIONS} \cup {t[2] : t \in TRANSITIONS}

VARIABLES
    incident,   \* the row, or NoIncident
    recipients, \* those who hold an operational role now
    told,       \* dedupe keys of the escalation's notifications, one per person
    sess        \* the copy of every update, with what it is about to write

vars == <<incident, recipients, told, sess>>

NoIncident == [status |-> "none"]
Incident == [status : Status, severity : Severity, escalation_count : 0 .. Cardinality(Staff),
             resolved : BOOLEAN, closed : BOOLEAN]
Idle == [at |-> "idle"]

TypeOK ==
    /\ incident \in Incident \cup {NoIncident}
    /\ recipients \in (SUBSET Staff) \ {{}}
    /\ told \subseteq Staff
    /\ sess \in [Sessions -> {Idle} \cup [at : {"update"}, copy : Incident]]

\* A platform administrator always remains (module Staffing), so somebody is told.
Init ==
    /\ incident = NoIncident
    /\ recipients \in (SUBSET Staff) \ {{}}
    /\ told = {}
    /\ sess = [s \in Sessions |-> Idle]

ChangeRoles(set) ==
    /\ set # {}
    /\ recipients' = set
    /\ UNCHANGED <<incident, told, sess>>

\* dedupe_key is unique: with one recipient told before, the insert fails and
\* the request with it.
CanEscalate == recipients \cap told = {}

Create(sev) ==
    /\ incident = NoIncident
    /\ incident' = [status |-> "open", severity |-> sev, resolved |-> FALSE, closed |-> FALSE,
                    escalation_count |-> IF sev = "critical" THEN 1 ELSE 0]
    /\ told' = IF sev = "critical" THEN recipients ELSE {}
    /\ UNCHANGED <<recipients, sess>>

UpdateRead(s) ==
    /\ sess[s] = Idle
    /\ incident # NoIncident
    /\ sess' = [sess EXCEPT ![s] = [at |-> "update", copy |-> incident]]
    /\ UNCHANGED <<incident, recipients, told>>

Raised(old, sev) == sev = "critical" /\ old # "critical"

\* A payload without a status passes the check for a terminal incident, and so
\* does in_progress, which the status graph then refuses.
UpdateCommit(s, st, sev) ==
    /\ sess[s].at = "update"
    /\ LET c == sess[s].copy
           new == [c EXCEPT !.status = st, !.severity = sev,
                            !.resolved = @ \/ (st = "resolved" /\ st # c.status),
                            !.closed = @ \/ (st = "closed" /\ st # c.status),
                            !.escalation_count = IF Raised(c.severity, sev) THEN @ + 1 ELSE @]
       IN /\ st = c.status \/ <<c.status, st>> \in TRANSITIONS
          /\ incident' = Written(incident, c, new)
          /\ IF Raised(c.severity, sev) THEN CanEscalate /\ told' = told \cup recipients ELSE UNCHANGED told
    /\ sess' = [sess EXCEPT ![s] = Idle]
    /\ UNCHANGED recipients

\* Refused, failed or lost.
UpdateFails(s) ==
    /\ sess[s] # Idle
    /\ sess' = [sess EXCEPT ![s] = Idle]
    /\ UNCHANGED <<incident, recipients, told>>

Next ==
    \/ \E set \in SUBSET Staff : ChangeRoles(set)
    \/ \E sev \in Severity : Create(sev)
    \/ \E s \in Sessions :
          \/ UpdateRead(s)
          \/ \E st \in Status, sev \in Severity : UpdateCommit(s, st, sev)
          \/ UpdateFails(s)

Spec == Init /\ [][Next]_vars
----------------------------------------------------------------------------
(* Properties.                                                             *)

\* Whatever updates overlap: a critical incident has been escalated, every
\* escalation told somebody who had not been told, so that there are no more
\* escalations than people told, and a closed incident has been resolved.
FollowedUp ==
    incident # NoIncident =>
        /\ incident.severity = "critical" => told # {} /\ incident.escalation_count > 0
        /\ incident.escalation_count <= Cardinality(told)
        /\ incident.status = "closed" => incident.resolved /\ incident.closed
=============================================================================
