------------------------------ MODULE Assistance ------------------------------
(***************************************************************************)
(* The assistance request of a registration: who reviews it, its decision, *)
(* and the discount code an approval creates for a fee waiver.             *)
(***************************************************************************)
EXTENDS Integers, FiniteSets, StaleCopy

CONSTANTS
    Reviewers, \* possible staff leads, coordinators and managers of the event
    Amounts,   \* fee waivers that may be asked or granted; 0 is none
    NoCode,
    Sessions   \* requests that run concurrently

VARIABLES
    team,    \* reviewers the event has now
    request, \* assistance_requests: the only row of the registration
    code,    \* value of the code WAIVE-<request>, unique per event, or NoCode
    late,    \* a decision has written over another one
    sess     \* what every request has read

vars == <<team, request, code, late, sess>>

NoRequest == [status |-> "none"]
Request == [status : {"assigned", "approved", "rejected"}, asked : Amounts,
            applied : BOOLEAN, decided : BOOLEAN]
Idle == [at |-> "idle"]

TypeOK ==
    /\ team \subseteq Reviewers
    /\ request \in Request \cup {NoRequest}
    /\ code \in Amounts \cup {NoCode}
    /\ late \in BOOLEAN
    /\ sess \in [Sessions -> {Idle, [at |-> "create"]} \cup [at : {"decide"}, copy : Request]]

Init ==
    /\ team = {} /\ request = NoRequest /\ code = NoCode /\ late = FALSE
    /\ sess = [s \in Sessions |-> Idle]

ChangeTeam(set) == team' = set /\ UNCHANGED <<request, code, late, sess>>

\* The search for an existing request, then for reviewers.
CreateCheck(s) ==
    /\ sess[s] = Idle
    /\ request = NoRequest
    /\ team # {}
    /\ sess' = [sess EXCEPT ![s] = [at |-> "create"]]
    /\ UNCHANGED <<team, request, code, late>>

\* The registration is unique: the second insert fails.
CreateCommit(s, amount) ==
    /\ sess[s].at = "create"
    /\ request' = IF request = NoRequest
                  THEN [status |-> "assigned", asked |-> amount, applied |-> FALSE, decided |-> FALSE]
                  ELSE request
    /\ sess' = [sess EXCEPT ![s] = Idle]
    /\ UNCHANGED <<team, code, late>>

\* Mutant: a decision may be taken again.
AnyTime(r) == r.decided \in BOOLEAN
Undecided(r) == r.status = "assigned"

DecideRead(s) ==
    /\ sess[s] = Idle
    /\ request # NoRequest
    /\ Undecided(request)
    /\ sess' = [sess EXCEPT ![s] = [at |-> "decide", copy |-> request]]
    /\ UNCHANGED <<team, request, code, late>>

\* The amount granted is the reviewer's, or else the one asked for; a second
\* approval with a waiver fails at the unique code.
Approve(s, amount) ==
    LET c == sess[s].copy
        waiver == IF amount > 0 THEN amount ELSE c.asked
    IN /\ sess[s].at = "decide"
       /\ waiver > 0 => code = NoCode
       /\ code' = IF waiver > 0 THEN waiver ELSE code
       /\ request' = Written(request, c, [c EXCEPT !.status = "approved", !.decided = TRUE,
                                                   !.applied = @ \/ waiver > 0])
       /\ late' = (late \/ request # c)
       /\ sess' = [sess EXCEPT ![s] = Idle]
       /\ UNCHANGED team

Reject(s) ==
    /\ sess[s].at = "decide"
    /\ request' = Written(request, sess[s].copy, [sess[s].copy EXCEPT !.status = "rejected", !.decided = TRUE])
    /\ late' = (late \/ request # sess[s].copy)
    /\ sess' = [sess EXCEPT ![s] = Idle]
    /\ UNCHANGED <<team, code>>

DecideFails(s) ==
    /\ sess[s].at = "decide"
    /\ sess' = [sess EXCEPT ![s] = Idle]
    /\ UNCHANGED <<team, request, code, late>>

Next ==
    \/ \E set \in SUBSET Reviewers : ChangeTeam(set)
    \/ \E s \in Sessions :
          \/ CreateCheck(s)
          \/ \E amount \in Amounts : CreateCommit(s, amount) \/ Approve(s, amount)
          \/ DecideRead(s)
          \/ Reject(s)
          \/ DecideFails(s)

Spec == Init /\ [][Next]_vars
----------------------------------------------------------------------------
(* Properties.                                                             *)

\* A waiver code exists exactly when the request names it, also when two
\* reviewers decide at once, and it was asked for or granted; unless they do
\* decide at once, the request that has it is approved.
WaiverGranted ==
    /\ code # NoCode <=> (request # NoRequest /\ request.applied)
    /\ code # NoCode => request.decided /\ code > 0
    /\ (~late /\ code # NoCode) => request.status = "approved"
=============================================================================
