----------------------------- MODULE TeamRoster -----------------------------
(***************************************************************************)
(* One team: its roster, which invitations, join requests and removals     *)
(* change, and its submission, which registers the members of the moment.  *)
(*                                                                         *)
(* A request loads the team and only then waits for its lock: the roster's *)
(* operations and the submission take different locks, leaving and the     *)
(* console's approval take none.  So every request decides on the copy of  *)
(* the team in its session, while members, invitations and join requests   *)
(* are read when it has the lock.  A column whose new value equals the     *)
(* copy's is not written.                                                  *)
(***************************************************************************)
EXTENDS Integers, FiniteSets

CONSTANTS
    Captain,   \* the account that created the team
    Users,     \* accounts, with the captain; each has one mobile number
    Regs,      \* rows of registrations that may be created for the team
    NoReg,     \* registration_id IS NULL
    MinSize,   \* rules.team_size.min
    MaxSize,   \* rules.team_size.max
    Requests   \* requests that run concurrently

TeamStatus == {"draft", "inviting", "submitted", "approved"}
Answer == {"none", "pending", "accepted", "rejected"}
Live == {"pending", "approved"}
Registration == [status : Live \cup {"rejected", "cancelled"}, who : SUBSET Users, by : {"submit", "direct"}]
None == [status |-> "none"]
Team == [status : TeamStatus, reg : Regs \cup {NoReg}]

VARIABLES
    team,    \* the row of teams
    members, \* user_id of its team_members; unique
    invite,  \* team_invitations, by the account with the mobile number; unique
    join,    \* team_join_requests; unique
    reg,     \* the captain's registrations of the team
    req      \* what each running request has loaded

vars == <<team, members, invite, join, reg, req>>

Idle == [op |-> "idle"]

TypeOK ==
    /\ team \in Team
    /\ members \subseteq Users
    /\ invite \in [Users -> Answer]
    /\ join \in [Users -> Answer]
    /\ reg \in [Regs -> Registration \cup {None}]
    /\ DOMAIN req = Requests
    /\ \A q \in Requests : req[q].op = "loaded" => req[q].team \in Team

Init ==
    /\ team = [status |-> "draft", reg |-> NoReg]
    /\ members = {Captain}
    /\ invite = [u \in Users |-> "none"]
    /\ join = [u \in Users |-> "none"]
    /\ reg = [r \in Regs |-> None]
    /\ req = [q \in Requests |-> Idle]
----------------------------------------------------------------------------
Load(q) ==
    /\ req[q] = Idle
    /\ req' = [req EXCEPT ![q] = [op |-> "loaded", team |-> team]]
    /\ UNCHANGED <<team, members, invite, join, reg>>

Finish(q) == req' = [req EXCEPT ![q] = Idle]

Abort(q) ==
    /\ req[q] # Idle
    /\ Finish(q)
    /\ UNCHANGED <<team, members, invite, join, reg>>

\* The status after a request whose copy says seen has set it.
Flushed(seen, status) == IF seen = status THEN team.status ELSE status

SizeAllowed(n) == MinSize <= n /\ n <= MaxSize
----------------------------------------------------------------------------
(* The roster.                                                             *)

\* One invitation per mobile number, whatever became of it.
Invite(q, u) ==
    /\ req[q].op = "loaded"
    /\ req[q].team.reg = NoReg
    /\ req[q].team.status \notin {"submitted", "approved"}
    /\ Cardinality(members) < MaxSize
    /\ invite[u] = "none"
    /\ invite' = [invite EXCEPT ![u] = "pending"]
    /\ team' = [team EXCEPT !.status = Flushed(req[q].team.status, "inviting")]
    /\ Finish(q)
    /\ UNCHANGED <<members, join, reg>>

\* Neither the size nor the status of the team matters to an answer.
AnswerInvitation(q, u, accept) ==
    /\ req[q].op = "loaded"
    /\ invite[u] = "pending"
    /\ invite' = [invite EXCEPT ![u] = IF accept THEN "accepted" ELSE "rejected"]
    /\ members' = IF accept THEN members \cup {u} ELSE members
    /\ Finish(q)
    /\ UNCHANGED <<team, join, reg>>

\* Mutant: a member may ask again.
MayRequestAgain(u) == join[u] # "pending"
MayRequest(u) == u \notin members /\ join[u] # "pending"

RequestToJoin(q, u) ==
    /\ req[q].op = "loaded"
    /\ req[q].team.status # "approved"
    /\ MayRequest(u)
    /\ join' = [join EXCEPT ![u] = "pending"]
    /\ Finish(q)
    /\ UNCHANGED <<team, members, invite, reg>>

\* A second membership of one account violates the unique constraint.
AnswerJoin(q, u, approve) ==
    /\ req[q].op = "loaded"
    /\ join[u] = "pending"
    /\ approve => Cardinality(members) < MaxSize /\ u \notin members
    /\ join' = [join EXCEPT ![u] = IF approve THEN "accepted" ELSE "rejected"]
    /\ members' = IF approve THEN members \cup {u} ELSE members
    /\ Finish(q)
    /\ UNCHANGED <<team, invite, reg>>

RemoveMember(q, u) ==
    /\ req[q].op = "loaded"
    /\ u \in members \ {Captain}
    /\ members' = members \ {u}
    /\ Finish(q)
    /\ UNCHANGED <<team, invite, join, reg>>

Leave(q, u) ==
    /\ req[q].op = "loaded"
    /\ req[q].team.reg = NoReg
    /\ req[q].team.status \notin {"submitted", "approved"}
    /\ u \in members \ {Captain}
    /\ members' = members \ {u}
    /\ Finish(q)
    /\ UNCHANGED <<team, invite, join, reg>>

----------------------------------------------------------------------------
(* Submission and approval.                                                *)

NoDuplicate == \A r \in Regs : reg[r].status \notin Live

\* submit_team reads the members; create_registration then waits for the
\* event's capacity lock and commits; the team's own row is a third step.
SubmitRead(q) ==
    /\ req[q].op = "loaded"
    /\ req[q].team.reg = NoReg
    /\ req' = [req EXCEPT ![q] = [op |-> "submit", status |-> req[q].team.status, who |-> members]]
    /\ UNCHANGED <<team, members, invite, join, reg>>

SubmitCreate(q, r, status) ==
    /\ req[q].op = "submit"
    /\ reg[r] = None
    /\ NoDuplicate
    /\ SizeAllowed(Cardinality(req[q].who))
    /\ reg' = [reg EXCEPT ![r] = [status |-> status, who |-> req[q].who, by |-> "submit"]]
    /\ req' = [req EXCEPT ![q] = [op |-> "link", status |-> req[q].status, reg |-> r]]
    /\ UNCHANGED <<team, members, invite, join>>

SubmitLink(q) ==
    /\ req[q].op = "link"
    /\ team' = [team EXCEPT !.reg = req[q].reg, !.status = Flushed(req[q].status, "submitted")]
    /\ Finish(q)
    /\ UNCHANGED <<members, invite, join, reg>>

\* approve_team forwards the decision only while the registration awaits one.
ApproveDecide(q) ==
    /\ req[q].op = "loaded"
    /\ LET r == req[q].team.reg IN
       /\ r # NoReg
       /\ reg' = IF reg[r].status = "pending" THEN [reg EXCEPT ![r].status = "approved"] ELSE reg
    /\ req' = [req EXCEPT ![q] = [op |-> "approve", status |-> req[q].team.status]]
    /\ UNCHANGED <<team, members, invite, join>>

ApproveCommit(q) ==
    /\ req[q].op = "approve"
    /\ team' = [team EXCEPT !.status = Flushed(req[q].status, "approved")]
    /\ Finish(q)
    /\ UNCHANGED <<members, invite, join, reg>>

\* The captain registers the team without submitting it: the request names the
\* participants, which no property tells apart.
RegisterDirectly(r, status) ==
    /\ reg[r] = None
    /\ NoDuplicate
    /\ reg' = [reg EXCEPT ![r] = [status |-> status, who |-> {}, by |-> "direct"]]
    /\ UNCHANGED <<team, members, invite, join, req>>

\* The registration's own decision and cancellation leave the team alone.
EndRegistration(r, status) ==
    /\ \/ reg[r].status = "pending" /\ status \in {"approved", "rejected", "cancelled"}
       \/ reg[r].status = "approved" /\ status = "cancelled"
    /\ reg' = [reg EXCEPT ![r].status = status]
    /\ UNCHANGED <<team, members, invite, join, req>>
----------------------------------------------------------------------------
RosterStep(q) ==
    \E u \in Users :
        \/ Invite(q, u) \/ RequestToJoin(q, u) \/ RemoveMember(q, u) \/ Leave(q, u)
        \/ \E yes \in BOOLEAN : AnswerInvitation(q, u, yes) \/ AnswerJoin(q, u, yes)

SubmitStep(q) ==
    \/ SubmitRead(q) \/ SubmitLink(q) \/ ApproveDecide(q) \/ ApproveCommit(q)
    \/ \E r \in Regs, status \in Live : SubmitCreate(q, r, status)

Next ==
    \/ \E q \in Requests :
          Load(q) \/ Abort(q) \/ RosterStep(q) \/ SubmitStep(q)
    \/ \E r \in Regs :
          \/ \E status \in Live : RegisterDirectly(r, status)
          \/ \E status \in {"approved", "rejected", "cancelled"} : EndRegistration(r, status)

Spec == Init /\ [][Next]_vars
----------------------------------------------------------------------------
(* Properties.                                                             *)

\* Nobody is in a team without having agreed to it: besides the captain, each
\* member holds an accepted invitation or an approved request of their own,
\* however invitations, requests, removals and departures overlap.
MembersAgreed ==
    \A u \in members \ {Captain} : invite[u] = "accepted" \/ join[u] = "accepted"

\* A submitted team is registered with its captain, with as many participants
\* as the event's rules allow and with none who never agreed, although the
\* roster may change while the registration is being created.
SubmittedRosterFits ==
    \A r \in Regs :
        reg[r].status # "none" /\ reg[r].by = "submit" =>
            /\ Captain \in reg[r].who
            /\ Cardinality(reg[r].who) <= MaxSize
            /\ \A u \in reg[r].who \ {Captain} : invite[u] = "accepted" \/ join[u] # "none"
============================================================================
