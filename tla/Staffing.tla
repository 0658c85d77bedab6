------------------------------ MODULE Staffing ------------------------------
(***************************************************************************)
(* Who may work on an event: accounts, the one primary manager, the role   *)
(* assignments that every permission check reads, the staff invitations    *)
(* behind them, and the volunteers' applications that turn into staff.     *)
(*                                                                         *)
(* The primary manager, the deletion of the event and the status of an     *)
(* account change under row locks and on refreshed rows: each is one       *)
(* action.  Invitations, their acceptance and revocation and the review of *)
(* applications lock nothing: a Load keeps the row as it was seen, and the *)
(* commit changes the columns that differ from it.                         *)
(***************************************************************************)
CONSTANTS
    Admins,        \* accounts with the global role super_admin
    People,        \* all other accounts; each has one mobile number
    Posts,         \* role_label and venue of an invitation
    VolunteerPost, \* the post of an activated volunteer
    Assignments,   \* rows of staff_assignments that may be created
    Roles,         \* rows of role_assignments that may be created
    NoRole,        \* linked_role_assignment_id IS NULL
    NoAssignment,  \* activated_staff_assignment_id IS NULL
    Nobody,        \* organizer_user_id IS NULL
    Sessions       \* requests that run concurrently

Users == Admins \cup People

ReviewMoves ==
    {<<"submitted", "under_review">>, <<"submitted", "contacted">>, <<"submitted", "approved">>,
     <<"submitted", "rejected">>, <<"under_review", "contacted">>, <<"under_review", "approved">>,
     <<"under_review", "rejected">>, <<"contacted", "approved">>, <<"contacted", "rejected">>}
Reviewed == {m[2] : m \in ReviewMoves}

Role == [user : People, name : {"manager", "staff"}, status : {"active", "revoked"},
         via : Assignments \cup {NoAssignment}]
Assignment == [user : People, post : Posts, status : {"invited", "active", "revoked"},
               link : Roles \cup {NoRole}]
Application == [status : {"submitted"} \cup Reviewed, staff : Assignments \cup {NoAssignment}]
None == [status |-> "none"]

VARIABLES
    active,     \* users.is_active
    manager,    \* users.is_event_manager: accounts designated by an admin
    organizer,  \* the event's primary manager
    deleted,    \* the event is deleted
    role,       \* role_assignments of the event; via is a history variable
    asg,        \* staff_assignments
    app,        \* volunteer_applications
    sess        \* what each running request has seen

vars == <<active, manager, organizer, deleted, role, asg, app, sess>>

Idle == [op |-> "idle"]
Asking ==
    [op : {"invite"}, user : People, post : Posts]
    \cup [op : {"accept"}, on : Assignments]
    \cup [op : {"revoke", "reassign"}, on : Assignments, seen : Assignment]
    \cup [op : {"review"}, user : People, new : Reviewed]
    \cup [op : {"activate"}, user : People]
    \cup [op : {"activate_accept", "activate_record"}, user : People, on : Assignments]

TypeOK ==
    /\ active \subseteq Users
    /\ manager \subseteq People
    /\ organizer \in People \cup {Nobody}
    /\ deleted \in BOOLEAN
    /\ role \in [Roles -> Role \cup {None}]
    /\ asg \in [Assignments -> Assignment \cup {None}]
    /\ app \in [People -> Application \cup {None}]
    /\ sess \in [Sessions -> {Idle} \cup Asking]

Init ==
    /\ active = Users
    /\ manager = {}
    /\ organizer = Nobody
    /\ deleted = FALSE
    /\ role = [r \in Roles |-> None]
    /\ asg = [a \in Assignments |-> None]
    /\ app = [u \in People |-> None]
    /\ sess = [s \in Sessions |-> Idle]
----------------------------------------------------------------------------
ActiveRole(r) == role[r].status = "active"
Holds(u, name) == \E r \in Roles : ActiveRole(r) /\ role[r].user = u /\ role[r].name = name

\* get_current_user and user_has_scoped_role: a global admin or the manager.
Manages(u) == u \in active /\ (u \in Admins \/ Holds(u, "manager"))
Permitted == \E u \in Users : Manages(u)

Begin(s, x) == sess[s] = Idle /\ sess' = [sess EXCEPT ![s] = x]
Finish(s) == sess' = [sess EXCEPT ![s] = Idle]
Tables == <<active, manager, organizer, deleted, role, asg, app>>

Abort(s) ==
    /\ sess[s] # Idle
    /\ Finish(s)
    /\ UNCHANGED Tables
----------------------------------------------------------------------------
(* Accounts and the primary manager.                                       *)

\* No lock: the account may be disabled after it was read as active.
Designate(u) ==
    /\ active \cap Admins # {}
    /\ manager' = manager \cup {u}
    /\ UNCHANGED <<active, organizer, deleted, role, asg, app, sess>>

\* The roles that the event's rows give to an account.
RolesOf(u) == {role[r].name : r \in {q \in Roles : ActiveRole(q) /\ role[q].user = u}}
                  \cup (IF u \in manager THEN {"manager"} ELSE {})

\* Mutant: the actor is not read again under the lock.
CanManageUnread(u, v) == u # v /\ u \in Admins
\* An admin, or the manager of the event, for its volunteers only.
CanManageAccount(u, v) ==
    /\ u \in active /\ u # v
    /\ \/ u \in Admins
       \/ /\ v \in People /\ Holds(u, "manager") /\ ~deleted
          /\ RolesOf(v) \subseteq {"staff"}
          /\ app[v].status = "approved"

SetActive(u, v, on) ==
    /\ CanManageAccount(u, v)
    /\ (v \in active) # on
    /\ active' = IF on THEN active \cup {v} ELSE active \ {v}
    /\ UNCHANGED <<manager, organizer, deleted, role, asg, app, sess>>

\* The roles after assign_event_manager: every active manager role of another
\* account is revoked, the chosen account keeps its own or gets a new one.
ReplaceManagers(u, new) ==
    [r \in Roles |->
        IF r \in new THEN [user |-> u, name |-> "manager", status |-> "active", via |-> NoAssignment]
        ELSE IF ActiveRole(r) /\ role[r].name = "manager" /\ role[r].user # u
             THEN [role[r] EXCEPT !.status = "revoked"]
             ELSE role[r]]

SetManager(u) ==
    /\ active \cap Admins # {}
    /\ ~deleted
    /\ u \in active \cap manager
    /\ \E new \in IF Holds(u, "manager") THEN {{}} ELSE {{r} : r \in {q \in Roles : role[q] = None}} :
           role' = ReplaceManagers(u, new)
    /\ organizer' = u
    /\ UNCHANGED <<active, manager, deleted, asg, app, sess>>

DeleteEvent ==
    /\ active \cap Admins # {}
    /\ ~deleted
    /\ deleted' = TRUE
    /\ role' = [r \in Roles |-> IF ActiveRole(r) THEN [role[r] EXCEPT !.status = "revoked"] ELSE role[r]]
    /\ UNCHANGED <<active, manager, organizer, asg, app, sess>>
----------------------------------------------------------------------------
(* Staff invitations.                                                      *)

Unanswered(u, p) == [user |-> u, post |-> p, status |-> "invited", link |-> NoRole]
Conflict(u, p) ==
    \E a \in Assignments : asg[a].status \in {"invited", "active"} /\ asg[a].user = u /\ asg[a].post = p

\* create_assignment looks for a conflict that no constraint excludes.
InviteLoad(s, u, p) ==
    /\ Permitted
    /\ ~Conflict(u, p)
    /\ Begin(s, [op |-> "invite", user |-> u, post |-> p])
    /\ UNCHANGED Tables

InviteCommit(s, a) ==
    /\ sess[s].op = "invite"
    /\ asg[a] = None
    /\ asg' = [asg EXCEPT ![a] = Unanswered(sess[s].user, sess[s].post)]
    /\ Finish(s)
    /\ UNCHANGED <<active, manager, organizer, deleted, role, app>>

\* Accepting: the role is created and linked in the invitation's transaction.
Grant(a, r) ==
    /\ role[r] = None
    /\ role' = [role EXCEPT ![r] = [user |-> asg[a].user, name |-> "staff", status |-> "active", via |-> a]]
    /\ asg' = [asg EXCEPT ![a].status = "active", ![a].link = r]

AcceptLoad(s, a) ==
    /\ asg[a].status = "invited"
    /\ asg[a].user \in active
    /\ ~deleted
    /\ Begin(s, [op |-> "accept", on |-> a])
    /\ UNCHANGED Tables

AcceptCommit(s, r) ==
    /\ sess[s].op = "accept"
    /\ Grant(sess[s].on, r)
    /\ Finish(s)
    /\ UNCHANGED <<active, manager, organizer, deleted, app>>

\* _revoke_linked_role_assignment, with the link that was seen.
LinkRevoked(seen) ==
    [r \in Roles |-> IF r = seen.link /\ ActiveRole(r)
                     THEN [role[r] EXCEPT !.status = "revoked"] ELSE role[r]]

RevokeLoad(s, a) ==
    /\ Permitted
    /\ asg[a].status \in {"invited", "active"}
    /\ Begin(s, [op |-> "revoke", on |-> a, seen |-> asg[a]])
    /\ UNCHANGED Tables

RevokeCommit(s) ==
    /\ sess[s].op = "revoke"
    /\ asg' = [asg EXCEPT ![sess[s].on].status = "revoked"]
    /\ role' = LinkRevoked(sess[s].seen)
    /\ Finish(s)
    /\ UNCHANGED <<active, manager, organizer, deleted, app>>

\* reassign_assignment looks at no status of the old assignment.
ReassignLoad(s, a) ==
    /\ Permitted
    /\ asg[a] # None
    /\ Begin(s, [op |-> "reassign", on |-> a, seen |-> asg[a]])
    /\ UNCHANGED Tables

ReassignCommit(s, b, u) ==
    /\ sess[s].op = "reassign"
    /\ asg[b] = None
    /\ LET seen == sess[s].seen IN
       /\ asg' = [asg EXCEPT ![sess[s].on].status = IF seen.status = "revoked" THEN @ ELSE "revoked",
                             ![b] = Unanswered(u, seen.post)]
       /\ role' = LinkRevoked(seen)
    /\ Finish(s)
    /\ UNCHANGED <<active, manager, organizer, deleted, app>>
----------------------------------------------------------------------------
(* Volunteers' applications.                                               *)

\* One application per account and event (a unique constraint).
Apply(u) ==
    /\ u \in active
    /\ ~deleted
    /\ app[u] = None
    /\ app' = [app EXCEPT ![u] = [status |-> "submitted", staff |-> NoAssignment]]
    /\ UNCHANGED <<active, manager, organizer, deleted, role, asg, sess>>

ReviewLoad(s, u, new) ==
    /\ Permitted
    /\ <<app[u].status, new>> \in ReviewMoves
    /\ Begin(s, [op |-> "review", user |-> u, new |-> new])
    /\ UNCHANGED Tables

ReviewCommit(s) ==
    /\ sess[s].op = "review"
    /\ app' = [app EXCEPT ![sess[s].user].status = sess[s].new]
    /\ Finish(s)
    /\ UNCHANGED <<active, manager, organizer, deleted, role, asg>>

\* activate: the invitation, its acceptance and the application's own record
\* are three transactions of one request, which may die after each of them.
ActivateLoad(s, u) ==
    /\ Permitted
    /\ app[u].status = "approved" /\ app[u].staff = NoAssignment
    /\ ~Conflict(u, VolunteerPost)
    /\ Begin(s, [op |-> "activate", user |-> u])
    /\ UNCHANGED Tables

ActivateInvite(s, a) ==
    /\ sess[s].op = "activate"
    /\ asg[a] = None
    /\ asg' = [asg EXCEPT ![a] = Unanswered(sess[s].user, VolunteerPost)]
    /\ sess' = [sess EXCEPT ![s] = [op |-> "activate_accept", user |-> sess[s].user, on |-> a]]
    /\ UNCHANGED <<active, manager, organizer, deleted, role, app>>

ActivateAccept(s, r) ==
    /\ sess[s].op = "activate_accept"
    /\ ~deleted
    /\ Grant(sess[s].on, r)
    /\ sess' = [sess EXCEPT ![s].op = "activate_record"]
    /\ UNCHANGED <<active, manager, organizer, deleted, app>>

ActivateRecord(s) ==
    /\ sess[s].op = "activate_record"
    /\ app' = [app EXCEPT ![sess[s].user].staff = sess[s].on]
    /\ Finish(s)
    /\ UNCHANGED <<active, manager, organizer, deleted, role, asg>>
----------------------------------------------------------------------------
AccountStep ==
    \/ \E u \in People : Designate(u) \/ SetManager(u) \/ Apply(u)
    \/ \E u, v \in Users, on \in BOOLEAN : SetActive(u, v, on)
    \/ DeleteEvent

StaffStep(s) ==
    \/ \E u \in People, p \in Posts : InviteLoad(s, u, p)
    \/ \E a \in Assignments :
          InviteCommit(s, a) \/ AcceptLoad(s, a) \/ RevokeLoad(s, a) \/ ReassignLoad(s, a)
    \/ \E r \in Roles : AcceptCommit(s, r)
    \/ RevokeCommit(s)
    \/ \E a \in Assignments, u \in People : ReassignCommit(s, a, u)

VolunteerStep(s) ==
    \/ \E u \in People, new \in Reviewed : ReviewLoad(s, u, new)
    \/ ReviewCommit(s)
    \/ \E u \in People : ActivateLoad(s, u)
    \/ \E a \in Assignments : ActivateInvite(s, a)
    \/ \E r \in Roles : ActivateAccept(s, r)
    \/ ActivateRecord(s)

Next ==
    \/ AccountStep
    \/ \E s \in Sessions : StaffStep(s) \/ VolunteerStep(s) \/ Abort(s)

Spec == Init /\ [][Next]_vars
----------------------------------------------------------------------------
(* Properties.                                                             *)

\* Whoever assigns, replaces and deletes at the same time: as long as the
\* event exists, the active manager roles are exactly one, of the account that
\* the event names as its organizer; none is left when it is deleted.
OneManager ==
    LET held == {r \in Roles : ActiveRole(r) /\ role[r].name = "manager"} IN
    IF organizer = Nobody \/ deleted
    THEN held = {}
    ELSE \E r \in held : held = {r} /\ role[r].user = organizer

\* Admins who disable each other never disable the last of them.
AnAdminRemains == active \cap Admins # {}

\* Somebody whose assignment is shown as active can work: the role behind it
\* is active and theirs, whatever revocations, reassignments and second
\* acceptances of the invitation were under way.
ActiveStaffCanWork ==
    \A a \in Assignments :
        asg[a].status = "active" /\ ~deleted =>
            /\ asg[a].link # NoRole
            /\ ActiveRole(asg[a].link)
            /\ role[asg[a].link].user = asg[a].user
============================================================================
