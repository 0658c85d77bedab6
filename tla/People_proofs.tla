------------------------------ MODULE People_proofs ------------------------------
(***************************************************************************)
(* The components that decide about people, each for all values of its     *)
(* constants: who may work on an event, who is assigned to a shift, which  *)
(* codes and tokens are accepted, whose address is verified, who is        *)
(* connected with whom and what a poll shows.  Every section has the       *)
(* inductive invariant of its component, the lemmas about its steps and    *)
(* the theorems that follow.                                               *)
(***************************************************************************)
EXTENDS Integers, FiniteSetTheorems, TLAPS

\* Parameters of the components; a component has those that its module names.
CONSTANTS
    Sessions, MaxTime, Users,
    Admins, People, Posts, VolunteerPost, Assignments, Roles, NoRole, NoAssignment, Nobody,
    Shifts, Volunteers, Slots, Counts,
    Cooldown, Expiry, MaxAttempts, MaxCodes,
    Pairs, Second, AccessLife, RefreshLife,
    Emails, NoEmail,
    Managers,
    Voters, Options, MaxSelections, MayChange, StartsAt, EndsAt

VARIABLES
    sess, now, late, asg, code, enabled, issued,
    active, manager, organizer, deleted, role, app,
    shift, att,
    codeEnd, wrong, wrongEnd, coolEnd, claimed, tooSoon, spent, reused,
    gone,
    account, proved, raced,
    conn, eligible, visible, wanted,
    poll, ballot, shown, question, upvotes

\* Each component, with the parameters of its name.
Staffs == INSTANCE Staffing
Rota == INSTANCE VolunteerShifts
Codes == INSTANCE OneTimeCode
Tokens == INSTANCE SessionTokens
Accounts == INSTANCE EmailAccount
Networks == INSTANCE Networking
Polls == INSTANCE EventPolls
-----------------------------------------------------------------------------
(* The staff of an event: Staffing.                                        *)

\* What is assumed of the constants: an administrator, and values for NULL
\* that are no rows.
StaffWorld == /\ Admins # {} /\ Admins \cap People = {} /\ VolunteerPost \in Posts
              /\ NoRole \notin Roles /\ NoAssignment \notin Assignments /\ Nobody \notin People

\* What a request may hold.
StaffSessions == {Staffs!Idle} \cup Staffs!Asking

\* The role behind an assignment, seen now or earlier.
Behind(r, a) == r \in Roles /\ role[r] # Staffs!None /\ role[r].via = a /\ role[r].name = "staff"

\* A role is linked by the one assignment that it was granted for, and the
\* one behind an active assignment is active.
Linked(a) ==
    /\ asg[a].link # NoRole => Behind(asg[a].link, a) /\ role[asg[a].link].user = asg[a].user
    /\ asg[a].status = "active" =>
          asg[a].link # NoRole /\ (~deleted => role[asg[a].link].status = "active")

\* Rows that a request works on exist; one that has seen an assignment revoked
\* has not seen the link under which it is active again.
SeenSound(x) ==
    /\ x.op \in {"accept", "revoke", "reassign", "activate_accept"} => asg[x.on] # Staffs!None
    /\ x.op \in {"review", "activate", "activate_accept", "activate_record"} => app[x.user] # Staffs!None
    /\ x.op \in {"revoke", "reassign"} =>
          /\ x.seen.link # NoRole => Behind(x.seen.link, x.on)
          /\ x.seen.status = "revoked" /\ asg[x.on].status = "active" => asg[x.on].link # x.seen.link

\* Every row of staff_assignments and every request.
Links == /\ \A a \in Assignments : asg[a] # Staffs!None => Linked(a)
         /\ \A s \in Sessions : SeenSound(sess[s])

\* The inductive invariant: the properties follow from the links.
StaffInv == Staffs!TypeOK /\ Links /\ Staffs!OneManager /\ Staffs!AnAdminRemains

\* What each request holds.
LEMMA StaffHeld ==
    ASSUME Staffs!TypeOK, NEW s \in Sessions
    PROVE  /\ sess \in [Sessions -> StaffSessions]
           /\ sess[s].op = "invite" => sess[s].user \in People /\ sess[s].post \in Posts
           /\ sess[s].op \in {"accept", "revoke", "reassign", "activate_accept", "activate_record"} => sess[s].on \in Assignments
           /\ sess[s].op \in {"revoke", "reassign"} => sess[s].seen \in Staffs!Assignment
           /\ sess[s].op = "review" => sess[s].new \in Staffs!Reviewed
           /\ sess[s].op \in {"review", "activate", "activate_accept", "activate_record"} => sess[s].user \in People
BY DEF Staffs!TypeOK, StaffSessions, Staffs!Asking, Staffs!Idle

\* Nobody is invited at first.
LEMMA InitStaff == StaffWorld => (Staffs!Init => StaffInv)
<1> SUFFICES ASSUME StaffWorld, Staffs!Init PROVE StaffInv OBVIOUS
<1>1. sess \in [Sessions -> StaffSessions] /\ \A s \in Sessions : sess[s] = Staffs!Idle
  BY DEF Staffs!Init, StaffSessions
<1>2. Staffs!TypeOK BY <1>1 DEF Staffs!Init, Staffs!TypeOK, StaffSessions, Staffs!Users
<1>3. Links BY <1>1 DEF Links, Linked, SeenSound, Staffs!Init, Staffs!Idle
<1>4. Staffs!OneManager BY DEF Staffs!Init, Staffs!OneManager, Staffs!ActiveRole, Staffs!None
<1>5. Staffs!AnAdminRemains BY DEF Staffs!Init, Staffs!AnAdminRemains, Staffs!Users, StaffWorld
<1> QED BY <1>2, <1>3, <1>4, <1>5 DEF StaffInv

\* A grant makes a new role of an assignment that exists.
LEMMA GrantType ==
    ASSUME Staffs!TypeOK, NEW a \in Assignments, asg[a] # Staffs!None, NEW r \in Roles, Staffs!Grant(a, r)
    PROVE  /\ role' = [role EXCEPT ![r] = [user |-> asg[a].user, name |-> "staff", status |-> "active", via |-> a]]
           /\ asg' = [asg EXCEPT ![a] = [asg[a] EXCEPT !.status = "active", !.link = r]]
           /\ role' \in [Roles -> Staffs!Role \cup {Staffs!None}]
           /\ asg' \in [Assignments -> Staffs!Assignment \cup {Staffs!None}]
<1>1. asg[a] \in Staffs!Assignment BY DEF Staffs!TypeOK
<1>2. [user |-> asg[a].user, name |-> "staff", status |-> "active", via |-> a] \in Staffs!Role
  BY <1>1 DEF Staffs!Assignment, Staffs!Role
<1>3. [asg[a] EXCEPT !.status = "active", !.link = r] \in Staffs!Assignment BY <1>1 DEF Staffs!Assignment
<1>4. asg' = [asg EXCEPT ![a] = [asg[a] EXCEPT !.status = "active", !.link = r]]
  BY DEF Staffs!Grant, Staffs!TypeOK
<1> QED BY <1>1, <1>2, <1>3, <1>4 DEF Staffs!Grant, Staffs!TypeOK

\* Withdrawing a role leaves the others as they are.
LEMMA RevokedLink ==
    ASSUME Staffs!TypeOK, NEW seen \in Staffs!Assignment
    PROVE  /\ Staffs!LinkRevoked(seen) \in [Roles -> Staffs!Role \cup {Staffs!None}]
           /\ \A r \in Roles : r # seen.link \/ role[r] = Staffs!None => Staffs!LinkRevoked(seen)[r] = role[r]
           /\ \A r \in Roles : role[r] # Staffs!None =>
                 /\ Staffs!LinkRevoked(seen)[r] # Staffs!None
                 /\ Staffs!LinkRevoked(seen)[r].via = role[r].via /\ Staffs!LinkRevoked(seen)[r].name = role[r].name
                 /\ Staffs!LinkRevoked(seen)[r].user = role[r].user
BY DEF Staffs!LinkRevoked, Staffs!ActiveRole, Staffs!TypeOK, Staffs!Role, Staffs!None

\* Every action keeps the types; a request works on rows that exist.
LEMMA TypeStaff == ASSUME StaffWorld, Staffs!TypeOK, Links, [Staffs!Next]_Staffs!vars PROVE Staffs!TypeOK'
<1>0. sess \in [Sessions -> StaffSessions] BY DEF Staffs!TypeOK, StaffSessions
<1>1. ASSUME NEW u \in People, Staffs!Designate(u) \/ Staffs!Apply(u) PROVE Staffs!TypeOK'
  BY <1>1 DEF Staffs!Designate, Staffs!Apply, Staffs!TypeOK, Staffs!Application
<1>2. ASSUME NEW u \in Staffs!Users, NEW v \in Staffs!Users, NEW on \in BOOLEAN, Staffs!SetActive(u, v, on)
      PROVE  Staffs!TypeOK'
  BY <1>2 DEF Staffs!SetActive, Staffs!TypeOK
<1>3. ASSUME NEW u \in People, Staffs!SetManager(u) PROVE Staffs!TypeOK'
  <2>1. PICK new \in SUBSET Roles : role' = Staffs!ReplaceManagers(u, new) BY <1>3 DEF Staffs!SetManager
  <2>2. role' \in [Roles -> Staffs!Role \cup {Staffs!None}]
    BY <2>1 DEF Staffs!ReplaceManagers, Staffs!TypeOK, Staffs!Role, Staffs!ActiveRole, Staffs!None
  <2> QED BY <1>3, <2>2 DEF Staffs!SetManager, Staffs!TypeOK
<1>4. CASE Staffs!DeleteEvent
  <2>1. role' \in [Roles -> Staffs!Role \cup {Staffs!None}]
    BY <1>4 DEF Staffs!DeleteEvent, Staffs!TypeOK, Staffs!Role, Staffs!ActiveRole, Staffs!None
  <2> QED BY <1>4, <2>1 DEF Staffs!DeleteEvent, Staffs!TypeOK
<1>5. ASSUME NEW s \in Sessions, NEW x \in StaffSessions, sess' = [sess EXCEPT ![s] = x],
             UNCHANGED <<active, manager, organizer, deleted>>,
             role' \in [Roles -> Staffs!Role \cup {Staffs!None}],
             asg' \in [Assignments -> Staffs!Assignment \cup {Staffs!None}],
             app' \in [People -> Staffs!Application \cup {Staffs!None}]
      PROVE  Staffs!TypeOK'
  BY <1>0, <1>5 DEF Staffs!TypeOK, StaffSessions
<1>6. ASSUME NEW s \in Sessions, NEW x, sess' = [sess EXCEPT ![s] = x], UNCHANGED Staffs!Tables, x \in StaffSessions
      PROVE  Staffs!TypeOK'
  BY <1>0, <1>6 DEF Staffs!Tables, Staffs!TypeOK, StaffSessions
<1>7. ASSUME NEW s \in Sessions, Staffs!Abort(s) PROVE Staffs!TypeOK'
  BY <1>6, <1>7 DEF Staffs!Abort, Staffs!Finish, StaffSessions
<1>8. ASSUME NEW s \in Sessions, Staffs!StaffStep(s) PROVE Staffs!TypeOK'
  <2>1. ASSUME NEW u \in People, NEW p \in Posts, Staffs!InviteLoad(s, u, p) PROVE Staffs!TypeOK'
    <3>1. [op |-> "invite", user |-> u, post |-> p] \in StaffSessions BY DEF StaffSessions, Staffs!Asking
    <3> QED BY <1>6, <2>1, <3>1 DEF Staffs!InviteLoad, Staffs!Begin
  <2>2. ASSUME NEW a \in Assignments, Staffs!AcceptLoad(s, a) PROVE Staffs!TypeOK'
    <3>1. [op |-> "accept", on |-> a] \in StaffSessions BY DEF StaffSessions, Staffs!Asking
    <3> QED BY <1>6, <2>2, <3>1 DEF Staffs!AcceptLoad, Staffs!Begin
  <2>3. ASSUME NEW a \in Assignments, Staffs!RevokeLoad(s, a) \/ Staffs!ReassignLoad(s, a) PROVE Staffs!TypeOK'
    <3>1. asg[a] # Staffs!None BY <2>3 DEF Staffs!RevokeLoad, Staffs!ReassignLoad, Staffs!None
    <3>2. asg[a] \in Staffs!Assignment BY <3>1 DEF Staffs!TypeOK
    <3>3. \A op \in {"revoke", "reassign"} : [op |-> op, on |-> a, seen |-> asg[a]] \in StaffSessions
      BY <3>2 DEF StaffSessions, Staffs!Asking
    <3> QED BY <1>6, <2>3, <3>3 DEF Staffs!RevokeLoad, Staffs!ReassignLoad, Staffs!Begin
  <2>4. ASSUME NEW a \in Assignments, Staffs!InviteCommit(s, a) PROVE Staffs!TypeOK'
    <3>1. Staffs!Unanswered(sess[s].user, sess[s].post) \in Staffs!Assignment
      BY <2>4, StaffHeld DEF Staffs!InviteCommit, Staffs!Unanswered, Staffs!Assignment
    <3>2. asg' \in [Assignments -> Staffs!Assignment \cup {Staffs!None}]
      BY <2>4, <3>1 DEF Staffs!InviteCommit, Staffs!TypeOK
    <3> QED BY <1>5, <2>4, <3>2 DEF Staffs!InviteCommit, Staffs!Finish, StaffSessions, Staffs!TypeOK
  <2>5. ASSUME NEW r \in Roles, Staffs!AcceptCommit(s, r) PROVE Staffs!TypeOK'
    <3>1. sess[s].on \in Assignments /\ asg[sess[s].on] # Staffs!None /\ Staffs!Grant(sess[s].on, r)
      BY <2>5, StaffHeld DEF Staffs!AcceptCommit, Links, SeenSound
    <3> QED BY <1>5, <2>5, <3>1, GrantType DEF Staffs!AcceptCommit, Staffs!Finish, StaffSessions, Staffs!TypeOK
  <2>6. CASE Staffs!RevokeCommit(s)
    <3>1. sess[s].on \in Assignments /\ asg[sess[s].on] \in Staffs!Assignment /\ sess[s].seen \in Staffs!Assignment
      BY <2>6, StaffHeld DEF Staffs!RevokeCommit, Links, SeenSound, Staffs!TypeOK
    <3>2. [asg[sess[s].on] EXCEPT !.status = "revoked"] \in Staffs!Assignment BY <3>1 DEF Staffs!Assignment
    <3>3. asg' \in [Assignments -> Staffs!Assignment \cup {Staffs!None}]
      BY <2>6, <3>1, <3>2 DEF Staffs!RevokeCommit, Staffs!TypeOK
    <3>4. role' \in [Roles -> Staffs!Role \cup {Staffs!None}] BY <2>6, <3>1, RevokedLink DEF Staffs!RevokeCommit
    <3> QED BY <1>5, <2>6, <3>3, <3>4 DEF Staffs!RevokeCommit, Staffs!Finish, StaffSessions, Staffs!TypeOK
  <2>7. ASSUME NEW b \in Assignments, NEW u \in People, Staffs!ReassignCommit(s, b, u) PROVE Staffs!TypeOK'
    <3> DEFINE a == sess[s].on
               new == [asg[a] EXCEPT !.status = IF sess[s].seen.status = "revoked" THEN asg[a].status ELSE "revoked"]
    <3>1. a \in Assignments /\ asg[a] \in Staffs!Assignment /\ sess[s].seen \in Staffs!Assignment
      BY <2>7, StaffHeld DEF Staffs!ReassignCommit, Links, SeenSound, Staffs!TypeOK
    <3>2. new \in Staffs!Assignment /\ Staffs!Unanswered(u, sess[s].seen.post) \in Staffs!Assignment
      BY <3>1 DEF Staffs!Assignment, Staffs!Unanswered
    <3>3. asg' = [asg EXCEPT ![a] = new, ![b] = Staffs!Unanswered(u, sess[s].seen.post)]
      BY <2>7, <3>1 DEF Staffs!ReassignCommit, Staffs!TypeOK
    <3>4. asg' \in [Assignments -> Staffs!Assignment \cup {Staffs!None}] BY <3>2, <3>3 DEF Staffs!TypeOK
    <3>5. role' \in [Roles -> Staffs!Role \cup {Staffs!None}] BY <2>7, <3>1, RevokedLink DEF Staffs!ReassignCommit
    <3> QED BY <1>5, <2>7, <3>4, <3>5 DEF Staffs!ReassignCommit, Staffs!Finish, StaffSessions, Staffs!TypeOK
  <2> QED BY <1>8, <2>1, <2>2, <2>3, <2>4, <2>5, <2>6, <2>7 DEF Staffs!StaffStep
<1>9. ASSUME NEW s \in Sessions, Staffs!VolunteerStep(s) PROVE Staffs!TypeOK'
  <2>1. ASSUME NEW u \in People, NEW new \in Staffs!Reviewed, Staffs!ReviewLoad(s, u, new) PROVE Staffs!TypeOK'
    <3>1. [op |-> "review", user |-> u, new |-> new] \in StaffSessions BY DEF StaffSessions, Staffs!Asking
    <3> QED BY <1>6, <2>1, <3>1 DEF Staffs!ReviewLoad, Staffs!Begin
  <2>2. ASSUME NEW u \in People, Staffs!ActivateLoad(s, u) PROVE Staffs!TypeOK'
    <3>1. [op |-> "activate", user |-> u] \in StaffSessions BY DEF StaffSessions, Staffs!Asking
    <3> QED BY <1>6, <2>2, <3>1 DEF Staffs!ActivateLoad, Staffs!Begin
  <2>3. CASE Staffs!ReviewCommit(s)
    <3>1. sess[s].user \in People /\ app[sess[s].user] \in Staffs!Application /\ sess[s].new \in Staffs!Reviewed
      BY <2>3, StaffHeld DEF Staffs!ReviewCommit, Links, SeenSound, Staffs!TypeOK
    <3>2. [app[sess[s].user] EXCEPT !.status = sess[s].new] \in Staffs!Application
      BY <3>1 DEF Staffs!Application
    <3>3. app' \in [People -> Staffs!Application \cup {Staffs!None}]
      BY <2>3, <3>1, <3>2 DEF Staffs!ReviewCommit, Staffs!TypeOK
    <3> QED BY <1>5, <2>3, <3>3 DEF Staffs!ReviewCommit, Staffs!Finish, StaffSessions, Staffs!TypeOK
  <2>4. ASSUME NEW a \in Assignments, Staffs!ActivateInvite(s, a) PROVE Staffs!TypeOK'
    <3>1. sess[s].user \in People BY <2>4, StaffHeld DEF Staffs!ActivateInvite
    <3>2. /\ [op |-> "activate_accept", user |-> sess[s].user, on |-> a] \in StaffSessions
          /\ Staffs!Unanswered(sess[s].user, VolunteerPost) \in Staffs!Assignment
      BY <3>1 DEF StaffSessions, Staffs!Asking, Staffs!Unanswered, Staffs!Assignment, StaffWorld
    <3>3. asg' \in [Assignments -> Staffs!Assignment \cup {Staffs!None}]
      BY <2>4, <3>2 DEF Staffs!ActivateInvite, Staffs!TypeOK
    <3> QED BY <1>5, <2>4, <3>2, <3>3 DEF Staffs!ActivateInvite, Staffs!TypeOK
  <2>5. ASSUME NEW r \in Roles, Staffs!ActivateAccept(s, r) PROVE Staffs!TypeOK'
    <3>1. sess[s].on \in Assignments /\ asg[sess[s].on] # Staffs!None /\ Staffs!Grant(sess[s].on, r)
      BY <2>5, StaffHeld DEF Staffs!ActivateAccept, Links, SeenSound
    <3>2. sess[s] \in [op : {"activate_accept", "activate_record"}, user : People, on : Assignments]
      BY <1>0, <2>5 DEF Staffs!ActivateAccept, StaffSessions, Staffs!Asking, Staffs!Idle
    <3> DEFINE x == [sess[s] EXCEPT !.op = "activate_record"]
    <3>3. x \in StaffSessions BY <3>2 DEF StaffSessions, Staffs!Asking
    <3>4. sess' = [sess EXCEPT ![s] = x] BY <1>0, <2>5 DEF Staffs!ActivateAccept
    <3> HIDE DEF x
    <3> QED BY <1>5, <2>5, <3>1, <3>3, <3>4, GrantType DEF Staffs!ActivateAccept, Staffs!TypeOK
  <2>6. CASE Staffs!ActivateRecord(s)
    <3>1. sess[s].user \in People /\ sess[s].on \in Assignments /\ app[sess[s].user] \in Staffs!Application
      BY <2>6, StaffHeld DEF Staffs!ActivateRecord, Links, SeenSound, Staffs!TypeOK
    <3>2. [app[sess[s].user] EXCEPT !.staff = sess[s].on] \in Staffs!Application BY <3>1 DEF Staffs!Application
    <3>3. app' \in [People -> Staffs!Application \cup {Staffs!None}]
      BY <2>6, <3>1, <3>2 DEF Staffs!ActivateRecord, Staffs!TypeOK
    <3> QED BY <1>5, <2>6, <3>3 DEF Staffs!ActivateRecord, Staffs!Finish, StaffSessions, Staffs!TypeOK
  <2> QED BY <1>9, <2>1, <2>2, <2>3, <2>4, <2>5, <2>6 DEF Staffs!VolunteerStep
<1>10. CASE UNCHANGED Staffs!vars BY <1>10 DEF Staffs!vars, Staffs!TypeOK
<1> QED BY <1>1, <1>2, <1>3, <1>4, <1>7, <1>8, <1>9, <1>10 DEF Staffs!Next, Staffs!AccountStep

\* A request that reads, or ends, changes no link.
LEMMA LinksKept ==
    ASSUME Staffs!TypeOK, Links, NEW s \in Sessions, NEW x, sess' = [sess EXCEPT ![s] = x], SeenSound(x),
           UNCHANGED <<role, asg, deleted, app>>
    PROVE  Links'
<1>1. \A a : Linked(a)' <=> Linked(a) BY DEF Linked, Behind
<1>2. \A z \in Sessions : sess'[z] = IF z = s THEN x ELSE sess[z] BY DEF Staffs!TypeOK
<1>3. \A z \in Sessions : SeenSound(sess[z])' <=> SeenSound(sess'[z]) BY DEF SeenSound, Behind
<1> QED BY <1>1, <1>2, <1>3 DEF Links

\* A role keeps what it was granted for.
SameGrants ==
    \A r \in Roles : role[r] # Staffs!None =>
        /\ role'[r] # Staffs!None
        /\ role'[r].via = role[r].via /\ role'[r].name = role[r].name /\ role'[r].user = role[r].user

\* What every other request has seen stays sound.
LEMMA SeenLasts ==
    ASSUME StaffWorld, Staffs!TypeOK, Links, SameGrants, NEW s \in Sessions, NEW x, sess' = [sess EXCEPT ![s] = x],
           \A a \in Assignments : asg[a] # Staffs!None =>
               /\ asg'[a] # Staffs!None
               /\ asg'[a].status = "active" =>
                     \/ asg'[a].link = asg[a].link /\ asg[a].status = "active"
                     \/ asg'[a].link \in Roles /\ role[asg'[a].link] = Staffs!None,
           \A u \in People : app[u] # Staffs!None => app'[u] # Staffs!None,
           x.op \in {"idle", "activate_record"} \/ (x.op = "activate_accept" /\ asg'[x.on] # Staffs!None),
           x.op # "idle" => app'[x.user] # Staffs!None
    PROVE  \A z \in Sessions : SeenSound(sess[z])'
<1> SUFFICES ASSUME NEW z \in Sessions PROVE SeenSound(sess[z])' OBVIOUS
<1>1. CASE z = s
  <2>1. sess'[z] = x BY <1>1 DEF Staffs!TypeOK
  <2> QED BY <2>1 DEF SeenSound
<1>2. CASE z # s
  <2> DEFINE y == sess[z]
  <2>1. sess'[z] = y /\ SeenSound(y) BY <1>2 DEF Links, Staffs!TypeOK
  <2>2. /\ y.op \in {"accept", "revoke", "reassign", "activate_accept"} => y.on \in Assignments
        /\ y.op \in {"review", "activate", "activate_accept", "activate_record"} => y.user \in People
    BY StaffHeld
  <2> HIDE DEF y
  <2>3. y.op \in {"accept", "revoke", "reassign", "activate_accept"} => asg'[y.on] # Staffs!None
    BY <2>1, <2>2 DEF SeenSound
  <2>4. y.op \in {"review", "activate", "activate_accept", "activate_record"} => app'[y.user] # Staffs!None
    BY <2>1, <2>2 DEF SeenSound
  <2>5. ASSUME y.op \in {"revoke", "reassign"}, y.seen.link # NoRole
        PROVE  /\ y.seen.link \in Roles /\ role[y.seen.link] # Staffs!None
               /\ role'[y.seen.link] # Staffs!None /\ role'[y.seen.link].via = y.on
               /\ role'[y.seen.link].name = "staff"
    BY <2>1, <2>5 DEF SeenSound, SameGrants, Behind
  <2>6. ASSUME y.op \in {"revoke", "reassign"}, y.seen.status = "revoked", asg'[y.on].status = "active"
        PROVE  asg'[y.on].link # y.seen.link
    <3>1. y.on \in Assignments /\ asg[y.on] # Staffs!None BY <2>1, <2>2, <2>6 DEF SeenSound
    <3>2. CASE asg'[y.on].link = asg[y.on].link /\ asg[y.on].status = "active"
      BY <2>1, <2>6, <3>2 DEF SeenSound
    <3>3. CASE asg'[y.on].link \in Roles /\ role[asg'[y.on].link] = Staffs!None
      BY <2>5, <2>6, <3>3 DEF StaffWorld
    <3> QED BY <2>6, <3>1, <3>2, <3>3
  <2> QED BY <2>1, <2>3, <2>4, <2>5, <2>6 DEF SeenSound, Behind
<1> QED BY <1>1, <1>2

\* Assignments that a step leaves alone stay linked.
LEMMA LinkedLasts ==
    ASSUME Staffs!TypeOK, Links, SameGrants, deleted => deleted', NEW a \in Assignments, asg[a] # Staffs!None,
           asg'[a].link = asg[a].link, asg'[a].user = asg[a].user,
           asg'[a].status = "active" => asg[a].status = "active",
           asg'[a].status = "active" /\ ~deleted' => role'[asg[a].link].status = role[asg[a].link].status
    PROVE  Linked(a)'
BY DEF Links, Linked, SameGrants, Behind

\* Withdrawing the role that was behind an assignment, which is revoked.
LEMMA WithdrawKeeps ==
    ASSUME StaffWorld, Staffs!TypeOK, Links, NEW s \in Sessions, sess[s].op \in {"revoke", "reassign"},
           role' = Staffs!LinkRevoked(sess[s].seen)
    PROVE  /\ SameGrants
           /\ \A a \in Assignments : asg[a] # Staffs!None /\ asg[a].status = "active" /\ a # sess[s].on =>
                 role'[asg[a].link] = role[asg[a].link]
           /\ sess[s].seen.status = "revoked" /\ asg[sess[s].on].status = "active" =>
                 role'[asg[sess[s].on].link] = role[asg[sess[s].on].link]
<1>1. sess[s].seen \in Staffs!Assignment /\ sess[s].on \in Assignments /\ SeenSound(sess[s])
  BY StaffHeld DEF Links
<1>2. SameGrants BY <1>1, RevokedLink DEF SameGrants
<1>3. ASSUME NEW a \in Assignments, asg[a] # Staffs!None, asg[a].status = "active" PROVE Behind(asg[a].link, a)
  BY <1>3 DEF Links, Linked
<1>4. \A r \in Roles : r # sess[s].seen.link => role'[r] = role[r] BY <1>1, RevokedLink
<1>5. sess[s].seen.link \in Roles => Behind(sess[s].seen.link, sess[s].on)
  BY <1>1 DEF SeenSound, StaffWorld
<1>6. ASSUME NEW a \in Assignments, asg[a] # Staffs!None, asg[a].status = "active", a # sess[s].on
      PROVE  role'[asg[a].link] = role[asg[a].link]
  BY <1>3, <1>4, <1>5, <1>6 DEF Behind
<1>7. ASSUME sess[s].seen.status = "revoked", asg[sess[s].on].status = "active"
      PROVE  role'[asg[sess[s].on].link] = role[asg[sess[s].on].link]
  <2>1. asg[sess[s].on] # Staffs!None /\ asg[sess[s].on].link # sess[s].seen.link BY <1>1, <1>7 DEF SeenSound
  <2> QED BY <1>1, <1>3, <1>4, <1>7, <2>1 DEF Behind
<1> QED BY <1>2, <1>6, <1>7

\* A role that is granted is new, and so is the link to it.
LEMMA GrantKeeps ==
    ASSUME StaffWorld, Staffs!TypeOK, Links, NEW s \in Sessions, NEW x, sess' = [sess EXCEPT ![s] = x],
           NEW a \in Assignments, asg[a] # Staffs!None, NEW r \in Roles, Staffs!Grant(a, r),
           UNCHANGED <<deleted, app>>, x.op \in {"idle", "activate_record"},
           x.op # "idle" => app[x.user] # Staffs!None
    PROVE  Links'
<1>1. /\ role' = [role EXCEPT ![r] = [user |-> asg[a].user, name |-> "staff", status |-> "active", via |-> a]]
      /\ asg' = [asg EXCEPT ![a] = [asg[a] EXCEPT !.status = "active", !.link = r]]
  BY GrantType
<1>2. role[r] = Staffs!None BY DEF Staffs!Grant
<1>3. asg[a] \in Staffs!Assignment BY DEF Staffs!TypeOK
<1>4. asg'[a].status = "active" /\ asg'[a].link = r /\ asg'[a].user = asg[a].user /\ asg'[a] # Staffs!None
  BY <1>1, <1>3 DEF Staffs!TypeOK, Staffs!Assignment, Staffs!None
<1>5. /\ role'[r] = [user |-> asg[a].user, name |-> "staff", status |-> "active", via |-> a]
      /\ \A q \in Roles : q # r => role'[q] = role[q]
  BY <1>1 DEF Staffs!TypeOK
<1>6. SameGrants BY <1>2, <1>5 DEF SameGrants
<1>7. Linked(a)'
  <2>1. /\ role'[r].via = a /\ role'[r].name = "staff" /\ role'[r].status = "active"
        /\ role'[r].user = asg[a].user
    BY <1>5
  <2>2. role'[r] # Staffs!None BY <2>1 DEF Staffs!None
  <2> QED BY <1>4, <2>1, <2>2 DEF Linked, Behind, StaffWorld
<1>8. ASSUME NEW b \in Assignments, asg'[b] # Staffs!None, b # a PROVE Linked(b)'
  <2>1. asg'[b] = asg[b] BY <1>1, <1>8 DEF Staffs!TypeOK
  <2>2. asg[b].status = "active" => Behind(asg[b].link, b) BY <1>8, <2>1 DEF Links, Linked
  <2>3. asg[b].status = "active" => role'[asg[b].link] = role[asg[b].link] BY <1>2, <1>5, <2>2 DEF Behind
  <2> QED BY <1>6, <1>8, <2>1, <2>3, LinkedLasts
<1>9. \A z \in Sessions : SeenSound(sess[z])'
  <2>1. \A b \in Assignments : b # a => asg'[b] = asg[b] BY <1>1 DEF Staffs!TypeOK
  <2>2. \A b \in Assignments : asg[b] # Staffs!None =>
          /\ asg'[b] # Staffs!None
          /\ asg'[b].status = "active" =>
                \/ asg'[b].link = asg[b].link /\ asg[b].status = "active"
                \/ asg'[b].link \in Roles /\ role[asg'[b].link] = Staffs!None
    BY <1>2, <1>4, <2>1
  <2>3. /\ \A u \in People : app[u] # Staffs!None => app'[u] # Staffs!None
        /\ x.op # "idle" => app'[x.user] # Staffs!None
    OBVIOUS
  <2>4. x.op \in {"idle", "activate_record"} \/ (x.op = "activate_accept" /\ asg'[x.on] # Staffs!None) OBVIOUS
  <2> QED BY <1>6, <2>2, <2>3, <2>4, SeenLasts
<1> QED BY <1>7, <1>8, <1>9 DEF Links

\* An invitation has no role yet, and nobody has read its row before.
LEMMA InviteKeeps ==
    ASSUME StaffWorld, Staffs!TypeOK, Links, NEW s \in Sessions, NEW x, sess' = [sess EXCEPT ![s] = x],
           NEW a \in Assignments, NEW u, NEW p, asg[a] = Staffs!None,
           asg' = [asg EXCEPT ![a] = Staffs!Unanswered(u, p)], UNCHANGED <<role, deleted, app>>,
           x.op = "idle" \/ (x.op = "activate_accept" /\ x.on = a /\ app[x.user] # Staffs!None)
    PROVE  Links'
<1>1. \A b \in Assignments : b # a => asg'[b] = asg[b] BY DEF Staffs!TypeOK
<1>2. asg'[a].link = NoRole /\ asg'[a].status = "invited" /\ asg'[a] # Staffs!None
  BY DEF Staffs!TypeOK, Staffs!Unanswered, Staffs!None
<1>3. SameGrants BY DEF SameGrants
<1>4. Linked(a)' BY <1>2 DEF Linked
<1>5. ASSUME NEW b \in Assignments, asg'[b] # Staffs!None, b # a PROVE Linked(b)'
  <2>1. asg'[b] = asg[b] BY <1>1, <1>5
  <2> QED BY <1>3, <1>5, <2>1, LinkedLasts
<1>6. \A b \in Assignments : asg[b] # Staffs!None =>
          /\ asg'[b] # Staffs!None
          /\ asg'[b].status = "active" =>
                \/ asg'[b].link = asg[b].link /\ asg[b].status = "active"
                \/ asg'[b].link \in Roles /\ role[asg'[b].link] = Staffs!None
  BY <1>1
<1>7. /\ \A v \in People : app[v] # Staffs!None => app'[v] # Staffs!None
      /\ x.op # "idle" => app'[x.user] # Staffs!None
  OBVIOUS
<1>8. x.op \in {"idle", "activate_record"} \/ (x.op = "activate_accept" /\ asg'[x.on] # Staffs!None) BY <1>2
<1>9. \A z \in Sessions : SeenSound(sess[z])' BY <1>3, <1>6, <1>7, <1>8, SeenLasts
<1> QED BY <1>4, <1>5, <1>9 DEF Links

\* Revoking an assignment withdraws the role seen behind it, and touches no other.
LEMMA RevokeKeeps ==
    ASSUME StaffWorld, Staffs!TypeOK, Links, NEW s \in Sessions, sess[s].op \in {"revoke", "reassign"},
           sess' = [sess EXCEPT ![s] = Staffs!Idle], role' = Staffs!LinkRevoked(sess[s].seen),
           UNCHANGED <<deleted, app>>,
           \A b \in Assignments : asg[b] # Staffs!None =>
               /\ asg'[b] # Staffs!None /\ asg'[b].link = asg[b].link /\ asg'[b].user = asg[b].user
               /\ asg'[b].status = "active" => asg[b].status = "active"
               /\ b = sess[s].on /\ asg'[b].status = "active" => sess[s].seen.status = "revoked",
           \A b \in Assignments : asg[b] = Staffs!None /\ asg'[b] # Staffs!None =>
               asg'[b].link = NoRole /\ asg'[b].status = "invited"
    PROVE  Links'
<1>1. SameGrants BY WithdrawKeeps
<1>2. ASSUME NEW b \in Assignments, asg[b] # Staffs!None PROVE Linked(b)'
  <2>1. asg'[b].status = "active" => role'[asg[b].link] = role[asg[b].link] BY <1>2, WithdrawKeeps
  <2> QED BY <1>1, <1>2, <2>1, LinkedLasts
<1>3. ASSUME NEW b \in Assignments, asg[b] = Staffs!None, asg'[b] # Staffs!None PROVE Linked(b)'
  BY <1>3 DEF Linked
<1>4. \A b \in Assignments : asg[b] # Staffs!None =>
          /\ asg'[b] # Staffs!None
          /\ asg'[b].status = "active" =>
                \/ asg'[b].link = asg[b].link /\ asg[b].status = "active"
                \/ asg'[b].link \in Roles /\ role[asg'[b].link] = Staffs!None
  OBVIOUS
<1>5. Staffs!Idle.op = "idle" BY DEF Staffs!Idle
<1>6. \A v \in People : app[v] # Staffs!None => app'[v] # Staffs!None OBVIOUS
<1>7. \A z \in Sessions : SeenSound(sess[z])' BY <1>1, <1>4, <1>5, <1>6, SeenLasts
<1> QED BY <1>2, <1>3, <1>7 DEF Links

\* Every action keeps the links.
LEMMA LinksStep ==
    ASSUME StaffWorld, Staffs!TypeOK, Links, [Staffs!Next]_Staffs!vars PROVE Links'
<1>0. Staffs!TypeOK' /\ sess \in [Sessions -> StaffSessions] BY TypeStaff DEF Staffs!TypeOK, StaffSessions
<1>1. CASE UNCHANGED <<role, asg, deleted, app, sess>>
  BY <1>1 DEF Links, Linked, SeenSound, Behind
<1>2. ASSUME NEW u \in People, Staffs!Apply(u) PROVE Links'
  <2>1. UNCHANGED <<role, asg, deleted, sess>> /\ \A v \in People : app[v] # Staffs!None => app'[v] # Staffs!None
    BY <1>2 DEF Staffs!Apply, Staffs!TypeOK
  <2> QED BY <2>1, StaffHeld DEF Links, Linked, SeenSound, Behind
<1>3. ASSUME SameGrants, UNCHANGED <<asg, app, sess>>, deleted => deleted',
             \A r \in Roles : role[r] # Staffs!None /\ role[r].name = "staff" /\ ~deleted' =>
                 role'[r].status = role[r].status
      PROVE  Links'
  <2>1. ASSUME NEW a \in Assignments, asg[a] # Staffs!None PROVE Linked(a)'
    <3>1. asg[a].status = "active" => Behind(asg[a].link, a) BY <2>1 DEF Links, Linked
    <3> QED BY <1>3, <2>1, <3>1, LinkedLasts DEF Behind
  <2>2. \A z \in Sessions : SeenSound(sess[z])'
    BY <1>3, StaffHeld DEF Links, SeenSound, SameGrants, Behind
  <2> QED BY <1>3, <2>1, <2>2 DEF Links
<1>4. ASSUME NEW u \in People, Staffs!SetManager(u) PROVE Links'
  <2>1. PICK new \in SUBSET Roles : role' = Staffs!ReplaceManagers(u, new) /\ \A r \in new : role[r] = Staffs!None
    BY <1>4 DEF Staffs!SetManager
  <2>2. SameGrants BY <2>1 DEF SameGrants, Staffs!ReplaceManagers, Staffs!TypeOK, Staffs!Role, Staffs!None
  <2>3. \A r \in Roles : role[r].name = "staff" /\ role[r] # Staffs!None => role'[r] = role[r]
    BY <2>1 DEF Staffs!ReplaceManagers
  <2> QED BY <1>3, <1>4, <2>2, <2>3 DEF Staffs!SetManager
<1>5. CASE Staffs!DeleteEvent
  <2>1. SameGrants
    BY <1>5 DEF SameGrants, Staffs!DeleteEvent, Staffs!TypeOK, Staffs!Role, Staffs!None, Staffs!ActiveRole
  <2> QED BY <1>3, <1>5, <2>1 DEF Staffs!DeleteEvent
<1>6. ASSUME NEW s \in Sessions, NEW x, sess' = [sess EXCEPT ![s] = x], SeenSound(x),
             UNCHANGED Staffs!Tables
      PROVE  Links'
  BY <1>6, LinksKept DEF Staffs!Tables
<1>7. ASSUME NEW s \in Sessions, Staffs!Abort(s) PROVE Links'
  <2>1. SeenSound(Staffs!Idle) BY DEF SeenSound, Staffs!Idle
  <2> QED BY <1>6, <1>7, <2>1 DEF Staffs!Abort, Staffs!Finish
<1>8. ASSUME NEW s \in Sessions, Staffs!StaffStep(s) PROVE Links'
  <2>1. ASSUME NEW u \in People, NEW p \in Posts, Staffs!InviteLoad(s, u, p) PROVE Links'
    <3>1. SeenSound([op |-> "invite", user |-> u, post |-> p]) BY DEF SeenSound
    <3> QED BY <1>6, <2>1, <3>1 DEF Staffs!InviteLoad, Staffs!Begin
  <2>2. ASSUME NEW a \in Assignments, Staffs!AcceptLoad(s, a) PROVE Links'
    <3>1. asg[a] # Staffs!None BY <2>2 DEF Staffs!AcceptLoad, Staffs!None
    <3>2. SeenSound([op |-> "accept", on |-> a]) BY <3>1 DEF SeenSound
    <3> QED BY <1>6, <2>2, <3>2 DEF Staffs!AcceptLoad, Staffs!Begin
  <2>3. ASSUME NEW a \in Assignments, Staffs!RevokeLoad(s, a) \/ Staffs!ReassignLoad(s, a) PROVE Links'
    <3>1. asg[a] # Staffs!None BY <2>3 DEF Staffs!RevokeLoad, Staffs!ReassignLoad, Staffs!None
    <3>2. asg[a].link # NoRole => Behind(asg[a].link, a) BY <3>1 DEF Links, Linked
    <3>3. \A op \in {"revoke", "reassign"} : SeenSound([op |-> op, on |-> a, seen |-> asg[a]])
      BY <3>1, <3>2 DEF SeenSound
    <3> QED BY <1>6, <2>3, <3>3 DEF Staffs!RevokeLoad, Staffs!ReassignLoad, Staffs!Begin
  <2>4. ASSUME NEW a \in Assignments, Staffs!InviteCommit(s, a) PROVE Links'
    <3>1. /\ asg[a] = Staffs!None /\ asg' = [asg EXCEPT ![a] = Staffs!Unanswered(sess[s].user, sess[s].post)]
          /\ sess' = [sess EXCEPT ![s] = Staffs!Idle] /\ UNCHANGED <<role, deleted, app>>
      BY <2>4 DEF Staffs!InviteCommit, Staffs!Finish
    <3>2. Staffs!Idle.op = "idle" BY DEF Staffs!Idle
    <3> QED BY <3>1, <3>2, InviteKeeps
  <2>5. ASSUME NEW r \in Roles, Staffs!AcceptCommit(s, r) PROVE Links'
    <3>1. sess[s].on \in Assignments /\ asg[sess[s].on] # Staffs!None
      BY <2>5, StaffHeld DEF Staffs!AcceptCommit, Links, SeenSound
    <3>2. /\ sess' = [sess EXCEPT ![s] = Staffs!Idle] /\ Staffs!Grant(sess[s].on, r) /\ UNCHANGED <<deleted, app>>
      BY <2>5 DEF Staffs!AcceptCommit, Staffs!Finish
    <3>3. Staffs!Idle.op = "idle" BY DEF Staffs!Idle
    <3> QED BY <3>1, <3>2, <3>3, GrantKeeps
  <2>6. CASE Staffs!RevokeCommit(s)
    <3>1. sess[s].on \in Assignments /\ asg[sess[s].on] \in Staffs!Assignment
      BY <2>6, StaffHeld DEF Staffs!RevokeCommit, Links, SeenSound, Staffs!TypeOK
    <3>2. asg' = [asg EXCEPT ![sess[s].on] = [asg[sess[s].on] EXCEPT !.status = "revoked"]]
      BY <2>6, <3>1 DEF Staffs!RevokeCommit, Staffs!TypeOK
    <3>3. /\ asg'[sess[s].on].status = "revoked" /\ asg'[sess[s].on].link = asg[sess[s].on].link
          /\ asg'[sess[s].on].user = asg[sess[s].on].user /\ asg'[sess[s].on] # Staffs!None
          /\ \A b \in Assignments : b # sess[s].on => asg'[b] = asg[b]
      BY <3>1, <3>2 DEF Staffs!TypeOK, Staffs!Assignment, Staffs!None
    <3>4. \A b \in Assignments :
            /\ asg[b] # Staffs!None =>
                  /\ asg'[b] # Staffs!None /\ asg'[b].link = asg[b].link /\ asg'[b].user = asg[b].user
                  /\ asg'[b].status = "active" => asg[b].status = "active"
                  /\ b = sess[s].on /\ asg'[b].status = "active" => sess[s].seen.status = "revoked"
            /\ asg[b] = Staffs!None /\ asg'[b] # Staffs!None =>
                  asg'[b].link = NoRole /\ asg'[b].status = "invited"
      BY <3>1, <3>3 DEF Staffs!Assignment, Staffs!None
    <3>5. /\ sess' = [sess EXCEPT ![s] = Staffs!Idle] /\ role' = Staffs!LinkRevoked(sess[s].seen)
          /\ sess[s].op \in {"revoke", "reassign"} /\ UNCHANGED <<deleted, app>>
      BY <2>6 DEF Staffs!RevokeCommit, Staffs!Finish
    <3> QED BY <3>4, <3>5, RevokeKeeps
  <2>7. ASSUME NEW b \in Assignments, NEW u \in People, Staffs!ReassignCommit(s, b, u) PROVE Links'
    <3> DEFINE a == sess[s].on
               new == [asg[a] EXCEPT !.status = IF sess[s].seen.status = "revoked" THEN asg[a].status ELSE "revoked"]
    <3>1. a \in Assignments /\ asg[a] \in Staffs!Assignment /\ asg[b] = Staffs!None /\ a # b
      BY <2>7, StaffHeld DEF Staffs!ReassignCommit, Links, SeenSound, Staffs!TypeOK
    <3>2. asg' = [asg EXCEPT ![a] = new, ![b] = Staffs!Unanswered(u, sess[s].seen.post)]
      BY <2>7, <3>1 DEF Staffs!ReassignCommit, Staffs!TypeOK
    <3>3. /\ asg'[a] = new /\ asg'[b] = Staffs!Unanswered(u, sess[s].seen.post)
          /\ \A c \in Assignments : c \notin {a, b} => asg'[c] = asg[c]
      BY <3>1, <3>2 DEF Staffs!TypeOK
    <3>4. /\ asg'[a].link = asg[a].link /\ asg'[a].user = asg[a].user /\ asg'[a] # Staffs!None
          /\ asg'[a].status = "active" => sess[s].seen.status = "revoked" /\ asg[a].status = "active"
      BY <3>1, <3>3 DEF Staffs!Assignment, Staffs!None
    <3>5. asg'[b].link = NoRole /\ asg'[b].status = "invited" BY <3>3 DEF Staffs!Unanswered
    <3>6. asg[a] # Staffs!None BY <3>1 DEF Staffs!Assignment, Staffs!None
    <3> HIDE DEF new
    <3>7. \A c \in Assignments :
            /\ asg[c] # Staffs!None =>
                  /\ asg'[c] # Staffs!None /\ asg'[c].link = asg[c].link /\ asg'[c].user = asg[c].user
                  /\ asg'[c].status = "active" => asg[c].status = "active"
                  /\ c = sess[s].on /\ asg'[c].status = "active" => sess[s].seen.status = "revoked"
            /\ asg[c] = Staffs!None /\ asg'[c] # Staffs!None =>
                  asg'[c].link = NoRole /\ asg'[c].status = "invited"
      BY <3>1, <3>3, <3>4, <3>5, <3>6
    <3>8. /\ sess' = [sess EXCEPT ![s] = Staffs!Idle] /\ role' = Staffs!LinkRevoked(sess[s].seen)
          /\ sess[s].op \in {"revoke", "reassign"} /\ UNCHANGED <<deleted, app>>
      BY <2>7 DEF Staffs!ReassignCommit, Staffs!Finish
    <3> QED BY <3>7, <3>8, RevokeKeeps
  <2> QED BY <1>8, <2>1, <2>2, <2>3, <2>4, <2>5, <2>6, <2>7 DEF Staffs!StaffStep
<1>9. ASSUME NEW s \in Sessions, Staffs!VolunteerStep(s) PROVE Links'
  <2>1. ASSUME NEW u \in People, NEW new \in Staffs!Reviewed, Staffs!ReviewLoad(s, u, new) PROVE Links'
    <3>1. <<app[u].status, new>> \in Staffs!ReviewMoves BY <2>1 DEF Staffs!ReviewLoad
    <3>2. app[u] # Staffs!None BY <3>1 DEF Staffs!ReviewMoves, Staffs!None
    <3>3. SeenSound([op |-> "review", user |-> u, new |-> new]) BY <3>2 DEF SeenSound
    <3> QED BY <1>6, <2>1, <3>3 DEF Staffs!ReviewLoad, Staffs!Begin
  <2>2. ASSUME NEW u \in People, Staffs!ActivateLoad(s, u) PROVE Links'
    <3>1. app[u] # Staffs!None BY <2>2 DEF Staffs!ActivateLoad, Staffs!None
    <3>2. SeenSound([op |-> "activate", user |-> u]) BY <3>1 DEF SeenSound
    <3> QED BY <1>6, <2>2, <3>2 DEF Staffs!ActivateLoad, Staffs!Begin
  <2>3. CASE Staffs!ReviewCommit(s) \/ Staffs!ActivateRecord(s)
    <3>1. sess[s].user \in People /\ app[sess[s].user] \in Staffs!Application
      BY <2>3, StaffHeld DEF Staffs!ReviewCommit, Staffs!ActivateRecord, Links, SeenSound, Staffs!TypeOK
    <3>2. app'[sess[s].user] # Staffs!None /\ \A v \in People : v # sess[s].user => app'[v] = app[v]
      <4>1. CASE Staffs!ReviewCommit(s)
        <5>1. app' = [app EXCEPT ![sess[s].user] = [app[sess[s].user] EXCEPT !.status = sess[s].new]]
          BY <3>1, <4>1 DEF Staffs!ReviewCommit, Staffs!TypeOK
        <5>2. [app[sess[s].user] EXCEPT !.status = sess[s].new] # Staffs!None
          BY <3>1 DEF Staffs!Application, Staffs!None
        <5> QED BY <3>1, <5>1, <5>2 DEF Staffs!TypeOK
      <4>2. CASE Staffs!ActivateRecord(s)
        <5>1. app' = [app EXCEPT ![sess[s].user] = [app[sess[s].user] EXCEPT !.staff = sess[s].on]]
          BY <3>1, <4>2 DEF Staffs!ActivateRecord, Staffs!TypeOK
        <5>2. [app[sess[s].user] EXCEPT !.staff = sess[s].on] # Staffs!None
          BY <3>1 DEF Staffs!Application, Staffs!None
        <5> QED BY <3>1, <5>1, <5>2 DEF Staffs!TypeOK
      <4> QED BY <2>3, <4>1, <4>2
    <3>3. UNCHANGED <<role, asg, deleted>> /\ sess' = [sess EXCEPT ![s] = Staffs!Idle]
      BY <2>3 DEF Staffs!ReviewCommit, Staffs!ActivateRecord, Staffs!Finish
    <3>4. SameGrants BY <3>3 DEF SameGrants
    <3>5. \A z \in Sessions : SeenSound(sess[z])'
      <4>1. Staffs!Idle.op = "idle" BY DEF Staffs!Idle
      <4>2. \A a \in Assignments : asg[a] # Staffs!None =>
               /\ asg'[a] # Staffs!None
               /\ asg'[a].status = "active" =>
                     \/ asg'[a].link = asg[a].link /\ asg[a].status = "active"
                     \/ asg'[a].link \in Roles /\ role[asg'[a].link] = Staffs!None
        BY <3>3
      <4>3. \A v \in People : app[v] # Staffs!None => app'[v] # Staffs!None BY <3>2
      <4> QED BY <3>3, <3>4, <4>1, <4>2, <4>3, SeenLasts
    <3>6. \A a : Linked(a)' <=> Linked(a) BY <3>3 DEF Linked, Behind
    <3> QED BY <3>3, <3>5, <3>6 DEF Links
  <2>4. ASSUME NEW a \in Assignments, Staffs!ActivateInvite(s, a) PROVE Links'
    <3> DEFINE x == [op |-> "activate_accept", user |-> sess[s].user, on |-> a]
    <3>1. app[sess[s].user] # Staffs!None BY <2>4 DEF Staffs!ActivateInvite, Links, SeenSound
    <3>2. x.op = "activate_accept" /\ x.on = a /\ app[x.user] # Staffs!None BY <3>1
    <3>3. /\ asg[a] = Staffs!None /\ asg' = [asg EXCEPT ![a] = Staffs!Unanswered(sess[s].user, VolunteerPost)]
          /\ sess' = [sess EXCEPT ![s] = x] /\ UNCHANGED <<role, deleted, app>>
      BY <2>4 DEF Staffs!ActivateInvite
    <3> HIDE DEF x
    <3> QED BY <3>2, <3>3, InviteKeeps
  <2>5. ASSUME NEW r \in Roles, Staffs!ActivateAccept(s, r) PROVE Links'
    <3> DEFINE x == [sess[s] EXCEPT !.op = "activate_record"]
    <3>1. sess[s].on \in Assignments /\ asg[sess[s].on] # Staffs!None /\ app[sess[s].user] # Staffs!None
      BY <2>5, StaffHeld DEF Staffs!ActivateAccept, Links, SeenSound
    <3>2. sess[s] \in [op : {"activate_accept", "activate_record"}, user : People, on : Assignments]
      BY <1>0, <2>5 DEF Staffs!ActivateAccept, StaffSessions, Staffs!Asking, Staffs!Idle
    <3>3. x.op = "activate_record" /\ x.user = sess[s].user BY <3>2
    <3>4. sess' = [sess EXCEPT ![s] = x] /\ Staffs!Grant(sess[s].on, r) /\ UNCHANGED <<deleted, app>>
      BY <1>0, <2>5 DEF Staffs!ActivateAccept
    <3> HIDE DEF x
    <3> QED BY <3>1, <3>3, <3>4, GrantKeeps
  <2> QED BY <1>9, <2>1, <2>2, <2>3, <2>4, <2>5 DEF Staffs!VolunteerStep
<1>10. ASSUME NEW u \in People, Staffs!Designate(u) PROVE Links'
  BY <1>1, <1>10 DEF Staffs!Designate
<1>11. ASSUME NEW u \in Staffs!Users, NEW v \in Staffs!Users, NEW on \in BOOLEAN, Staffs!SetActive(u, v, on)
       PROVE  Links'
  BY <1>1, <1>11 DEF Staffs!SetActive
<1>12. CASE UNCHANGED Staffs!vars BY <1>1, <1>12 DEF Staffs!vars
<1> QED BY <1>2, <1>4, <1>5, <1>7, <1>8, <1>9, <1>10, <1>11, <1>12 DEF Staffs!Next, Staffs!AccountStep

\* The manager roles that are active.
Managing == {r \in Roles : role[r].status = "active" /\ role[r].name = "manager"}

\* Where no active manager role changes, the manager stays.
LEMMA ManagerStays ==
    ASSUME Staffs!OneManager, UNCHANGED <<organizer, deleted>>,
           \A r \in Roles : (role'[r].status = "active" /\ role'[r].name = "manager")
                              <=> (role[r].status = "active" /\ role[r].name = "manager"),
           \A r \in Managing : role'[r].user = role[r].user
    PROVE  Staffs!OneManager'
<1>1. Managing' = Managing BY DEF Managing
<1>2. Staffs!OneManager <=> IF organizer = Nobody \/ deleted THEN Managing = {}
                            ELSE \E r \in Managing : Managing = {r} /\ role[r].user = organizer
  BY DEF Managing, Staffs!OneManager, Staffs!ActiveRole
<1>3. Staffs!OneManager' <=> IF organizer' = Nobody \/ deleted' THEN Managing' = {}
                            ELSE \E r \in Managing' : Managing' = {r} /\ role'[r].user = organizer'
  BY DEF Managing, Staffs!OneManager, Staffs!ActiveRole
<1> QED BY <1>1, <1>2, <1>3

\* Every action keeps the one manager: a withdrawal never touches the
\* manager's role, because a staff assignment is linked to a staff role only.
LEMMA ManagerStep ==
    ASSUME StaffWorld, Staffs!TypeOK, Links, Staffs!OneManager, [Staffs!Next]_Staffs!vars PROVE Staffs!OneManager'
<1>1. CASE UNCHANGED <<role, organizer, deleted>> BY <1>1, ManagerStays
<1>2. ASSUME UNCHANGED <<organizer, deleted>>, NEW a \in Assignments, NEW r \in Roles,
             asg[a] # Staffs!None, Staffs!Grant(a, r)
      PROVE  Staffs!OneManager'
  <2>1. role[r] = Staffs!None BY <1>2 DEF Staffs!Grant
  <2>0. role' = [role EXCEPT ![r] = [user |-> asg[a].user, name |-> "staff", status |-> "active", via |-> a]]
    BY <1>2 DEF Staffs!Grant
  <2>2. /\ \A q \in Roles : q # r => role'[q] = role[q]
        /\ role'[r].name = "staff" /\ role[r].status # "active"
    BY <2>0, <2>1 DEF Staffs!TypeOK, Staffs!None
  <2>3. r \notin Managing BY <2>2 DEF Managing
  <2> QED BY <1>2, <2>2, <2>3, ManagerStays DEF Managing
<1>3. ASSUME UNCHANGED <<organizer, deleted>>, NEW s \in Sessions, sess[s].op \in {"revoke", "reassign"},
             role' = Staffs!LinkRevoked(sess[s].seen)
      PROVE  Staffs!OneManager'
  <2>1. /\ sess[s].seen \in Staffs!Assignment
        /\ sess[s].seen.link # NoRole => Behind(sess[s].seen.link, sess[s].on)
    BY <1>3, StaffHeld DEF Links, SeenSound
  <2>2. \A q \in Roles : q # sess[s].seen.link => role'[q] = role[q] BY <1>3, <2>1, RevokedLink
  <2>3. \A q \in Roles : q = sess[s].seen.link => role[q].name = "staff" /\ role'[q].name = "staff"
    BY <1>3, <2>1, RevokedLink DEF Behind, StaffWorld
  <2> QED BY <1>3, <2>2, <2>3, ManagerStays DEF Managing
<1>4. ASSUME NEW u \in People, Staffs!SetManager(u) PROVE Staffs!OneManager'
  <2>1. PICK new \in IF Staffs!Holds(u, "manager") THEN {{}} ELSE {{r} : r \in {q \in Roles : role[q] = Staffs!None}} :
            role' = Staffs!ReplaceManagers(u, new)
    BY <1>4 DEF Staffs!SetManager
  <2>2. organizer' = u /\ ~deleted' /\ u # Nobody BY <1>4 DEF Staffs!SetManager, StaffWorld
  <2>3. ASSUME NEW r \in Roles, role'[r].user = u,
               \A q \in Roles : role'[q].status = "active" /\ role'[q].name = "manager" <=> q = r
        PROVE  Staffs!OneManager'
    BY <2>2, <2>3 DEF Staffs!OneManager, Staffs!ActiveRole
  <2>4. CASE Staffs!Holds(u, "manager")
    <3>1. PICK r \in Roles : role[r].status = "active" /\ role[r].user = u /\ role[r].name = "manager"
      BY <2>4 DEF Staffs!Holds, Staffs!ActiveRole
    <3>2. \A q \in Roles : role[q].status = "active" /\ role[q].name = "manager" => q = r
      BY <3>1 DEF Staffs!OneManager, Staffs!ActiveRole
    <3>3. \A q \in Roles : role'[q] = IF Staffs!ActiveRole(q) /\ role[q].name = "manager" /\ role[q].user # u
                                       THEN [role[q] EXCEPT !.status = "revoked"] ELSE role[q]
      BY <2>1, <2>4 DEF Staffs!ReplaceManagers
    <3>4. \A q \in Roles : role'[q] = role[q] BY <3>1, <3>2, <3>3 DEF Staffs!ActiveRole
    <3> QED BY <2>3, <3>1, <3>2, <3>4
  <2>5. CASE ~Staffs!Holds(u, "manager")
    <3>1. PICK r \in Roles : new = {r} BY <2>1, <2>5
    <3>2. role'[r] = [user |-> u, name |-> "manager", status |-> "active", via |-> NoAssignment]
      BY <2>1, <3>1 DEF Staffs!ReplaceManagers
    <3>3. \A q \in Roles : q # r =>
             role'[q] = IF Staffs!ActiveRole(q) /\ role[q].name = "manager" /\ role[q].user # u
                        THEN [role[q] EXCEPT !.status = "revoked"] ELSE role[q]
      BY <2>1, <3>1 DEF Staffs!ReplaceManagers
    <3>4. ASSUME NEW q \in Roles, q # r, role'[q].status = "active", role'[q].name = "manager" PROVE FALSE
      <4>1. CASE Staffs!ActiveRole(q) /\ role[q].name = "manager"
        <5>1. role[q].user # u BY <2>5, <4>1 DEF Staffs!Holds
        <5>2. role[q] \in Staffs!Role BY <4>1 DEF Staffs!TypeOK, Staffs!ActiveRole, Staffs!None
        <5>3. role'[q] = [role[q] EXCEPT !.status = "revoked"] BY <3>3, <3>4, <4>1, <5>1
        <5> QED BY <3>4, <5>2, <5>3 DEF Staffs!Role
      <4>2. CASE ~(Staffs!ActiveRole(q) /\ role[q].name = "manager")
        BY <3>3, <3>4, <4>2 DEF Staffs!ActiveRole
      <4> QED BY <4>1, <4>2
    <3> QED BY <2>3, <3>2, <3>4
  <2> QED BY <2>4, <2>5
<1>5. CASE Staffs!DeleteEvent
  <2>1. \A r \in Roles : role'[r] = IF Staffs!ActiveRole(r) THEN [role[r] EXCEPT !.status = "revoked"] ELSE role[r]
    BY <1>5 DEF Staffs!DeleteEvent
  <2>2. ASSUME NEW r \in Roles PROVE role'[r].status # "active"
    <3>1. CASE Staffs!ActiveRole(r)
      <4>1. role[r] \in Staffs!Role BY <3>1 DEF Staffs!TypeOK, Staffs!ActiveRole, Staffs!None
      <4> QED BY <2>1, <3>1, <4>1 DEF Staffs!Role
    <3>2. CASE ~Staffs!ActiveRole(r) BY <2>1, <3>2 DEF Staffs!ActiveRole
    <3> QED BY <3>1, <3>2
  <2> QED BY <1>5, <2>2 DEF Staffs!DeleteEvent, Staffs!OneManager, Staffs!ActiveRole
<1>6. ASSUME NEW s \in Sessions, Staffs!StaffStep(s) PROVE Staffs!OneManager'
  <2>1. CASE UNCHANGED <<role, organizer, deleted>> BY <1>1, <2>1
  <2>2. ASSUME NEW r \in Roles, Staffs!AcceptCommit(s, r) PROVE Staffs!OneManager'
    <3>1. sess[s].on \in Assignments /\ asg[sess[s].on] # Staffs!None
      BY <2>2, StaffHeld DEF Staffs!AcceptCommit, Links, SeenSound
    <3> QED BY <1>2, <2>2, <3>1 DEF Staffs!AcceptCommit
  <2>3. CASE Staffs!RevokeCommit(s) BY <1>3, <2>3 DEF Staffs!RevokeCommit
  <2>4. ASSUME NEW b \in Assignments, NEW u \in People, Staffs!ReassignCommit(s, b, u) PROVE Staffs!OneManager'
    BY <1>3, <2>4 DEF Staffs!ReassignCommit
  <2> QED
    BY <1>6, <2>1, <2>2, <2>3, <2>4
    DEF Staffs!StaffStep, Staffs!InviteLoad, Staffs!InviteCommit, Staffs!AcceptLoad, Staffs!RevokeLoad,
        Staffs!ReassignLoad, Staffs!Tables
<1>7. ASSUME NEW s \in Sessions, Staffs!VolunteerStep(s) PROVE Staffs!OneManager'
  <2>1. CASE UNCHANGED <<role, organizer, deleted>> BY <1>1, <2>1
  <2>2. ASSUME NEW r \in Roles, Staffs!ActivateAccept(s, r) PROVE Staffs!OneManager'
    <3>1. sess[s].on \in Assignments /\ asg[sess[s].on] # Staffs!None
      BY <2>2, StaffHeld DEF Staffs!ActivateAccept, Links, SeenSound
    <3> QED BY <1>2, <2>2, <3>1 DEF Staffs!ActivateAccept
  <2> QED
    BY <1>7, <2>1, <2>2
    DEF Staffs!VolunteerStep, Staffs!ReviewLoad, Staffs!ReviewCommit, Staffs!ActivateLoad,
        Staffs!ActivateInvite, Staffs!ActivateRecord, Staffs!Tables
<1>8. ASSUME NEW s \in Sessions, Staffs!Abort(s) PROVE Staffs!OneManager'
  BY <1>1, <1>8 DEF Staffs!Abort, Staffs!Tables
<1>9. ASSUME NEW u \in People, Staffs!Designate(u) \/ Staffs!Apply(u) PROVE Staffs!OneManager'
  BY <1>1, <1>9 DEF Staffs!Designate, Staffs!Apply
<1>10. ASSUME NEW u \in Staffs!Users, NEW v \in Staffs!Users, NEW on \in BOOLEAN, Staffs!SetActive(u, v, on)
       PROVE  Staffs!OneManager'
  BY <1>1, <1>10 DEF Staffs!SetActive
<1>11. CASE UNCHANGED Staffs!vars BY <1>1, <1>11 DEF Staffs!vars
<1> QED BY <1>4, <1>5, <1>6, <1>7, <1>8, <1>9, <1>10, <1>11 DEF Staffs!Next, Staffs!AccountStep

\* Only SetActive changes who is active, and nobody disables themselves; an
\* account outside the admins disables only volunteers.
LEMMA AdminStep ==
    ASSUME StaffWorld, Staffs!AnAdminRemains, [Staffs!Next]_Staffs!vars PROVE Staffs!AnAdminRemains'
<1>1. CASE UNCHANGED active BY <1>1 DEF Staffs!AnAdminRemains
<1>2. ASSUME NEW u \in Staffs!Users, NEW v \in Staffs!Users, NEW on \in BOOLEAN, Staffs!SetActive(u, v, on)
      PROVE  Staffs!AnAdminRemains'
  <2>1. CASE u \in Admins
    BY <1>2, <2>1 DEF Staffs!SetActive, Staffs!CanManageAccount, Staffs!AnAdminRemains
  <2>2. CASE v \in People
    BY <1>2, <2>2 DEF Staffs!SetActive, Staffs!AnAdminRemains, StaffWorld
  <2> QED BY <1>2, <2>1, <2>2 DEF Staffs!SetActive, Staffs!CanManageAccount
<1> QED
  BY <1>1, <1>2
  DEF Staffs!Next, Staffs!vars, Staffs!AccountStep, Staffs!StaffStep, Staffs!VolunteerStep, Staffs!Abort,
      Staffs!Designate, Staffs!SetManager, Staffs!Apply, Staffs!DeleteEvent, Staffs!InviteLoad,
      Staffs!InviteCommit, Staffs!AcceptLoad, Staffs!RevokeLoad, Staffs!ReassignLoad, Staffs!AcceptCommit,
      Staffs!RevokeCommit, Staffs!ReassignCommit, Staffs!ReviewLoad, Staffs!ReviewCommit, Staffs!ActivateLoad,
      Staffs!ActivateInvite, Staffs!ActivateAccept, Staffs!ActivateRecord, Staffs!Tables

\* The links give the role behind an active assignment.
LEMMA LinksWork == ASSUME Staffs!TypeOK, Links PROVE Staffs!ActiveStaffCanWork
<1> SUFFICES ASSUME NEW a \in Assignments, asg[a].status = "active", ~deleted
             PROVE  /\ asg[a].link # NoRole /\ Staffs!ActiveRole(asg[a].link)
                    /\ role[asg[a].link].user = asg[a].user
  BY DEF Staffs!ActiveStaffCanWork
<1>1. asg[a] # Staffs!None BY DEF Staffs!None
<1> QED BY <1>1 DEF Links, Linked, Staffs!ActiveRole

\* Every step keeps the invariant.
LEMMA StaffKept == ASSUME StaffWorld, StaffInv, [Staffs!Next]_Staffs!vars PROVE StaffInv'
BY TypeStaff, LinksStep, ManagerStep, AdminStep DEF StaffInv

\* Whatever designations, invitations, acceptances, revocations and
\* deactivations overlap, an event has one manager, the platform keeps an
\* active administrator, and whoever is shown as active staff has the role.
THEOREM AccessStays ==
    StaffWorld => (Staffs!Spec => [](Staffs!OneManager /\ Staffs!AnAdminRemains /\ Staffs!ActiveStaffCanWork))
<1> SUFFICES ASSUME StaffWorld
             PROVE  Staffs!Spec => [](Staffs!OneManager /\ Staffs!AnAdminRemains /\ Staffs!ActiveStaffCanWork)
  OBVIOUS
<1>1. Staffs!Init => StaffInv BY InitStaff
<1>2. StaffInv /\ [Staffs!Next]_Staffs!vars => StaffInv' BY StaffKept
<1>3. StaffInv => Staffs!OneManager /\ Staffs!AnAdminRemains /\ Staffs!ActiveStaffCanWork
  BY LinksWork DEF StaffInv
<1> QED BY <1>1, <1>2, <1>3, PTL DEF Staffs!Spec

-----------------------------------------------------------------------------
(* Volunteer shifts: VolunteerShifts.                                      *)

\* An approval under way holds the lock of its shift, alone, and the place it
\* has found is still free.
PlaceReserved ==
    \A s \in Sessions : sess[s] # Rota!Idle =>
        /\ shift[sess[s].on] # Rota!NoShift
        /\ Rota!Places(sess[s].on)
        /\ \A w \in Sessions \ {s} : sess[w] # Rota!Idle => sess[w].on # sess[s].on

\* Nobody is assigned to a shift that does not exist.
NobodyYet == \A h \in Shifts : shift[h] = Rota!NoShift => \A v \in Volunteers : asg[h][v] = "none"

\* The inductive invariant: an approval's place is reserved by its lock.
RotaInv == Rota!TypeOK /\ NobodyYet /\ Rota!PlacesBounded /\ PlaceReserved

\* What is assumed of the constants.
FiniteRota == IsFiniteSet(Volunteers) /\ Counts \subseteq Nat /\ MaxTime \in Nat

\* The module counts with the cardinality of the library.
LEMMA RotaCardinality == \A S : Rota!Cardinality(S) = Cardinality(S)
BY DEF Rota!Cardinality, Cardinality

\* The volunteers of a shift can be counted.
LEMMA RotaCountable ==
    ASSUME FiniteRota
    PROVE  /\ \A h \in Shifts : Cardinality(Rota!Assigned(h)) \in Nat
           /\ \A S, T : S \subseteq T /\ T \subseteq Volunteers =>
                 /\ Cardinality(S) \in Nat /\ Cardinality(T) \in Nat
                 /\ Cardinality(S) <= Cardinality(T)
           /\ \A S, v : S \subseteq Volunteers =>
                 Cardinality(S \cup {v}) <= Cardinality(S) + 1
<1>1. \A S, T : S \subseteq T /\ T \subseteq Volunteers =>
         IsFiniteSet(T) /\ IsFiniteSet(S) /\ Cardinality(S) <= Cardinality(T)
  BY FS_Subset DEF FiniteRota
<1>2. \A S, v : S \subseteq Volunteers => Cardinality(S \cup {v}) <= Cardinality(S) + 1
  <2> TAKE S, v
  <2> HAVE S \subseteq Volunteers
  <2>1. IsFiniteSet(S) BY <1>1
  <2>2. Cardinality(S) \in Nat BY <2>1, FS_CardinalityType
  <2>3. CASE v \in S
    <3>1. S \cup {v} = S BY <2>3
    <3> QED BY <2>2, <3>1
  <2>4. CASE v \notin S
    <3>1. Cardinality(S \cup {v}) = Cardinality(S) + 1 BY <2>1, <2>4, FS_AddElement
    <3> QED BY <2>2, <3>1
  <2> QED BY <2>3, <2>4
<1> QED BY <1>1, <1>2, FS_CardinalityType DEF Rota!Assigned

\* The statuses that the code writes.
LEMMA ShiftStatuses ==
    /\ {"requested", "approved", "rejected", "active", "cancelled", "completed"} \subseteq Rota!AssignmentStatus
    /\ {"draft", "open", "full", "in_progress", "completed", "cancelled"} \subseteq Rota!ShiftStatus
    /\ "none" \notin Rota!ShiftStatus
<1>1. \A m \in Rota!AssignmentMoves : m[1] \in Rota!AssignmentStatus /\ m[2] \in Rota!AssignmentStatus
  BY DEF Rota!AssignmentStatus
<1>2. \A m \in Rota!ShiftMoves : m[1] \in Rota!ShiftStatus /\ m[2] \in Rota!ShiftStatus
  BY DEF Rota!ShiftStatus
<1>3. \A m \in Rota!ShiftMoves : m[1] # "none" /\ m[2] # "none"
  BY DEF Rota!ShiftMoves
<1>4. "none" \notin Rota!ShiftStatus BY <1>3 DEF Rota!ShiftStatus
<1>5. {<<"requested", "approved">>, <<"requested", "rejected">>, <<"approved", "active">>,
       <<"active", "completed">>, <<"active", "cancelled">>} \subseteq Rota!AssignmentMoves
  BY DEF Rota!AssignmentMoves
<1>6. {<<"draft", "open">>, <<"full", "open">>, <<"in_progress", "completed">>,
       <<"in_progress", "cancelled">>} \subseteq Rota!ShiftMoves
  BY DEF Rota!ShiftMoves
<1> QED BY <1>1, <1>2, <1>4, <1>5, <1>6

\* At first there is no shift.
LEMMA InitShifts == FiniteRota /\ Rota!Init => RotaInv
<1> SUFFICES ASSUME FiniteRota, Rota!Init PROVE RotaInv OBVIOUS
<1>1. Rota!TypeOK BY DEF FiniteRota, Rota!Init, Rota!TypeOK, Rota!AttendanceStatus
<1> QED BY <1>1 DEF Rota!Init, RotaInv, NobodyYet, Rota!PlacesBounded, PlaceReserved

\* Synchronising the status leaves the number of places alone.
LEMMA ShiftSynced ==
    ASSUME NEW row \in Rota!Shift, NEW n
    PROVE  Rota!SyncedRow(row, n) \in Rota!Shift /\ Rota!SyncedRow(row, n).need = row.need
<1>1. {"full", "open"} \subseteq Rota!ShiftStatus BY ShiftStatuses
<1> QED BY <1>1 DEF Rota!SyncedRow, Rota!Shift

\* A step on one shift that no approval holds: what it leaves there must fit.
LEMMA OneShiftChanged ==
    ASSUME FiniteRota, RotaInv, NEW h \in Shifts, shift[h] = Rota!NoShift \/ Rota!ShiftFree(h), Rota!TypeOK',
           UNCHANGED sess,
           \A g \in Shifts \ {h} : shift'[g] = shift[g] /\ asg'[g] = asg[g],
           shift'[h] # Rota!NoShift, Cardinality(Rota!Assigned(h))' <= shift'[h].need
    PROVE  RotaInv'
<1>1. \A g \in Shifts \ {h} : Rota!Assigned(g)' = Rota!Assigned(g) BY DEF Rota!Assigned
<1>2. \A s \in Sessions : sess[s] # Rota!Idle => sess[s].on \in Shifts \ {h}
  BY DEF RotaInv, Rota!TypeOK, PlaceReserved, Rota!ShiftFree, Rota!NoShift
<1>3. PlaceReserved' BY <1>1, <1>2 DEF RotaInv, PlaceReserved, Rota!Places
<1>4. Rota!PlacesBounded' /\ NobodyYet' BY <1>1, RotaCardinality DEF RotaInv, Rota!PlacesBounded, NobodyYet
<1> QED BY <1>3, <1>4 DEF RotaInv

\* A shift is created without volunteers, and never gets fewer places than it
\* has volunteers.
LEMMA ShiftManaged ==
    ASSUME FiniteRota, RotaInv, NEW h \in Shifts, NEW n \in Counts, NEW t \in Slots, NEW st \in Rota!ShiftStatus,
           Rota!CreateShift(h, st, n, t) \/ Rota!UpdateShift(h, st, n, t)
    PROVE  RotaInv'
<1> DEFINE row == [status |-> st, need |-> n, slot |-> t]
<1>1. shift' = [shift EXCEPT ![h] = row] /\ UNCHANGED <<asg, att, sess, now>>
  BY DEF Rota!CreateShift, Rota!UpdateShift
<1>2. row \in Rota!Shift /\ row.need = n /\ row # Rota!NoShift BY ShiftStatuses DEF Rota!Shift, Rota!NoShift
<1> HIDE DEF row
<1>3. /\ shift'[h] = row /\ \A g \in Shifts \ {h} : shift'[g] = shift[g]
      /\ shift' \in [Shifts -> Rota!Shift \cup {Rota!NoShift}]
  BY <1>1, <1>2 DEF RotaInv, Rota!TypeOK
<1>4. Rota!TypeOK' BY <1>1, <1>3 DEF RotaInv, Rota!TypeOK
<1>5. shift[h] = Rota!NoShift \/ Rota!ShiftFree(h) BY DEF Rota!CreateShift, Rota!UpdateShift
<1>6. Rota!Assigned(h)' = Rota!Assigned(h) BY <1>1 DEF Rota!Assigned
<1>7. Cardinality(Rota!Assigned(h)) <= n
  <2>1. CASE Rota!CreateShift(h, st, n, t)
    <3>1. Rota!Assigned(h) = {} BY <2>1 DEF Rota!CreateShift, RotaInv, NobodyYet, Rota!Assigned, Rota!Assignable
    <3>2. Cardinality(Rota!Assigned(h)) = 0 BY <3>1, FS_EmptySet
    <3> QED BY <3>2 DEF FiniteRota
  <2>2. CASE Rota!UpdateShift(h, st, n, t)
    BY <2>2, RotaCardinality DEF Rota!UpdateShift, Rota!ShiftFree, RotaInv, Rota!PlacesBounded
  <2> QED BY <2>1, <2>2
<1> QED BY <1>1, <1>2, <1>3, <1>4, <1>5, <1>6, <1>7, OneShiftChanged

\* A step that moves one assignment of a free shift.
LEMMA AssignmentMoved ==
    ASSUME FiniteRota, RotaInv, NEW h \in Shifts, NEW v \in Volunteers, Rota!ShiftFree(h),
           NEW st \in Rota!AssignmentStatus, asg' = [asg EXCEPT ![h][v] = st],
           st \in Rota!Assignable => asg[h][v] \in Rota!Assignable,
           NEW row, shift' = [shift EXCEPT ![h] = row], row \in Rota!Shift, row.need = shift[h].need,
           att' \in [Shifts -> [Volunteers -> Rota!AttendanceStatus]], UNCHANGED <<sess, now>>
    PROVE  RotaInv'
<1>1. /\ asg' \in [Shifts -> [Volunteers -> Rota!AssignmentStatus \cup {"none"}]]
      /\ \A g \in Shifts \ {h} : asg'[g] = asg[g]
      /\ asg'[h] = [asg[h] EXCEPT ![v] = st]
  BY DEF RotaInv, Rota!TypeOK
<1>2. /\ shift' \in [Shifts -> Rota!Shift \cup {Rota!NoShift}] /\ shift'[h] = row
      /\ \A g \in Shifts \ {h} : shift'[g] = shift[g]
  BY DEF RotaInv, Rota!TypeOK
<1>3. row # Rota!NoShift BY ShiftStatuses DEF Rota!Shift, Rota!NoShift
<1>4. Rota!Assigned(h)' \subseteq Rota!Assigned(h) /\ Rota!Assigned(h) \subseteq Volunteers
  BY <1>1 DEF RotaInv, Rota!TypeOK, Rota!Assigned
<1>5. Cardinality(Rota!Assigned(h)) <= row.need BY RotaCardinality DEF RotaInv, Rota!PlacesBounded, Rota!ShiftFree
<1>6. row.need \in Nat BY DEF Rota!Shift, FiniteRota
<1>7. Cardinality(Rota!Assigned(h))' <= row.need BY <1>4, <1>5, <1>6, RotaCountable
<1>8. Rota!TypeOK' BY <1>1, <1>2 DEF RotaInv, Rota!TypeOK
<1> QED BY <1>1, <1>2, <1>3, <1>7, <1>8, OneShiftChanged

\* A shift that can be locked has a row.
LEMMA FreeRow ==
    ASSUME RotaInv, NEW h \in Shifts, Rota!ShiftFree(h)
    PROVE  shift[h] \in Rota!Shift
BY DEF RotaInv, Rota!TypeOK, Rota!ShiftFree

\* Writing one attendance.
LEMMA AttendanceType ==
    ASSUME RotaInv, NEW h \in Shifts, NEW v \in Volunteers, NEW a \in Rota!AttendanceStatus,
           att' = [att EXCEPT ![h][v] = a]
    PROVE  att' \in [Shifts -> [Volunteers -> Rota!AttendanceStatus]]
BY DEF RotaInv, Rota!TypeOK

\* Requests, refusals, cancellations and attendance never fill a place.
LEMMA AssignmentStep ==
    ASSUME FiniteRota, RotaInv, NEW h \in Shifts, NEW v \in Volunteers,
           \/ Rota!Request(h, v) \/ Rota!CheckIn(h, v) \/ Rota!CheckOut(h, v) \/ Rota!NoShow(h, v)
           \/ \E st \in Rota!AssignmentStatus : Rota!Move(h, v, st)
    PROVE  RotaInv'
<1>0. shift[h] \in Rota!Shift /\ Rota!ShiftFree(h)
  BY FreeRow DEF Rota!Request, Rota!CheckIn, Rota!CheckOut, Rota!NoShow, Rota!Move
<1>1. CASE Rota!Request(h, v)
  <2> DEFINE row == Rota!SyncedRow(shift[h], Cardinality(Rota!Assigned(h)))
  <2>1. row \in Rota!Shift /\ row.need = shift[h].need BY <1>0, ShiftSynced
  <2>2. shift' = [shift EXCEPT ![h] = row] /\ asg' = [asg EXCEPT ![h][v] = "requested"]
        /\ UNCHANGED <<att, sess, now>>
    BY <1>1, RotaCardinality DEF Rota!Request
  <2>3. "requested" \in Rota!AssignmentStatus /\ "requested" \notin Rota!Assignable BY ShiftStatuses DEF Rota!Assignable
  <2>4. att' \in [Shifts -> [Volunteers -> Rota!AttendanceStatus]] BY <2>2 DEF RotaInv, Rota!TypeOK
  <2> HIDE DEF row
  <2> QED BY <1>0, <2>1, <2>2, <2>3, <2>4, AssignmentMoved
<1>2. ASSUME NEW st \in Rota!AssignmentStatus, Rota!Move(h, v, st) PROVE RotaInv'
  <2> DEFINE n == Cardinality({u \in Volunteers : asg'[h][u] \in Rota!Assignable})
             row == Rota!SyncedRow(shift[h], n)
  <2>1. row \in Rota!Shift /\ row.need = shift[h].need BY <1>0, ShiftSynced
  <2>2. shift' = [shift EXCEPT ![h] = row] /\ asg' = [asg EXCEPT ![h][v] = st]
        /\ UNCHANGED <<sess, now>>
    BY <1>2, RotaCardinality DEF Rota!Move
  <2>3. st \in Rota!Assignable => asg[h][v] \in Rota!Assignable
    BY <1>2 DEF Rota!Move, Rota!AssignmentMoves, Rota!Assignable
  <2>4. att' \in [Shifts -> [Volunteers -> Rota!AttendanceStatus]]
    <3>1. att' = att \/ att' = [att EXCEPT ![h][v] = "cancelled"] BY <1>2 DEF Rota!Move
    <3>2. "cancelled" \in Rota!AttendanceStatus BY DEF Rota!AttendanceStatus
    <3> QED BY <3>1, <3>2, AttendanceType DEF RotaInv, Rota!TypeOK
  <2> HIDE DEF row
  <2> QED BY <1>0, <2>1, <2>2, <2>3, <2>4, AssignmentMoved
<1>3. CASE Rota!CheckIn(h, v)
  <2> DEFINE row == [shift[h] EXCEPT !.status = "in_progress"]
  <2>1. row \in Rota!Shift /\ row.need = shift[h].need BY <1>0, ShiftStatuses DEF Rota!Shift
  <2>2. shift' = [shift EXCEPT ![h] = row] /\ asg' = [asg EXCEPT ![h][v] = "active"]
        /\ att' = [att EXCEPT ![h][v] = "checked_in"] /\ UNCHANGED <<sess, now>>
    BY <1>3 DEF Rota!CheckIn
  <2>3. "active" \in Rota!AssignmentStatus /\ asg[h][v] \in Rota!Assignable
    BY <1>3, ShiftStatuses DEF Rota!CheckIn, Rota!MayArrive, Rota!Assignable
  <2>4. att' \in [Shifts -> [Volunteers -> Rota!AttendanceStatus]]
    BY <2>2, AttendanceType DEF Rota!AttendanceStatus
  <2> HIDE DEF row
  <2> QED BY <1>0, <2>1, <2>2, <2>3, <2>4, AssignmentMoved
<1>4. CASE Rota!CheckOut(h, v)
  <2> DEFINE row == IF now >= shift[h].slot[2] THEN [shift[h] EXCEPT !.status = "completed"] ELSE shift[h]
  <2>1. row \in Rota!Shift /\ row.need = shift[h].need BY <1>0, ShiftStatuses DEF Rota!Shift
  <2>2. asg' = [asg EXCEPT ![h][v] = "completed"]
        /\ att' = [att EXCEPT ![h][v] = "checked_out"] /\ UNCHANGED <<sess, now>>
    BY <1>4 DEF Rota!CheckOut
  <2>3. "completed" \in Rota!AssignmentStatus /\ "completed" \notin Rota!Assignable
    BY ShiftStatuses DEF Rota!Assignable
  <2>4. att' \in [Shifts -> [Volunteers -> Rota!AttendanceStatus]]
    BY <2>2, AttendanceType DEF Rota!AttendanceStatus
  <2>5. shift' = [shift EXCEPT ![h] = row]
    <3>1. shift = [shift EXCEPT ![h] = shift[h]] BY DEF RotaInv, Rota!TypeOK
    <3> QED BY <1>4, <3>1 DEF Rota!CheckOut
  <2> HIDE DEF row
  <2> QED BY <1>0, <2>1, <2>2, <2>3, <2>4, <2>5, AssignmentMoved
<1>5. CASE Rota!NoShow(h, v)
  <2>1. UNCHANGED <<shift, asg, sess, now>> /\ att' = [att EXCEPT ![h][v] = "no_show"]
    BY <1>5 DEF Rota!NoShow
  <2>2. att' \in [Shifts -> [Volunteers -> Rota!AttendanceStatus]]
    BY <2>1, AttendanceType DEF Rota!AttendanceStatus
  <2>3. Rota!TypeOK' BY <2>1, <2>2 DEF RotaInv, Rota!TypeOK
  <2> QED BY <2>1, <2>3 DEF RotaInv, NobodyYet, Rota!PlacesBounded, PlaceReserved, Rota!Places, Rota!Assigned
<1> QED BY <1>1, <1>2, <1>3, <1>4, <1>5

\* An approval starts on a shift with a free place that nobody else approves on.
LEMMA ApprovalChecked ==
    ASSUME FiniteRota, RotaInv, NEW s \in Sessions, NEW h \in Shifts, NEW v \in Volunteers,
           Rota!AssignCheck(s, h, v) \/ Rota!ApproveCheck(s, h, v)
    PROVE  RotaInv'
<1>1. Rota!BeginApproval(s, h, v) BY DEF Rota!AssignCheck, Rota!ApproveCheck
<1> DEFINE next == [op |-> "approve", on |-> h, who |-> v]
<1>2. /\ sess' = [sess EXCEPT ![s] = next] /\ UNCHANGED <<shift, asg, att, now>>
      /\ shift[h] # Rota!NoShift /\ Rota!Places(h)
      /\ \A w \in Sessions : sess[w] # Rota!Idle => sess[w].on # h
  BY <1>1 DEF Rota!BeginApproval, Rota!ShiftFree
<1>3. next \in [op : {"approve"}, on : Shifts, who : Volunteers] /\ next.on = h OBVIOUS
<1> HIDE DEF next
<1>4. Rota!TypeOK' BY <1>2, <1>3 DEF RotaInv, Rota!TypeOK
<1>5. PlaceReserved' BY <1>2, <1>3 DEF RotaInv, Rota!TypeOK, PlaceReserved, Rota!Places, Rota!Assigned
<1> QED BY <1>2, <1>4, <1>5 DEF RotaInv, NobodyYet, Rota!PlacesBounded, Rota!Assigned

\* The approval takes the place it has reserved.
LEMMA ApprovalStep ==
    ASSUME FiniteRota, RotaInv, NEW s \in Sessions, Rota!ApproveCommit(s),
           NEW h \in Shifts, NEW v \in Volunteers, h = sess[s].on, v = sess[s].who
    PROVE  RotaInv'
<1>1. PICK row : row = Rota!SyncedRow(shift[h], Cardinality(Rota!Assigned(h)) + 1) OBVIOUS
<1>2. /\ asg' = [asg EXCEPT ![h][v] = "approved"] /\ shift' = [shift EXCEPT ![h] = row]
      /\ sess' = [sess EXCEPT ![s] = Rota!Idle] /\ UNCHANGED <<att, now>> /\ sess[s] # Rota!Idle
  BY <1>1, RotaCardinality DEF Rota!ApproveCommit, RotaInv, Rota!TypeOK
<1>3. shift[h] # Rota!NoShift /\ Rota!Places(h) /\ \A w \in Sessions \ {s} : sess[w] # Rota!Idle => sess[w].on # h
  BY <1>2 DEF RotaInv, PlaceReserved
<1>4. row \in Rota!Shift /\ row.need = shift[h].need
  <2>1. shift[h] \in Rota!Shift BY <1>3 DEF RotaInv, Rota!TypeOK
  <2> QED BY <1>1, <2>1, ShiftSynced
<1>5. row # Rota!NoShift /\ row.need \in Nat
  <2>1. row.status \in Rota!ShiftStatus /\ row.need \in Counts BY <1>4 DEF Rota!Shift
  <2>2. row.status # "none" /\ Rota!NoShift.status = "none" BY <2>1, ShiftStatuses DEF Rota!NoShift
  <2> QED BY <2>1, <2>2 DEF FiniteRota
<1>6. /\ asg' \in [Shifts -> [Volunteers -> Rota!AssignmentStatus \cup {"none"}]]
      /\ \A g \in Shifts \ {h} : asg'[g] = asg[g]
      /\ asg'[h] = [asg[h] EXCEPT ![v] = "approved"]
  <2>1. "approved" \in Rota!AssignmentStatus BY ShiftStatuses
  <2> QED BY <1>2, <2>1 DEF RotaInv, Rota!TypeOK
<1>7. /\ shift' \in [Shifts -> Rota!Shift \cup {Rota!NoShift}] /\ shift'[h] = row
      /\ \A g \in Shifts \ {h} : shift'[g] = shift[g]
  BY <1>2, <1>4 DEF RotaInv, Rota!TypeOK
<1>8. Rota!Assigned(h)' \subseteq Rota!Assigned(h) \cup {v} /\ Rota!Assigned(h) \cup {v} \subseteq Volunteers
  <2>1. asg[h] \in [Volunteers -> Rota!AssignmentStatus \cup {"none"}] BY DEF RotaInv, Rota!TypeOK
  <2>2. \A u \in Volunteers \ {v} : asg'[h][u] = asg[h][u] BY <1>6, <2>1
  <2> QED BY <2>2 DEF Rota!Assigned
<1>9. Cardinality(Rota!Assigned(h)) < row.need BY <1>3, <1>4, RotaCardinality DEF Rota!Places
<1>10. Cardinality(Rota!Assigned(h))' <= row.need
  <2>1. Cardinality(Rota!Assigned(h)') <= Cardinality(Rota!Assigned(h) \cup {v}) BY <1>8, RotaCountable
  <2>2. Cardinality(Rota!Assigned(h) \cup {v}) <= Cardinality(Rota!Assigned(h)) + 1 BY <1>8, RotaCountable
  <2>3. /\ Cardinality(Rota!Assigned(h)') \in Nat /\ Cardinality(Rota!Assigned(h)) \in Nat
        /\ Cardinality(Rota!Assigned(h) \cup {v}) \in Nat
    BY <1>8, RotaCountable
  <2> QED BY <1>5, <1>9, <2>1, <2>2, <2>3
<1>11. /\ sess'[s] = Rota!Idle /\ \A w \in Sessions \ {s} : sess'[w] = sess[w]
       /\ \A g \in Shifts \ {h} : Rota!Assigned(g)' = Rota!Assigned(g)
  BY <1>2, <1>6 DEF RotaInv, Rota!TypeOK, Rota!Assigned
<1>12. \A w \in Sessions : sess[w] # Rota!Idle => sess[w].on \in Shifts BY DEF RotaInv, Rota!TypeOK
<1>13. Rota!TypeOK'
  <2>1. sess' \in [Sessions -> {Rota!Idle} \cup [op : {"approve"}, on : Shifts, who : Volunteers]]
    BY <1>2 DEF RotaInv, Rota!TypeOK
  <2> QED BY <1>2, <1>6, <1>7, <2>1 DEF RotaInv, Rota!TypeOK
<1>14. PlaceReserved' BY <1>3, <1>7, <1>11, <1>12 DEF RotaInv, PlaceReserved, Rota!Places
<1>15. Rota!PlacesBounded'
  <2> SUFFICES ASSUME NEW g \in Shifts, shift'[g] # Rota!NoShift
               PROVE  Cardinality(Rota!Assigned(g)') <= shift'[g].need
    BY RotaCardinality DEF Rota!PlacesBounded
  <2>1. CASE g = h BY <2>1, <1>7, <1>10
  <2>2. CASE g # h BY <2>2, <1>7, <1>11, RotaCardinality DEF RotaInv, Rota!PlacesBounded
  <2> QED BY <2>1, <2>2
<1>16. NobodyYet'
  <2> SUFFICES ASSUME NEW g \in Shifts, shift'[g] = Rota!NoShift
               PROVE  \A u \in Volunteers : asg'[g][u] = "none"
    BY DEF NobodyYet
  <2>1. g # h BY <1>5, <1>7
  <2> QED BY <2>1, <1>6, <1>7 DEF RotaInv, NobodyYet
<1> QED BY <1>13, <1>14, <1>15, <1>16 DEF RotaInv

\* Every step keeps the invariant.
LEMMA ShiftKept == ASSUME FiniteRota, RotaInv, [Rota!Next]_Rota!vars PROVE RotaInv'
<1>1. CASE UNCHANGED Rota!vars
  BY <1>1 DEF Rota!vars, RotaInv, Rota!TypeOK, NobodyYet, Rota!PlacesBounded, PlaceReserved, Rota!Places, Rota!Assigned
<1>2. CASE Rota!Tick
  <2>1. UNCHANGED <<shift, asg, att, sess>> /\ now' \in 0 .. MaxTime
    BY <1>2 DEF Rota!Tick, FiniteRota, RotaInv, Rota!TypeOK
  <2>2. Rota!TypeOK' BY <2>1 DEF RotaInv, Rota!TypeOK
  <2> QED BY <2>1, <2>2 DEF RotaInv, NobodyYet, Rota!PlacesBounded, PlaceReserved, Rota!Places, Rota!Assigned
<1>3. ASSUME NEW s \in Sessions, Rota!Abort(s) PROVE RotaInv'
  BY <1>3 DEF Rota!Abort, RotaInv, Rota!TypeOK, NobodyYet, Rota!PlacesBounded, PlaceReserved, Rota!Places, Rota!Assigned
<1>4. ASSUME NEW h \in Shifts, NEW n \in Counts, NEW t \in Slots,
             \/ \E st \in {"draft", "open"} : Rota!CreateShift(h, st, n, t)
             \/ \E st \in Rota!ShiftStatus : Rota!UpdateShift(h, st, n, t)
      PROVE  RotaInv'
  BY <1>4, ShiftStatuses, ShiftManaged
<1>5. ASSUME NEW s \in Sessions, Rota!ApproveCommit(s) PROVE RotaInv'
  <2>1. sess[s].on \in Shifts /\ sess[s].who \in Volunteers
    BY <1>5 DEF Rota!ApproveCommit, RotaInv, Rota!TypeOK
  <2> QED BY <1>5, <2>1, ApprovalStep
<1> QED BY <1>1, <1>2, <1>3, <1>4, <1>5, AssignmentStep, ApprovalChecked DEF Rota!Next

\* However approvals, cancellations and changes of the number of places
\* overlap, a shift never has more volunteers than places.
THEOREM NoShiftOverbooked == ASSUME FiniteRota PROVE Rota!Spec => []Rota!PlacesBounded
<1>1. Rota!Init => RotaInv BY InitShifts
<1>2. RotaInv /\ [Rota!Next]_Rota!vars => RotaInv' BY ShiftKept
<1>3. RotaInv => Rota!PlacesBounded BY DEF RotaInv
<1> QED BY <1>1, <1>2, <1>3, PTL DEF Rota!Spec

\* An attendance row is written when the volunteer arrives, leaves, is absent
\* or is taken off the shift, each from a status that may still change.
LEMMA AttendanceKept == ASSUME Rota!TypeOK, [Rota!Next]_Rota!vars PROVE Rota!AttendanceIsFinal
<1>1. CASE UNCHANGED att BY <1>1 DEF Rota!AttendanceIsFinal
<1>2. ASSUME NEW h \in Shifts, NEW v \in Volunteers, NEW new, att' = [att EXCEPT ![h][v] = new],
             att[h][v] \in {"none", "checked_in"}
      PROVE  Rota!AttendanceIsFinal
  <2>1. \A g \in Shifts, u \in Volunteers : <<g, u>> # <<h, v>> => att'[g][u] = att[g][u]
    BY <1>2 DEF Rota!TypeOK
  <2> QED BY <1>2, <2>1 DEF Rota!AttendanceIsFinal
<1>3. ASSUME NEW h \in Shifts, NEW v \in Volunteers, Rota!CheckIn(h, v) PROVE Rota!AttendanceIsFinal
  BY <1>2, <1>3 DEF Rota!CheckIn, Rota!MayArrive
<1>4. ASSUME NEW h \in Shifts, NEW v \in Volunteers, Rota!CheckOut(h, v) PROVE Rota!AttendanceIsFinal
  BY <1>2, <1>4 DEF Rota!CheckOut
<1>5. ASSUME NEW h \in Shifts, NEW v \in Volunteers, Rota!NoShow(h, v) PROVE Rota!AttendanceIsFinal
  BY <1>2, <1>5 DEF Rota!NoShow
<1>6. ASSUME NEW h \in Shifts, NEW v \in Volunteers, NEW st, Rota!Move(h, v, st) PROVE Rota!AttendanceIsFinal
  <2>1. CASE st = "cancelled" /\ att[h][v] = "checked_in" BY <1>2, <1>6, <2>1 DEF Rota!Move
  <2>2. CASE ~(st = "cancelled" /\ att[h][v] = "checked_in") BY <1>1, <1>6, <2>2 DEF Rota!Move
  <2> QED BY <2>1, <2>2
<1> QED
  BY <1>1, <1>3, <1>4, <1>5, <1>6
  DEF Rota!Next, Rota!vars, Rota!CreateShift, Rota!UpdateShift, Rota!Request, Rota!AssignCheck, Rota!ApproveCheck,
      Rota!BeginApproval, Rota!ApproveCommit, Rota!Abort, Rota!Tick

\* Whoever left a shift, was absent or was taken off it while on duty does not
\* turn up on it again.
THEOREM AttendanceStays == ASSUME FiniteRota PROVE Rota!Spec => [][Rota!AttendanceIsFinal]_Rota!vars
<1>1. Rota!Init => RotaInv BY InitShifts
<1>2. RotaInv /\ [Rota!Next]_Rota!vars => RotaInv' BY ShiftKept
<1>3. RotaInv /\ [Rota!Next]_Rota!vars => Rota!AttendanceIsFinal BY AttendanceKept DEF RotaInv
<1> QED BY <1>1, <1>2, <1>3, PTL DEF Rota!Spec

-----------------------------------------------------------------------------
(* One-time codes: OneTimeCode.                                            *)

\* What is assumed of the constants.
CodeLimits == /\ Cooldown \in Nat /\ Expiry \in Nat /\ MaxAttempts \in Nat \ {0}
              /\ MaxTime \in Nat /\ MaxCodes \in Nat /\ IsFiniteSet(Sessions)

\* The cooldown runs from the last code that was granted.
CooldownRuns == coolEnd = claimed + Cooldown /\ ~tooSoon

\* Requests that have been let in and have not counted a wrong answer yet.
Answering == {s \in Sessions : sess[s].op \in {"read", "wrong"}}

\* Each of them was let in below the limit.
AttemptsLeft == wrong + Cardinality(Answering) < MaxAttempts + Cardinality(Sessions)

\* A code that waits to be stored is new; one that was cleared is not stored
\* again, and a verification that may still succeed with it began before.
CodesDie ==
    /\ code <= issued /\ code \notin spent
    /\ spent \subseteq 1 .. issued
    /\ \A s \in Sessions :
          /\ sess[s].op = "store" =>
                /\ sess[s].code \in 1 .. issued /\ sess[s].code \notin spent \cup {code}
                /\ \A z \in Sessions : sess[z].op \in {"store", "clear", "wrong"} /\ sess[z].code = sess[s].code => z = s
          /\ sess[s].op = "read" => sess[s].dead \subseteq spent
          /\ sess[s].op \in {"clear", "wrong"} =>
                sess[s].code \in 1 .. issued /\ sess[s].code \notin sess[s].dead
    /\ ~reused

\* The inductive invariant.
CodeInv == Codes!TypeOK /\ CooldownRuns /\ AttemptsLeft /\ CodesDie

\* What a request may hold.
CodeSessions == {Codes!Idle} \cup Codes!Asking

\* The module counts with the cardinality of the library.
LEMMA CodeCardinality == \A S : Codes!Cardinality(S) = Cardinality(S)
BY DEF Codes!Cardinality, Cardinality

\* At first no code is stored and nobody answers.
LEMMA InitCode == CodeLimits => (Codes!Init => CodeInv)
<1> SUFFICES ASSUME CodeLimits, Codes!Init PROVE CodeInv OBVIOUS
<1>1. sess \in [Sessions -> CodeSessions] /\ \A s \in Sessions : sess[s] = Codes!Idle
  BY DEF Codes!Init, CodeSessions
<1>2. enabled \in BOOLEAN /\ tooSoon \in BOOLEAN /\ reused \in BOOLEAN /\ ~tooSoon /\ ~reused BY DEF Codes!Init
<1>3. code = 0 /\ issued = 0 /\ wrong = 0 /\ codeEnd = 0 /\ wrongEnd = 0 /\ coolEnd = 0 /\ spent = {}
      /\ claimed = -Cooldown /\ now = 0
  BY DEF Codes!Init
<1>4. Codes!TypeOK BY <1>1, <1>2, <1>3 DEF Codes!TypeOK, CodeSessions, CodeLimits
<1>5. AttemptsLeft
  <2>1. Answering = {} BY <1>1 DEF Answering, Codes!Idle
  <2>2. Cardinality(Sessions) \in Nat BY FS_CardinalityType DEF CodeLimits
  <2> QED BY <1>3, <2>1, <2>2, FS_EmptySet DEF AttemptsLeft, CodeLimits
<1>6. CooldownRuns BY <1>2, <1>3 DEF CooldownRuns, CodeLimits
<1>7. CodesDie BY <1>1, <1>2, <1>3 DEF CodesDie, Codes!Idle
<1> QED BY <1>4, <1>5, <1>6, <1>7 DEF CodeInv

\* What each request holds.
LEMMA CodeHeld ==
    ASSUME Codes!TypeOK, NEW s \in Sessions
    PROVE  /\ sess \in [Sessions -> CodeSessions]
           /\ sess[s].op \in {"store", "clear", "wrong"} => sess[s].code \in 1 .. MaxCodes
           /\ sess[s].op \in {"read", "clear", "wrong"} => sess[s].dead \in SUBSET (1 .. MaxCodes)
BY DEF Codes!TypeOK, CodeSessions, Codes!Asking, Codes!Idle

\* Every action keeps the types.
LEMMA TypeCode == ASSUME CodeLimits, Codes!TypeOK, [Codes!Next]_Codes!vars PROVE Codes!TypeOK'
<1>0. sess \in [Sessions -> CodeSessions] BY DEF Codes!TypeOK, CodeSessions
<1>1. CASE Codes!Tick BY <1>1 DEF Codes!Tick, Codes!TypeOK, CodeLimits, Codes!History
<1>2. ASSUME NEW on \in BOOLEAN, Codes!SetActive(on) PROVE Codes!TypeOK'
  BY <1>2 DEF Codes!SetActive, Codes!TypeOK, Codes!Keys, Codes!History
<1>3. ASSUME NEW s \in Sessions,
             \/ Codes!RequestCode(s) \/ Codes!Claim(s) \/ Codes!StoreCode(s) \/ Codes!ForgiveAttempts(s)
             \/ Codes!ReadAttempts(s) \/ Codes!CountWrong(s) \/ Codes!ExtendAttempts(s) \/ Codes!ClearCode(s)
             \/ Codes!SignIn(s) \/ Codes!Abort(s) \/ \E right \in BOOLEAN : Codes!ReadCode(s, right)
      PROVE  sess' \in [Sessions -> CodeSessions]
  <2>1. issued \in Nat /\ (issued < MaxCodes => issued + 1 \in 1 .. MaxCodes) /\ code \in 0 .. MaxCodes
        /\ spent \in SUBSET (1 .. MaxCodes)
    BY DEF Codes!TypeOK, CodeLimits
  <2> QED BY <1>0, <1>3, <2>1, CodeHeld DEF Codes!RequestCode, Codes!Claim, Codes!StoreCode, Codes!ForgiveAttempts,
     Codes!ReadAttempts, Codes!CountWrong, Codes!ExtendAttempts, Codes!ClearCode, Codes!SignIn, Codes!Abort,
     Codes!ReadCode, Codes!Go, CodeSessions, Codes!Asking
<1>4. ASSUME NEW s \in Sessions,
             \/ Codes!RequestCode(s) \/ Codes!ReadAttempts(s) \/ Codes!Abort(s)
             \/ \E right \in BOOLEAN : Codes!ReadCode(s, right)
      PROVE  Codes!TypeOK'
  BY <1>3, <1>4 DEF Codes!RequestCode, Codes!ReadAttempts, Codes!Abort, Codes!ReadCode, Codes!Keys, Codes!History,
     Codes!TypeOK, CodeSessions
<1>5. ASSUME NEW s \in Sessions, Codes!Claim(s) PROVE Codes!TypeOK'
  BY <1>3, <1>5 DEF Codes!Claim, Codes!TypeOK, CodeSessions, CodeLimits
<1>6. ASSUME NEW s \in Sessions, Codes!StoreCode(s) PROVE Codes!TypeOK'
  <2>1. enabled' = enabled /\ tooSoon' = tooSoon /\ reused' \in BOOLEAN
    BY <1>6 DEF Codes!StoreCode, Codes!History, Codes!TypeOK
  <2>2. issued' = issued /\ claimed' = claimed /\ now' = now /\ spent' \subseteq 1 .. MaxCodes /\ code' \in 0 .. MaxCodes
    BY <1>6, CodeHeld DEF Codes!StoreCode, Codes!History, Codes!TypeOK, Codes!Cleared, CodeLimits
  <2>3. wrong' \in Nat /\ {codeEnd', wrongEnd', coolEnd'} \subseteq Nat
    BY <1>6 DEF Codes!StoreCode, Codes!TypeOK, Codes!Never, CodeLimits
  <2> QED BY <1>3, <1>6, <2>1, <2>2, <2>3 DEF Codes!TypeOK, CodeSessions
<1>7. ASSUME NEW s \in Sessions, Codes!ClearCode(s) PROVE Codes!TypeOK'
  <2>1. enabled' = enabled /\ tooSoon' = tooSoon /\ reused' \in BOOLEAN
    BY <1>7 DEF Codes!ClearCode, Codes!History, Codes!TypeOK
  <2>2. issued' = issued /\ claimed' = claimed /\ now' = now /\ spent' \subseteq 1 .. MaxCodes /\ code' \in 0 .. MaxCodes
    <3>1. sess[s].op = "clear" /\ sess[s].code \in 1 .. MaxCodes BY <1>7, CodeHeld DEF Codes!ClearCode
    <3>2. spent' = spent \cup {sess[s].code} /\ code' = 0 /\ UNCHANGED <<issued, claimed, now>>
      BY <1>7 DEF Codes!ClearCode, Codes!Cleared
    <3>3. spent \subseteq 1 .. MaxCodes BY DEF Codes!TypeOK
    <3>4. code' \in 0 .. MaxCodes BY <3>2 DEF CodeLimits
    <3> QED BY <3>1, <3>2, <3>3, <3>4
  <2>3. wrong' \in Nat /\ {codeEnd', wrongEnd', coolEnd'} \subseteq Nat
    BY <1>7 DEF Codes!ClearCode, Codes!TypeOK, Codes!Never, CodeLimits
  <2> QED BY <1>3, <1>7, <2>1, <2>2, <2>3 DEF Codes!TypeOK, CodeSessions
<1>9. ASSUME NEW s \in Sessions, Codes!ForgiveAttempts(s) PROVE Codes!TypeOK'
  <2>1. enabled' = enabled /\ tooSoon' = tooSoon /\ reused' \in BOOLEAN
    BY <1>9 DEF Codes!ForgiveAttempts, Codes!History, Codes!TypeOK
  <2>2. issued' = issued /\ claimed' = claimed /\ now' = now /\ spent' \subseteq 1 .. MaxCodes /\ code' \in 0 .. MaxCodes
    BY <1>9, CodeHeld DEF Codes!ForgiveAttempts, Codes!History, Codes!TypeOK, Codes!Cleared, CodeLimits
  <2>3. wrong' \in Nat /\ {codeEnd', wrongEnd', coolEnd'} \subseteq Nat
    BY <1>9 DEF Codes!ForgiveAttempts, Codes!TypeOK, Codes!Never, CodeLimits
  <2> QED BY <1>3, <1>9, <2>1, <2>2, <2>3 DEF Codes!TypeOK, CodeSessions
<1>10. ASSUME NEW s \in Sessions, Codes!CountWrong(s) PROVE Codes!TypeOK'
  <2>1. enabled' = enabled /\ tooSoon' = tooSoon /\ reused' \in BOOLEAN
    BY <1>10 DEF Codes!CountWrong, Codes!History, Codes!TypeOK
  <2>2. issued' = issued /\ claimed' = claimed /\ now' = now /\ spent' \subseteq 1 .. MaxCodes /\ code' \in 0 .. MaxCodes
    BY <1>10, CodeHeld DEF Codes!CountWrong, Codes!History, Codes!TypeOK, Codes!Cleared, CodeLimits
  <2>3. wrong' \in Nat /\ {codeEnd', wrongEnd', coolEnd'} \subseteq Nat
    BY <1>10 DEF Codes!CountWrong, Codes!TypeOK, Codes!Never, CodeLimits
  <2> QED BY <1>3, <1>10, <2>1, <2>2, <2>3 DEF Codes!TypeOK, CodeSessions
<1>11. ASSUME NEW s \in Sessions, Codes!ExtendAttempts(s) PROVE Codes!TypeOK'
  <2>1. enabled' = enabled /\ tooSoon' = tooSoon /\ reused' \in BOOLEAN
    BY <1>11 DEF Codes!ExtendAttempts, Codes!History, Codes!TypeOK
  <2>2. issued' = issued /\ claimed' = claimed /\ now' = now /\ spent' \subseteq 1 .. MaxCodes /\ code' \in 0 .. MaxCodes
    BY <1>11, CodeHeld DEF Codes!ExtendAttempts, Codes!History, Codes!TypeOK, Codes!Cleared, CodeLimits
  <2>3. wrong' \in Nat /\ {codeEnd', wrongEnd', coolEnd'} \subseteq Nat
    BY <1>11 DEF Codes!ExtendAttempts, Codes!TypeOK, Codes!Never, CodeLimits
  <2> QED BY <1>3, <1>11, <2>1, <2>2, <2>3 DEF Codes!TypeOK, CodeSessions
<1>12. ASSUME NEW s \in Sessions, Codes!SignIn(s) PROVE Codes!TypeOK'
  <2>1. enabled' = enabled /\ tooSoon' = tooSoon /\ reused' \in BOOLEAN
    BY <1>12 DEF Codes!SignIn, Codes!History, Codes!TypeOK
  <2>2. issued' = issued /\ claimed' = claimed /\ now' = now /\ spent' \subseteq 1 .. MaxCodes /\ code' \in 0 .. MaxCodes
    BY <1>12, CodeHeld DEF Codes!SignIn, Codes!History, Codes!TypeOK, Codes!Cleared, CodeLimits
  <2>3. wrong' \in Nat /\ {codeEnd', wrongEnd', coolEnd'} \subseteq Nat
    BY <1>12 DEF Codes!SignIn, Codes!TypeOK, Codes!Never, CodeLimits
  <2> QED BY <1>3, <1>12, <2>1, <2>2, <2>3 DEF Codes!TypeOK, CodeSessions
<1>8. CASE UNCHANGED Codes!vars BY <1>8 DEF Codes!vars, Codes!TypeOK
<1> QED BY <1>1, <1>2, <1>4, <1>5, <1>6, <1>7, <1>8, <1>9, <1>10, <1>11, <1>12 DEF Codes!Next

\* A request that counts no answer leaves the answers it may still count.
LEMMA AnswersCounted ==
    ASSUME CodeLimits, Codes!TypeOK, Codes!TypeOK', AttemptsLeft, NEW s \in Sessions, NEW x, sess' = [sess EXCEPT ![s] = x],
           \/ wrong' \in 0 .. wrong /\ (x.op \in {"read", "wrong"} => sess[s].op \in {"read", "wrong"})
           \/ wrong' = wrong /\ wrong < MaxAttempts
           \/ wrong' = wrong + 1 /\ sess[s].op = "wrong" /\ x.op \notin {"read", "wrong"}
    PROVE  AttemptsLeft'
<1>1. IsFiniteSet(Answering) /\ IsFiniteSet(Answering') BY FS_Subset DEF Answering, CodeLimits
<1>2. /\ Cardinality(Answering) \in Nat /\ Cardinality(Answering') \in Nat /\ Cardinality(Sessions) \in Nat
      /\ Cardinality(Answering') <= Cardinality(Sessions)
  BY <1>1, FS_CardinalityType, FS_Subset DEF Answering, CodeLimits
<1>3. wrong \in Nat /\ wrong' \in Nat BY DEF Codes!TypeOK
<1>4. CASE wrong' \in 0 .. wrong /\ (x.op \in {"read", "wrong"} => sess[s].op \in {"read", "wrong"})
  <2>1. Answering' \subseteq Answering BY <1>4 DEF Answering, Codes!TypeOK
  <2>2. Cardinality(Answering') <= Cardinality(Answering) BY <1>1, <2>1, FS_Subset
  <2> QED BY <1>2, <1>3, <1>4, <2>2 DEF AttemptsLeft, CodeLimits
<1>5. CASE wrong' = wrong /\ wrong < MaxAttempts
  <2>1. wrong + Cardinality(Answering') < MaxAttempts + Cardinality(Sessions)
    BY <1>2, <1>3, <1>5 DEF CodeLimits
  <2> QED BY <1>5, <2>1 DEF AttemptsLeft
<1>6. CASE wrong' = wrong + 1 /\ sess[s].op = "wrong" /\ x.op \notin {"read", "wrong"}
  <2>1. Answering' = Answering \ {s} /\ s \in Answering BY <1>6 DEF Answering, Codes!TypeOK
  <2>2. Cardinality(Answering') = Cardinality(Answering) - 1 BY <1>1, <2>1, FS_RemoveElement
  <2> QED BY <1>2, <1>3, <1>6, <2>2 DEF AttemptsLeft, CodeLimits
<1> QED BY <1>4, <1>5, <1>6

\* Who counts a wrong answer is no longer answering.
LEMMA AttemptsStep == ASSUME CodeLimits, Codes!TypeOK, AttemptsLeft, [Codes!Next]_Codes!vars PROVE AttemptsLeft'
<1>0. Codes!TypeOK' BY TypeCode
<1>1. wrong \in Nat /\ sess \in [Sessions -> CodeSessions] BY DEF Codes!TypeOK, CodeSessions
<1>2. CASE Codes!Tick
  <2>1. Answering' = Answering /\ wrong' \in 0 .. wrong BY <1>1, <1>2 DEF Codes!Tick, Answering
  <2>2. Cardinality(Answering) \in Nat /\ Cardinality(Sessions) \in Nat
    BY FS_Subset, FS_CardinalityType DEF Answering, CodeLimits
  <2> QED BY <1>1, <2>1, <2>2 DEF AttemptsLeft, CodeLimits
<1>3. CASE UNCHANGED Codes!vars \/ \E on \in BOOLEAN : Codes!SetActive(on)
  <2>1. Answering' = Answering /\ wrong' = wrong BY <1>3 DEF Codes!vars, Codes!SetActive, Codes!Keys, Answering
  <2> QED BY <2>1 DEF AttemptsLeft
<1>4. ASSUME NEW s \in Sessions, Codes!RequestCode(s) PROVE AttemptsLeft'
  <2> DEFINE x == [op |-> "claim"]
  <2>1. sess' = [sess EXCEPT ![s] = x] /\ wrong' \in 0 .. wrong /\ x.op \notin {"read", "wrong"}
    BY <1>1, <1>4 DEF Codes!RequestCode, Codes!Go, Codes!Keys
  <2> HIDE DEF x
  <2> QED BY <1>0, <2>1, AnswersCounted
<1>5. ASSUME NEW s \in Sessions, Codes!Claim(s) PROVE AttemptsLeft'
  <2> DEFINE x == [op |-> "store", code |-> issued + 1]
  <2>1. sess' = [sess EXCEPT ![s] = x] /\ wrong' \in 0 .. wrong /\ x.op \notin {"read", "wrong"}
    BY <1>1, <1>5 DEF Codes!Claim, Codes!Go
  <2> HIDE DEF x
  <2> QED BY <1>0, <2>1, AnswersCounted
<1>6. ASSUME NEW s \in Sessions, Codes!StoreCode(s) PROVE AttemptsLeft'
  <2> DEFINE x == [op |-> "forgive"]
  <2>1. sess' = [sess EXCEPT ![s] = x] /\ wrong' \in 0 .. wrong /\ x.op \notin {"read", "wrong"}
    BY <1>1, <1>6 DEF Codes!StoreCode, Codes!Go
  <2> HIDE DEF x
  <2> QED BY <1>0, <2>1, AnswersCounted
<1>7. ASSUME NEW s \in Sessions, Codes!ForgiveAttempts(s) \/ Codes!SignIn(s) \/ Codes!ExtendAttempts(s) \/ Codes!Abort(s)
      PROVE  AttemptsLeft'
  <2> DEFINE x == Codes!Idle
  <2>1. sess' = [sess EXCEPT ![s] = x] /\ wrong' \in 0 .. wrong /\ x.op \notin {"read", "wrong"}
    BY <1>1, <1>7 DEF Codes!ForgiveAttempts, Codes!SignIn, Codes!ExtendAttempts, Codes!Abort, Codes!Go, Codes!Keys, Codes!Idle
  <2> HIDE DEF x
  <2> QED BY <1>0, <2>1, AnswersCounted
<1>8. ASSUME NEW s \in Sessions, Codes!ReadAttempts(s) PROVE AttemptsLeft'
  <2>1. sess' = [sess EXCEPT ![s] = [op |-> "read", dead |-> spent]] /\ wrong' = wrong /\ wrong < MaxAttempts
    BY <1>8 DEF Codes!ReadAttempts, Codes!MayAnswer, Codes!Go, Codes!Keys
  <2> QED BY <1>0, <2>1, AnswersCounted
<1>9. ASSUME NEW s \in Sessions, NEW right \in BOOLEAN, Codes!ReadCode(s, right) PROVE AttemptsLeft'
  <2> DEFINE x == [op |-> IF right THEN "clear" ELSE "wrong", dead |-> sess[s].dead, code |-> code]
  <2>1. sess' = [sess EXCEPT ![s] = x] /\ wrong' \in 0 .. wrong /\ sess[s].op = "read"
    BY <1>1, <1>9 DEF Codes!ReadCode, Codes!Go, Codes!Keys
  <2> HIDE DEF x
  <2> QED BY <1>0, <1>1, <2>1, AnswersCounted
<1>10. ASSUME NEW s \in Sessions, Codes!CountWrong(s) PROVE AttemptsLeft'
  <2>1. sess' = [sess EXCEPT ![s] = [op |-> "extend"]] /\ wrong' = wrong + 1 /\ sess[s].op = "wrong"
    BY <1>10 DEF Codes!CountWrong, Codes!Go
  <2> QED BY <1>0, <2>1, AnswersCounted
<1>11. ASSUME NEW s \in Sessions, Codes!ClearCode(s) PROVE AttemptsLeft'
  <2> DEFINE x == [op |-> "signin"]
  <2>1. sess' = [sess EXCEPT ![s] = x] /\ wrong' \in 0 .. wrong /\ x.op \notin {"read", "wrong"}
    BY <1>1, <1>11 DEF Codes!ClearCode, Codes!Go
  <2> HIDE DEF x
  <2> QED BY <1>0, <2>1, AnswersCounted
<1> QED BY <1>2, <1>3, <1>4, <1>5, <1>6, <1>7, <1>8, <1>9, <1>10, <1>11 DEF Codes!Next

\* The key of the cooldown is claimed only when the last one has run out.
LEMMA CooldownStep ==
    ASSUME CodeLimits, Codes!TypeOK, CooldownRuns, [Codes!Next]_Codes!vars PROVE CooldownRuns'
<1>1. ASSUME NEW s \in Sessions, Codes!Claim(s) PROVE CooldownRuns'
  <2>1. coolEnd' = now + Cooldown /\ claimed' = now /\ now >= coolEnd
    BY <1>1 DEF Codes!Claim, Codes!ClaimFree, Codes!Cooling, Codes!TypeOK
  <2>2. ~(now < claimed + Cooldown) BY <2>1 DEF CooldownRuns, Codes!TypeOK, CodeLimits
  <2>3. ~tooSoon' BY <1>1, <2>2 DEF Codes!Claim, CooldownRuns
  <2> QED BY <2>1, <2>3 DEF CooldownRuns
<1>2. CASE UNCHANGED <<coolEnd, claimed, tooSoon>> BY <1>2 DEF CooldownRuns
<1> QED BY <1>1, <1>2 DEF Codes!Next, Codes!vars, Codes!Tick, Codes!SetActive, Codes!RequestCode, Codes!StoreCode,
   Codes!ForgiveAttempts, Codes!ReadAttempts, Codes!CountWrong, Codes!ExtendAttempts, Codes!ClearCode, Codes!SignIn,
   Codes!Abort, Codes!ReadCode, Codes!Keys, Codes!History

\* A code that was cleared is never stored again.
LEMMA DeadStep == ASSUME CodeLimits, Codes!TypeOK, CodesDie, [Codes!Next]_Codes!vars PROVE CodesDie'
<1>0. sess \in [Sessions -> CodeSessions] /\ code \in Nat /\ issued \in Nat
  BY DEF Codes!TypeOK, CodeSessions, CodeLimits
<1>1. CASE Codes!Tick
  <2>1. 0 \notin spent /\ 0 <= issued BY <1>0 DEF CodesDie
  <2>2. code' \in {0, code} /\ UNCHANGED <<issued, spent, reused, sess>> BY <1>1 DEF Codes!Tick, Codes!History
  <2>3. \A s \in Sessions : sess[s].op = "store" => sess[s].code \in 1 .. issued BY DEF CodesDie
  <2> QED BY <1>0, <2>1, <2>2, <2>3 DEF CodesDie
<1>2. CASE UNCHANGED Codes!vars \/ \E on \in BOOLEAN : Codes!SetActive(on)
  <2>1. UNCHANGED <<code, issued, spent, reused, sess>>
    BY <1>2 DEF Codes!vars, Codes!SetActive, Codes!Keys, Codes!History
  <2> QED BY <2>1 DEF CodesDie
<1>3. ASSUME NEW s \in Sessions, NEW x, x.op \notin {"store", "read", "clear", "wrong"},
             UNCHANGED <<code, issued, spent, reused>>, sess' = [sess EXCEPT ![s] = x]
      PROVE  CodesDie'
  BY <1>0, <1>3 DEF CodesDie
<1>4. ASSUME NEW s \in Sessions,
             \/ Codes!RequestCode(s) \/ Codes!ForgiveAttempts(s) \/ Codes!CountWrong(s)
             \/ Codes!ExtendAttempts(s) \/ Codes!SignIn(s) \/ Codes!Abort(s)
      PROVE  CodesDie'
  <2>1. PICK x \in {Codes!Idle, [op |-> "claim"], [op |-> "extend"]} : sess' = [sess EXCEPT ![s] = x]
    BY <1>4 DEF Codes!RequestCode, Codes!ForgiveAttempts, Codes!CountWrong, Codes!ExtendAttempts, Codes!SignIn,
                Codes!Abort, Codes!Go
  <2>2. x.op \notin {"store", "read", "clear", "wrong"} BY DEF Codes!Idle
  <2>3. UNCHANGED <<code, issued, spent, reused>>
    BY <1>4 DEF Codes!RequestCode, Codes!ForgiveAttempts, Codes!CountWrong, Codes!ExtendAttempts, Codes!SignIn,
                Codes!Abort, Codes!Keys, Codes!History
  <2> QED BY <1>3, <2>1, <2>2, <2>3
<1>5. ASSUME NEW s \in Sessions, Codes!Claim(s) PROVE CodesDie'
  <2> DEFINE x == [op |-> "store", code |-> issued + 1]
  <2>1. /\ x.op = "store" /\ x.code = issued + 1 /\ sess' = [sess EXCEPT ![s] = x]
        /\ UNCHANGED <<code, spent, reused>> /\ issued' = issued + 1
    BY <1>5 DEF Codes!Claim, Codes!Go
  <2> HIDE DEF x
  <2>2. issued + 1 \notin spent \cup {code} /\ spent \subseteq 1 .. issued + 1 BY <1>0 DEF CodesDie
  <2>3. \A z \in Sessions : sess[z].op \in {"store", "clear", "wrong"} => sess[z].code # issued + 1
    BY <1>0 DEF CodesDie
  <2>4. \A z \in Sessions : sess[z].op \in {"store", "clear", "wrong"} => sess[z].code \in 1 .. issued + 1
    BY <1>0 DEF CodesDie
  <2>5. \A z \in Sessions : sess'[z] = IF z = s THEN x ELSE sess[z] BY <1>0, <2>1
  <2> QED BY <1>0, <2>1, <2>2, <2>3, <2>4, <2>5 DEF CodesDie
<1>6. ASSUME NEW s \in Sessions, Codes!StoreCode(s) PROVE CodesDie'
  <2>1. /\ sess' = [sess EXCEPT ![s] = [op |-> "forgive"]] /\ sess[s].op = "store"
        /\ UNCHANGED <<issued, spent, reused>> /\ code' = sess[s].code
    BY <1>6 DEF Codes!StoreCode, Codes!Go, Codes!History
  <2> QED BY <1>0, <2>1 DEF CodesDie
<1>7. ASSUME NEW s \in Sessions, Codes!ReadAttempts(s) PROVE CodesDie'
  <2>1. sess' = [sess EXCEPT ![s] = [op |-> "read", dead |-> spent]] /\ UNCHANGED <<code, issued, spent, reused>>
    BY <1>7 DEF Codes!ReadAttempts, Codes!Go, Codes!Keys, Codes!History
  <2> QED BY <1>0, <2>1 DEF CodesDie
<1>8. ASSUME NEW s \in Sessions, NEW right \in BOOLEAN, Codes!ReadCode(s, right) PROVE CodesDie'
  <2> DEFINE x == [op |-> IF right THEN "clear" ELSE "wrong", dead |-> sess[s].dead, code |-> code]
  <2>1. /\ sess' = [sess EXCEPT ![s] = x] /\ sess[s].op = "read" /\ code # 0 /\ UNCHANGED <<code, issued, spent, reused>>
        /\ x.op \in {"clear", "wrong"} /\ x.code = code /\ x.dead = sess[s].dead
    BY <1>8 DEF Codes!ReadCode, Codes!Go, Codes!Keys, Codes!History
  <2> HIDE DEF x
  <2>2. code \in 1 .. issued /\ code \notin x.dead BY <1>0, <2>1 DEF CodesDie
  <2> QED BY <1>0, <2>1, <2>2 DEF CodesDie
<1>9. ASSUME NEW s \in Sessions, Codes!ClearCode(s) PROVE CodesDie'
  <2>1. /\ sess' = [sess EXCEPT ![s] = [op |-> "signin"]] /\ sess[s].op = "clear" /\ issued' = issued
        /\ code' = 0 /\ spent' = spent \cup {sess[s].code} /\ (reused' = (reused \/ sess[s].code \in sess[s].dead))
    BY <1>9 DEF Codes!ClearCode, Codes!Cleared, Codes!Go
  <2>2. ~reused' BY <2>1 DEF CodesDie
  <2>3. sess[s].code \in 1 .. issued BY <2>1 DEF CodesDie
  <2>4. \A z \in Sessions : sess[z].op = "store" => sess[z].code \notin {0, sess[s].code}
    BY <1>0, <2>1 DEF CodesDie
  <2>5. spent' \subseteq 1 .. issued' /\ code' \notin spent' /\ code' <= issued'
    <3>1. spent \subseteq 1 .. issued BY DEF CodesDie
    <3>2. spent' \subseteq 1 .. issued BY <2>1, <2>3, <3>1
    <3>3. 0 \notin 1 .. issued /\ 0 <= issued BY <1>0
    <3> QED BY <2>1, <3>2, <3>3
  <2>6. \A z \in Sessions : sess'[z].op \in {"store", "read", "clear", "wrong"} => sess'[z] = sess[z]
    BY <1>0, <2>1
  <2>7. \A z \in Sessions : sess'[z].op = "store" =>
          /\ sess'[z].code \in 1 .. issued' /\ sess'[z].code \notin spent' \cup {code'}
          /\ \A y \in Sessions :
                sess'[y].op \in {"store", "clear", "wrong"} /\ sess'[y].code = sess'[z].code => y = z
    BY <2>1, <2>4, <2>6 DEF CodesDie
  <2>8. \A z \in Sessions : /\ sess'[z].op = "read" => sess'[z].dead \subseteq spent'
                            /\ sess'[z].op \in {"clear", "wrong"} =>
                                  sess'[z].code \in 1 .. issued' /\ sess'[z].code \notin sess'[z].dead
    BY <2>1, <2>6 DEF CodesDie
  <2> QED BY <2>2, <2>5, <2>7, <2>8 DEF CodesDie
<1> QED BY <1>1, <1>2, <1>4, <1>5, <1>6, <1>7, <1>8, <1>9 DEF Codes!Next

\* Every step keeps the invariant.
LEMMA CodeKept == ASSUME CodeLimits, CodeInv, [Codes!Next]_Codes!vars PROVE CodeInv'
BY TypeCode, CooldownStep, AttemptsStep, DeadStep DEF CodeInv

\* The invariant has the properties.
LEMMA CodeMeans ==
    ASSUME CodeLimits, CodeInv PROVE Codes!OneCodePerCooldown /\ Codes!AttemptsBounded /\ Codes!SpentCodeIsDead
<1> SUFFICES Codes!AttemptsBounded
  BY DEF CodeInv, CooldownRuns, CodesDie, Codes!OneCodePerCooldown, Codes!SpentCodeIsDead
<1>1. Cardinality(Answering) \in Nat /\ Cardinality(Sessions) \in Nat
  BY FS_Subset, FS_CardinalityType DEF Answering, CodeLimits
<1> QED BY <1>1, CodeCardinality DEF CodeInv, AttemptsLeft, Codes!TypeOK, Codes!AttemptsBounded, CodeLimits

\* Requests for a code that race each other are granted one code per cooldown;
\* wrong answers pass the limit by no more than the requests under way; and a
\* code that was used is dead for whoever begins later.
THEOREM CodesAreOnce ==
    CodeLimits => (Codes!Spec => [](Codes!OneCodePerCooldown /\ Codes!AttemptsBounded /\ Codes!SpentCodeIsDead))
<1> SUFFICES ASSUME CodeLimits
             PROVE  Codes!Spec => [](Codes!OneCodePerCooldown /\ Codes!AttemptsBounded /\ Codes!SpentCodeIsDead)
  OBVIOUS
<1>1. Codes!Init => CodeInv BY InitCode
<1>2. CodeInv /\ [Codes!Next]_Codes!vars => CodeInv' BY CodeKept
<1>3. CodeInv => Codes!OneCodePerCooldown /\ Codes!AttemptsBounded /\ Codes!SpentCodeIsDead BY CodeMeans
<1> QED BY <1>1, <1>2, <1>3, PTL DEF Codes!Spec

-----------------------------------------------------------------------------
(* Session tokens: SessionTokens.                                          *)

\* What is assumed of the constants.
Lifetimes == Second \in Nat \ {0} /\ AccessLife \in Nat /\ RefreshLife \in Nat /\ MaxTime \in Nat

\* Dividing cuts off less than one divisor.
LEMMA Division ==
    ASSUME NEW a \in Int, NEW d \in Nat \ {0}
    PROVE  a \div d \in Int /\ (a \div d) * d <= a /\ a < (a \div d) * d + d
OBVIOUS

\* What a request may hold.
TokenAsking == {Tokens!Idle} \cup [op : {"key", "user", "signout"}, on : Tokens!Tokens]

\* The key of a token that somebody has signed out with lasts until the last
\* second of the token's life.
KeysLast ==
    \A t \in Tokens!Tokens : gone[t] > 0 =>
        issued[t[1]] # Tokens!NotIssued /\ gone[t] > Tokens!Exp(t) - Second

\* The inductive invariant: a key lasts as long as its token.
TokenInv == Tokens!TypeOK /\ KeysLast /\ ~late

\* Rounding down keeps the order.
LEMMA DivisionGrows ==
    ASSUME NEW a \in Nat, NEW b \in Nat, NEW d \in Nat \ {0}, a <= b
    PROVE  a \div d \in Nat /\ a \div d <= b \div d
<1>1. /\ a \div d \in Int /\ (a \div d) * d <= a /\ a < (a \div d) * d + d
      /\ b \div d \in Int /\ (b \div d) * d <= b /\ b < (b \div d) * d + d
  BY Division
<1> DEFINE p == a \div d
           q == b \div d
<1>2. p \in Int /\ q \in Int /\ p * d <= a /\ a < p * d + d /\ q * d <= b /\ b < q * d + d BY <1>1
<1> HIDE DEF p, q
<1>3. p >= 0
  <2> SUFFICES ASSUME p <= -1 PROVE FALSE BY <1>2
  <2>1. p * d <= (-1) * d BY <1>2
  <2> QED BY <1>2, <2>1
<1>4. p <= q
  <2> SUFFICES ASSUME q + 1 <= p PROVE FALSE BY <1>2
  <2>1. (q + 1) * d <= p * d BY <1>2
  <2>2. (q + 1) * d = q * d + d BY <1>2
  <2> QED BY <1>2, <2>1, <2>2
<1> QED BY <1>3, <1>4, <1>2 DEF p, q

\* No token is issued at first.
LEMMA InitTokens == Lifetimes => (Tokens!Init => TokenInv)
<1> SUFFICES ASSUME Lifetimes, Tokens!Init PROVE TokenInv OBVIOUS
<1>1. sess \in [Sessions -> TokenAsking] BY DEF Tokens!Init, TokenAsking
<1>2. gone \in [Tokens!Tokens -> Nat] /\ issued \in [Pairs -> {Tokens!NotIssued}] BY DEF Tokens!Init
<1>3. enabled \in BOOLEAN /\ late \in BOOLEAN /\ ~late BY DEF Tokens!Init
<1>6. now \in 0 .. MaxTime BY DEF Tokens!Init, Lifetimes
<1>4. Tokens!TypeOK BY <1>1, <1>2, <1>3, <1>6 DEF Tokens!TypeOK, TokenAsking
<1>5. KeysLast BY <1>2 DEF Tokens!Init, KeysLast
<1> QED BY <1>3, <1>4, <1>5 DEF TokenInv

\* A pair is issued with the second of the clock.
LEMMA IssuedNow ==
    ASSUME Lifetimes, Tokens!TypeOK, NEW p \in Pairs, Tokens!IssueTokens(p)
    PROVE  /\ issued' \in [Pairs -> {Tokens!NotIssued} \cup 0 .. MaxTime \div Second]
           /\ \A q \in Pairs : issued[q] # Tokens!NotIssued => issued'[q] = issued[q]
<1>1. now \div Second \in 0 .. MaxTime \div Second
  <2>1. now \in Nat /\ MaxTime \in Nat /\ now <= MaxTime BY DEF Tokens!TypeOK, Lifetimes
  <2>2. now \div Second \in Nat /\ now \div Second <= MaxTime \div Second
    BY <2>1, DivisionGrows DEF Lifetimes
  <2>3. MaxTime \div Second \in Int BY <2>1, Division DEF Lifetimes
  <2> QED BY <2>2, <2>3
<1> QED BY <1>1 DEF Tokens!IssueTokens, Tokens!TypeOK

\* A key set now outlasts what is left of the token's life, but for a second.
LEMMA KeyCovers ==
    ASSUME Lifetimes, Tokens!TypeOK, NEW t \in Tokens!Issued, Tokens!RevokeToken(t)
    PROVE  /\ gone' \in [Tokens!Tokens -> Nat]
           /\ gone'[t] > Tokens!Exp(t) - Second
           /\ \A u \in Tokens!Tokens \ {t} : gone'[u] = gone[u]
<1>1. t \in Tokens!Tokens /\ issued[t[1]] \in 0 .. MaxTime \div Second
  BY DEF Tokens!Issued, Tokens!Tokens, Tokens!TypeOK
<1>2. MaxTime \div Second \in Int BY Division DEF Lifetimes
<1>3. Tokens!Exp(t) \in Int BY <1>1, <1>2 DEF Tokens!Exp, Lifetimes
<1> DEFINE e == Tokens!Exp(t)
           left == (e - now) \div Second
           ttl == Tokens!Ttl(t)
<1>4. now \in Nat /\ Second \in Nat \ {0} BY DEF Tokens!TypeOK, Lifetimes
<1>5. left \in Int /\ e - now < left * Second + Second
  <2>1. e - now \in Int BY <1>3, <1>4
  <2> HIDE DEF e
  <2> QED BY <1>4, <2>1, Division
<1>6. ttl = IF left < 1 THEN 1 ELSE left BY DEF Tokens!Ttl
<1>7. gone' = [gone EXCEPT ![t] = now + ttl * Second] BY DEF Tokens!RevokeToken
<1>8. e \in Int BY <1>3
<1> HIDE DEF e, left, ttl
<1>9. ttl \in Nat \ {0} /\ left <= ttl BY <1>5, <1>6
<1>10. left * Second <= ttl * Second BY <1>4, <1>5, <1>9
<1>11. ttl * Second \in Nat BY <1>4, <1>9
<1>12. left * Second \in Int BY <1>4, <1>5
<1>13. now + ttl * Second > e - Second BY <1>4, <1>5, <1>8, <1>10, <1>11, <1>12
<1> QED BY <1>1, <1>4, <1>7, <1>11, <1>13 DEF Tokens!TypeOK, e

\* Every step keeps the invariant.
LEMMA StepTokens == ASSUME Lifetimes, TokenInv, [Tokens!Next]_Tokens!vars PROVE TokenInv'
<1> USE DEF TokenInv
<1>0. sess \in [Sessions -> TokenAsking] BY DEF Tokens!TypeOK, TokenAsking
<1>1. CASE Tokens!Tick \/ \E on \in BOOLEAN : Tokens!SetActive(on)
  BY <1>1 DEF Tokens!Tick, Tokens!SetActive, Tokens!TypeOK, KeysLast, Tokens!Exp, Lifetimes
<1>2. ASSUME NEW p \in Pairs, UNCHANGED <<gone, enabled, late, now>>, Tokens!IssueTokens(p),
             sess' \in [Sessions -> TokenAsking]
      PROVE  TokenInv'
  BY <1>2, IssuedNow DEF Tokens!TypeOK, TokenAsking, KeysLast, Tokens!Exp, Tokens!Tokens
<1>3. ASSUME NEW p \in Pairs, Tokens!SignIn(p) PROVE TokenInv'
  BY <1>0, <1>2, <1>3 DEF Tokens!SignIn
<1>4. ASSUME NEW s \in Sessions, NEW p \in Pairs, Tokens!Refresh(s, p) PROVE TokenInv'
  <2>1. sess' \in [Sessions -> TokenAsking] BY <1>0, <1>4 DEF Tokens!Refresh, Tokens!Go, TokenAsking
  <2> QED BY <1>2, <1>4, <2>1 DEF Tokens!Refresh
<1>5. ASSUME NEW s \in Sessions, Tokens!Abort(s) \/ Tokens!Authenticated(s) \/ \E t \in Tokens!Tokens : Tokens!Decode(s, t)
      PROVE  TokenInv'
  <2>1. sess' \in [Sessions -> TokenAsking]
    BY <1>0, <1>5 DEF Tokens!Abort, Tokens!Authenticated, Tokens!Decode, Tokens!Go, TokenAsking
  <2>2. UNCHANGED <<issued, gone, enabled, late, now>>
    BY <1>5 DEF Tokens!Abort, Tokens!Authenticated, Tokens!Decode
  <2> QED BY <2>1, <2>2 DEF Tokens!TypeOK, TokenAsking, KeysLast, Tokens!Exp
<1>6. ASSUME NEW s \in Sessions, Tokens!AskForKey(s) PROVE TokenInv'
  <2>1. sess[s].on \in Tokens!Tokens BY <1>0, <1>6 DEF TokenAsking, Tokens!Idle, Tokens!AskForKey
  <2>2. sess' \in [Sessions -> TokenAsking] BY <1>0, <1>6, <2>1 DEF Tokens!AskForKey, Tokens!Go, TokenAsking
  <2>3. UNCHANGED <<issued, gone, enabled, now>> BY <1>6 DEF Tokens!AskForKey
  <2> DEFINE t == sess[s].on
  <2>4. ~(gone[t] > 0 /\ now <= Tokens!Exp(t) - Second)
    <3>1. MaxTime \div Second \in Int BY Division DEF Lifetimes
    <3>2. issued[t[1]] \in Int /\ gone[t] \in Nat BY <2>1, <3>1 DEF Tokens!TypeOK, Tokens!Tokens, Tokens!NotIssued
    <3>3. Tokens!Exp(t) \in Int /\ Second \in Nat /\ now \in Nat BY <3>2 DEF Tokens!Exp, Lifetimes, Tokens!TypeOK
    <3>4. now >= gone[t] BY <1>6, <3>2, <3>3 DEF Tokens!AskForKey, Tokens!Revoked
    <3> QED BY <2>1, <3>2, <3>3, <3>4 DEF KeysLast
  <2>5. ~late' BY <1>6, <2>4 DEF Tokens!AskForKey
  <2>6. late' \in BOOLEAN BY <1>6 DEF Tokens!AskForKey
  <2> QED BY <2>2, <2>3, <2>5, <2>6 DEF Tokens!TypeOK, TokenAsking, KeysLast, Tokens!Exp
<1>7. ASSUME NEW t \in Tokens!Issued, Tokens!RevokeToken(t), UNCHANGED <<issued, enabled, late, now>>,
             sess' \in [Sessions -> TokenAsking]
      PROVE  TokenInv'
  <2>1. issued[t[1]] # Tokens!NotIssued /\ t \in Tokens!Tokens BY DEF Tokens!Issued
  <2>2. \A u : Tokens!Exp(u)' = Tokens!Exp(u) BY <1>7 DEF Tokens!Exp
  <2>3. KeysLast' BY <1>7, <2>1, <2>2, KeyCovers DEF KeysLast
  <2> QED BY <1>7, <2>3, KeyCovers DEF Tokens!TypeOK, TokenAsking
<1>8. ASSUME NEW s \in Sessions, NEW r \in Tokens!Tokens, NEW then, Tokens!SignOutRefresh(s, r, then),
             then \in TokenAsking
      PROVE  TokenInv'
  <2>1. sess' \in [Sessions -> TokenAsking] BY <1>0, <1>8 DEF Tokens!SignOutRefresh, Tokens!Go
  <2> QED BY <1>7, <1>8, <2>1 DEF Tokens!SignOutRefresh
<1>9. ASSUME NEW s \in Sessions, NEW a \in Tokens!Tokens, Tokens!SignOutAccess(s, a) PROVE TokenInv'
  <2>1. sess' \in [Sessions -> TokenAsking] BY <1>0, <1>9 DEF Tokens!SignOutAccess, Tokens!Go, TokenAsking
  <2> QED BY <1>7, <1>9, <2>1 DEF Tokens!SignOutAccess, Tokens!Access
<1>10. CASE UNCHANGED Tokens!vars BY <1>10 DEF Tokens!vars, Tokens!TypeOK, KeysLast, Tokens!Exp
<1>11. /\ Tokens!Idle \in TokenAsking
       /\ \A a \in Tokens!Access : [op |-> "signout", on |-> a] \in TokenAsking
  BY DEF TokenAsking, Tokens!Access, Tokens!Issued
<1> QED BY <1>1, <1>3, <1>4, <1>5, <1>6, <1>8, <1>9, <1>10, <1>11 DEF Tokens!Next

\* After somebody has signed out with a token, whoever asks for its key is
\* refused until the last second of its life, for any lifetimes and clock.
THEOREM SignedOutAreRefused == Lifetimes => (Tokens!Spec => []Tokens!SignedOutIsRefused)
<1> SUFFICES ASSUME Lifetimes PROVE Tokens!Spec => []Tokens!SignedOutIsRefused OBVIOUS
<1>1. Tokens!Init => TokenInv BY InitTokens
<1>2. TokenInv /\ [Tokens!Next]_Tokens!vars => TokenInv' BY StepTokens
<1>3. TokenInv => Tokens!SignedOutIsRefused BY DEF TokenInv, Tokens!SignedOutIsRefused
<1> QED BY <1>1, <1>2, <1>3, PTL DEF Tokens!Spec

-----------------------------------------------------------------------------
(* Accounts with an email address: EmailAccount.                           *)

\* What a request may hold.
MailAsking == [op : {"mail"}, purpose : Accounts!Purposes, email : Emails]
MailWorking == [op : {"verify", "checked", "reset", "profile"}, user : Users, copy : Accounts!Account]

\* Whoever is verified has signed up, and stays so.
HasAddress == \A u \in Users : account[u].email \in Emails \/ account[u] = Accounts!NotSignedUp

\* A request works for somebody who has signed up, and one that has checked a
\* code has recorded who answered it, and for which address: this is what
\* VerifyEmail relies on when it writes.
MailSound ==
    \A s \in Sessions : sess[s] \in MailWorking =>
        /\ account[sess[s].user].email \in Emails
        /\ sess[s].copy.email \in Emails
        /\ sess[s].op = "checked" => <<sess[s].user, sess[s].copy.email>> \in proved

\* The inductive invariant.
AccountInv == Accounts!TypeOK /\ HasAddress /\ MailSound /\ Accounts!VerifiedWasProved

\* Nobody has signed up at first.
LEMMA InitAccount == Accounts!Init => AccountInv
BY DEF Accounts!Init, AccountInv, Accounts!TypeOK, HasAddress, Accounts!VerifiedWasProved, MailSound,
       MailWorking, Accounts!Account, Accounts!NotSignedUp, Accounts!Idle, Accounts!Purposes

\* What a step does not have to say again: it changes one request, the others
\* keep their state, their users keep an address, and what was proved stays.
LEMMA OtherRequests ==
    ASSUME AccountInv, NEW s \in Sessions, NEW next \in {Accounts!Idle} \cup MailAsking \cup MailWorking, Accounts!Go(s, next),
           account' \in [Users -> Accounts!Account],
           \A u \in Users : account[u].email \in Emails => account'[u].email \in Emails,
           proved \subseteq proved',
           next \in MailWorking => /\ account'[next.user].email \in Emails
                                   /\ next.copy.email \in Emails
                                   /\ next.op = "checked" => <<next.user, next.copy.email>> \in proved'
    PROVE  /\ sess' \in [Sessions -> {Accounts!Idle} \cup MailAsking \cup MailWorking]
           /\ MailSound'
BY DEF AccountInv, Accounts!TypeOK, MailAsking, MailWorking, Accounts!Go, MailSound

\* What a request that works has.
LEMMA MailHeld ==
    ASSUME AccountInv, NEW s \in Sessions, sess[s].op \in {"verify", "checked", "reset", "profile"}
    PROVE  /\ sess[s] \in MailWorking
           /\ sess[s].user \in Users /\ sess[s].copy \in Accounts!Account
           /\ account[sess[s].user] \in Accounts!Account
           /\ account[sess[s].user].email \in Emails
           /\ sess[s].copy.email \in Emails
           /\ sess[s].op = "checked" => <<sess[s].user, sess[s].copy.email>> \in proved
<1>1. sess[s] \in MailWorking BY DEF AccountInv, Accounts!TypeOK, Accounts!Idle, MailWorking
<1> QED BY <1>1 DEF AccountInv, Accounts!TypeOK, MailSound, MailWorking

\* Steps that leave the accounts alone.
LEMMA MailCodeStep ==
    ASSUME AccountInv, NEW s \in Sessions,
           \/ Accounts!SendCode(s) \/ Accounts!CheckCode(s) \/ Accounts!ResetPassword(s) \/ Accounts!Abort(s)
           \/ \E u \in Users : \/ \E purpose \in Accounts!Purposes : Accounts!AskForCode(s, u, purpose)
                              \/ \E op \in {"verify", "reset", "profile"} : Accounts!Load(s, u, op)
    PROVE  AccountInv'
<1> Accounts!Idle \notin MailWorking BY DEF Accounts!Idle, MailWorking
<1>1. ASSUME NEW u \in Users, NEW purpose \in Accounts!Purposes, Accounts!AskForCode(s, u, purpose) PROVE AccountInv'
  <2> DEFINE mail == [op |-> "mail", purpose |-> purpose, email |-> account[u].email]
  <2>1. account[u].email \in Emails BY <1>1 DEF Accounts!AskForCode, Accounts!MayAsk, AccountInv, HasAddress
  <2>2. mail \in MailAsking /\ mail \notin MailWorking BY <2>1 DEF MailAsking, MailWorking
  <2>3. Accounts!Go(s, mail) BY <1>1 DEF Accounts!AskForCode
  <2>4. UNCHANGED <<account, code, proved, raced>> BY <1>1 DEF Accounts!AskForCode
  <2> HIDE DEF mail
  <2>5. MailSound' /\ sess' \in [Sessions -> {Accounts!Idle} \cup MailAsking \cup MailWorking]
    BY <2>2, <2>3, <2>4, OtherRequests DEF AccountInv, Accounts!TypeOK
  <2> QED BY <2>4, <2>5 DEF AccountInv, Accounts!TypeOK, HasAddress, Accounts!VerifiedWasProved, MailAsking, MailWorking
<1>2. CASE Accounts!SendCode(s)
  <2>1. sess[s] \in {Accounts!Idle} \cup MailAsking \cup MailWorking BY DEF AccountInv, Accounts!TypeOK, MailAsking, MailWorking
  <2>2. sess[s].op = "mail" BY <1>2 DEF Accounts!SendCode
  <2>3. sess[s] \in MailAsking BY <2>1, <2>2 DEF Accounts!Idle, MailAsking, MailWorking
  <2>4. sess[s].email \in Emails BY <2>3 DEF MailAsking
  <2>5. code' \in [Accounts!Purposes -> SUBSET Emails]
    BY <1>2, <2>4 DEF Accounts!SendCode, AccountInv, Accounts!TypeOK
  <2>6. MailSound' /\ sess' \in [Sessions -> {Accounts!Idle} \cup MailAsking \cup MailWorking]
    BY <1>2, OtherRequests DEF Accounts!SendCode, AccountInv, Accounts!TypeOK
  <2> QED BY <1>2, <2>5, <2>6 DEF Accounts!SendCode, AccountInv, Accounts!TypeOK, HasAddress, Accounts!VerifiedWasProved, MailAsking, MailWorking
<1>3. CASE Accounts!CheckCode(s)
  <2> DEFINE checked == [sess[s] EXCEPT !.op = "checked"]
  <2>1. sess[s] \in MailWorking /\ sess[s].user \in Users /\ sess[s].copy.email \in Emails
        /\ account[sess[s].user].email \in Emails
    BY <1>3, MailHeld DEF Accounts!CheckCode
  <2>2. checked \in MailWorking /\ checked.user = sess[s].user /\ checked.copy = sess[s].copy
    BY <2>1 DEF MailWorking
  <2>3. Accounts!Go(s, checked) /\ UNCHANGED <<account, raced>>
        /\ proved' = proved \cup {<<sess[s].user, sess[s].copy.email>>}
    BY <1>3 DEF Accounts!CheckCode
  <2> HIDE DEF checked
  <2>4. MailSound' /\ sess' \in [Sessions -> {Accounts!Idle} \cup MailAsking \cup MailWorking]
    BY <2>1, <2>2, <2>3, OtherRequests DEF AccountInv, Accounts!TypeOK
  <2>5. code' \in [Accounts!Purposes -> SUBSET Emails]
    BY <1>3 DEF Accounts!CheckCode, Accounts!Spend, AccountInv, Accounts!TypeOK
  <2> QED BY <2>1, <2>3, <2>4, <2>5 DEF AccountInv, Accounts!TypeOK, HasAddress, Accounts!VerifiedWasProved, MailAsking, MailWorking
<1>4. CASE Accounts!ResetPassword(s)
  <2>1. code' \in [Accounts!Purposes -> SUBSET Emails]
    BY <1>4 DEF Accounts!ResetPassword, Accounts!Spend, AccountInv, Accounts!TypeOK
  <2>2. MailSound' /\ sess' \in [Sessions -> {Accounts!Idle} \cup MailAsking \cup MailWorking]
    BY <1>4, OtherRequests DEF Accounts!ResetPassword, AccountInv, Accounts!TypeOK
  <2> QED BY <1>4, <2>1, <2>2 DEF Accounts!ResetPassword, AccountInv, Accounts!TypeOK, HasAddress, Accounts!VerifiedWasProved, MailAsking, MailWorking
<1>5. CASE Accounts!Abort(s)
  <2>1. MailSound' /\ sess' \in [Sessions -> {Accounts!Idle} \cup MailAsking \cup MailWorking]
    BY <1>5, OtherRequests DEF Accounts!Abort, AccountInv, Accounts!TypeOK
  <2> QED BY <1>5, <2>1 DEF Accounts!Abort, AccountInv, Accounts!TypeOK, HasAddress, Accounts!VerifiedWasProved, MailAsking, MailWorking
<1>6. ASSUME NEW u \in Users, NEW op \in {"verify", "reset", "profile"}, Accounts!Load(s, u, op) PROVE AccountInv'
  <2> DEFINE loaded == [op |-> op, user |-> u, copy |-> account[u]]
  <2>1. loaded \in MailWorking /\ loaded.op # "checked" /\ loaded.user = u /\ loaded.copy = account[u]
    BY DEF MailWorking, AccountInv, Accounts!TypeOK
  <2>2. account[u].email \in Emails BY <1>6 DEF Accounts!Load, AccountInv, HasAddress
  <2>3. Accounts!Go(s, loaded) /\ UNCHANGED <<account, code, proved, raced>> BY <1>6 DEF Accounts!Load
  <2> HIDE DEF loaded
  <2>4. MailSound' /\ sess' \in [Sessions -> {Accounts!Idle} \cup MailAsking \cup MailWorking]
    BY <2>1, <2>2, <2>3, OtherRequests DEF AccountInv, Accounts!TypeOK
  <2> QED BY <2>3, <2>4 DEF AccountInv, Accounts!TypeOK, HasAddress, Accounts!VerifiedWasProved, MailAsking, MailWorking
<1> QED BY <1>1, <1>2, <1>3, <1>4, <1>5, <1>6

\* Somebody who signs up is not verified.
LEMMA SignUpStep ==
    ASSUME AccountInv, NEW s \in Sessions, NEW u \in Users, NEW e \in Emails, Accounts!SignUp(s, u, e)
    PROVE  AccountInv'
<1> DEFINE mail == [op |-> "mail", purpose |-> "verify", email |-> e]
<1>1. mail \in MailAsking /\ mail \notin MailWorking BY DEF MailAsking, MailWorking, Accounts!Purposes
<1>2. Accounts!Go(s, mail) /\ UNCHANGED <<code, proved, raced>> BY DEF Accounts!SignUp
<1>3. /\ account' \in [Users -> Accounts!Account]
      /\ account'[u].email = e /\ account'[u].verified = FALSE
      /\ \A w \in Users \ {u} : account'[w] = account[w]
  <2>1. account[u] = Accounts!NotSignedUp /\ account' = [account EXCEPT ![u] = [Accounts!NotSignedUp EXCEPT !.email = e]]
    BY Zenon DEF Accounts!SignUp
  <2>2. account \in [Users -> Accounts!Account] BY DEF AccountInv, Accounts!TypeOK
  <2> DEFINE row == [Accounts!NotSignedUp EXCEPT !.email = e]
  <2>3. DOMAIN row = {"email", "verified"} /\ row.email = e /\ row.verified = FALSE
    BY DEF Accounts!NotSignedUp
  <2>4. row = [f \in {"email", "verified"} |-> row[f]] BY DEF Accounts!NotSignedUp
  <2>5. row \in Accounts!Account BY <2>3, <2>4 DEF Accounts!Account
  <2> QED BY <2>1, <2>2, <2>3, <2>5
<1> HIDE DEF mail
<1>4. MailSound' /\ sess' \in [Sessions -> {Accounts!Idle} \cup MailAsking \cup MailWorking]
  BY <1>1, <1>2, <1>3, OtherRequests DEF AccountInv, Accounts!TypeOK
<1>5. HasAddress' /\ Accounts!VerifiedWasProved'
  BY <1>2, <1>3 DEF AccountInv, HasAddress, Accounts!VerifiedWasProved
<1> QED BY <1>2, <1>3, <1>4, <1>5 DEF AccountInv, Accounts!TypeOK, MailAsking, MailWorking

\* The row that is written is either the one that was read, and then its
\* address is the one whose code was answered, or it counts as raced.
LEMMA VerifyStep ==
    ASSUME AccountInv, NEW s \in Sessions, Accounts!VerifyEmail(s)
    PROVE  AccountInv'
<1> DEFINE u == sess[s].user
<1>1. /\ u \in Users /\ account[u] \in Accounts!Account /\ account[u].email \in Emails
      /\ <<u, sess[s].copy.email>> \in proved
  BY MailHeld DEF Accounts!VerifyEmail
<1>2. /\ account' \in [Users -> Accounts!Account]
      /\ account'[u].email = account[u].email
      /\ \A w \in Users \ {u} : account'[w] = account[w]
  BY <1>1 DEF Accounts!VerifyEmail, AccountInv, Accounts!TypeOK, Accounts!Account
<1>3. /\ UNCHANGED <<code, proved>> /\ Accounts!Go(s, Accounts!Idle)
      /\ raced' \subseteq Users /\ raced \subseteq raced'
      /\ u \notin raced' => account[u] = sess[s].copy
  BY <1>1 DEF Accounts!VerifyEmail, Accounts!Race, AccountInv, Accounts!TypeOK
<1>4. Accounts!Idle \notin MailWorking BY DEF Accounts!Idle, MailWorking
<1> HIDE DEF u
<1>5. MailSound' /\ sess' \in [Sessions -> {Accounts!Idle} \cup MailAsking \cup MailWorking]
  BY <1>1, <1>2, <1>3, <1>4, OtherRequests
<1>6. HasAddress' BY <1>1, <1>2 DEF AccountInv, HasAddress
<1>7. Accounts!VerifiedWasProved'
  BY <1>1, <1>2, <1>3 DEF AccountInv, Accounts!VerifiedWasProved
<1> QED BY <1>2, <1>3, <1>5, <1>6, <1>7 DEF AccountInv, Accounts!TypeOK, MailAsking, MailWorking

\* A new address is not verified, unless the row was raced.
LEMMA ProfileStep ==
    ASSUME AccountInv, NEW s \in Sessions, NEW e \in Emails, Accounts!UpdateProfile(s, e)
    PROVE  AccountInv'
<1> DEFINE u == sess[s].user  copy == sess[s].copy
<1>1. /\ u \in Users /\ account[u] \in Accounts!Account /\ account[u].email \in Emails
      /\ copy \in Accounts!Account
  BY MailHeld DEF Accounts!UpdateProfile
<1>2. account' = [account EXCEPT ![u] = Accounts!Written(account[u], copy, Accounts!Unproved(copy, e))] /\ e # copy.email
  BY Zenon DEF Accounts!UpdateProfile
<1>3. Accounts!Unproved(copy, e) \in Accounts!Account /\ Accounts!Unproved(copy, e).email = e /\ Accounts!Unproved(copy, e).verified = FALSE
  BY <1>1 DEF Accounts!Unproved, Accounts!Account
<1>4. /\ Accounts!Written(account[u], copy, Accounts!Unproved(copy, e)) \in Accounts!Account
      /\ Accounts!Written(account[u], copy, Accounts!Unproved(copy, e)).email = e
      /\ account[u] = copy => Accounts!Written(account[u], copy, Accounts!Unproved(copy, e)).verified = FALSE
  BY <1>1, <1>2, <1>3 DEF Accounts!Written, Accounts!Account
<1>5. /\ account' \in [Users -> Accounts!Account]
      /\ account'[u].email = e
      /\ account[u] = copy => account'[u].verified = FALSE
      /\ \A w \in Users \ {u} : account'[w] = account[w]
  BY <1>1, <1>2, <1>4 DEF AccountInv, Accounts!TypeOK
<1>6. /\ UNCHANGED <<code, proved>> /\ Accounts!Go(s, Accounts!Idle)
      /\ raced' \subseteq Users /\ raced \subseteq raced'
      /\ u \notin raced' => account[u] = copy
  <2>1. UNCHANGED <<code, proved>> /\ Accounts!Go(s, Accounts!Idle) /\ Accounts!Race(s) BY Zenon DEF Accounts!UpdateProfile
  <2> QED BY <1>1, <2>1 DEF Accounts!Race, AccountInv, Accounts!TypeOK
<1>7. Accounts!Idle \notin MailWorking BY DEF Accounts!Idle, MailWorking
<1> HIDE DEF u, copy
<1>8. MailSound' /\ sess' \in [Sessions -> {Accounts!Idle} \cup MailAsking \cup MailWorking]
  BY <1>1, <1>5, <1>6, <1>7, OtherRequests
<1>9. HasAddress' /\ Accounts!VerifiedWasProved'
  BY <1>1, <1>5, <1>6 DEF AccountInv, HasAddress, Accounts!VerifiedWasProved
<1> QED BY <1>5, <1>6, <1>8, <1>9 DEF AccountInv, Accounts!TypeOK, MailAsking, MailWorking

\* Every step keeps the invariant.
LEMMA AccountKept == AccountInv /\ [Accounts!Next]_Accounts!vars => AccountInv'
<1> SUFFICES ASSUME AccountInv, [Accounts!Next]_Accounts!vars PROVE AccountInv' OBVIOUS
<1>1. CASE UNCHANGED Accounts!vars
  BY <1>1 DEF Accounts!vars, AccountInv, Accounts!TypeOK, HasAddress, MailSound, Accounts!VerifiedWasProved
<1>2. ASSUME NEW purpose \in Accounts!Purposes, NEW e \in Emails, Accounts!CodeExpires(purpose, e) PROVE AccountInv'
  BY <1>2 DEF Accounts!CodeExpires, AccountInv, Accounts!TypeOK, HasAddress, MailSound, Accounts!VerifiedWasProved
<1> QED BY <1>1, <1>2, MailCodeStep, SignUpStep, VerifyStep, ProfileStep DEF Accounts!Next

\* Who counts as verified has answered a code sent to the account's address,
\* unless the address was changed while the code was being checked.
THEOREM VerifiedAreProved == Accounts!Spec => []Accounts!VerifiedWasProved
<1>1. AccountInv => Accounts!VerifiedWasProved BY DEF AccountInv
<1> QED BY <1>1, InitAccount, AccountKept, PTL DEF Accounts!Spec

-----------------------------------------------------------------------------
(* Connections of participants: Networking.                                *)

\* Rows that exist.
ConnectionRows == [status : Networks!ConnectionStatus, by : Users]

\* Who asked for a connection that is not blocked wanted it.
AskedFor(row) == row # Networks!None /\ row.status # "blocked" => row.by \in wanted

\* A request's copy is of a row that still exists, and agrees with it on who asked.
ConnectionSound(x) ==
    /\ x.op = "send" => Networks!MayAsk(x.copy)
    /\ x.op = "answer" => x.copy # Networks!None
    /\ x.copy # Networks!None => conn # Networks!None
    /\ x.copy # Networks!None /\ x.copy.status # "blocked" => x.copy.by \in wanted /\ conn.by \in wanted

\* The inductive invariant: whose request or acceptance a row records is
\* among those who wanted it, in the row and in every copy.
ConnectionInv ==
    /\ Networks!TypeOK
    /\ AskedFor(conn)
    /\ \A s \in Sessions : sess[s] # Networks!Idle => ConnectionSound(sess[s])
    /\ Networks!BothWanted

\* A connection is between two users.
TwoUsers == \E a, b : Users = {a, b}

\* At first there is no row.
LEMMA InitConnection == Networks!Init => ConnectionInv
<1> SUFFICES ASSUME Networks!Init PROVE ConnectionInv OBVIOUS
<1>1. Networks!TypeOK BY DEF Networks!Init, Networks!TypeOK, Networks!Row
<1>2. AskedFor(conn) BY DEF Networks!Init, AskedFor
<1>3. \A s \in Sessions : sess[s] = Networks!Idle BY DEF Networks!Init
<1>4. Networks!BothWanted BY DEF Networks!Init, Networks!BothWanted, Networks!None
<1> QED BY <1>1, <1>2, <1>3, <1>4 DEF ConnectionInv

\* No status and no user stands for a missing row.
LEMMA IdleIsNobody == /\ "none" \notin Networks!ConnectionStatus
                      /\ \A x \in Networks!Asking : x # Networks!Idle
                      /\ \A row \in ConnectionRows : row # Networks!None
BY DEF Networks!ConnectionStatus, Networks!Asking, Networks!Idle, Networks!None, ConnectionRows

\* What writing a copy makes of the row.
LEMMA SaveConnection ==
    ASSUME ConnectionInv, NEW s \in Sessions, sess[s] # Networks!Idle,
           NEW new \in ConnectionRows, Networks!Save(s, new)
    PROVE  /\ conn' \in ConnectionRows
           /\ conn'.status \in {new.status, conn.status}
           /\ conn'.by \in {new.by, conn.by}
           /\ conn # Networks!None /\ new.by = sess[s].copy.by => conn'.by = conn.by
           /\ conn = Networks!None => sess[s].copy = Networks!None /\ conn' = new
           /\ sess' = [sess EXCEPT ![s] = Networks!Idle]
<1>1. sess[s].copy \in Networks!Row /\ ConnectionSound(sess[s])
  BY DEF ConnectionInv, Networks!TypeOK, Networks!Asking
<1>2. conn \in Networks!Row BY DEF ConnectionInv, Networks!TypeOK
<1>3. CASE conn = Networks!None
  BY <1>1, <1>3 DEF Networks!Save, ConnectionSound
<1>4. CASE conn # Networks!None
  <2>1. conn' = Networks!Written(conn, sess[s].copy, new) BY <1>4 DEF Networks!Save
  <2>2. conn \in ConnectionRows BY <1>2, <1>4 DEF Networks!Row, ConnectionRows
  <2>3. conn' = [f \in DOMAIN conn |-> IF new[f] # sess[s].copy[f] THEN new[f] ELSE conn[f]]
    BY <2>1 DEF Networks!Written
  <2>4. DOMAIN conn = {"status", "by"} BY <2>2 DEF ConnectionRows
  <2> QED BY <1>4, <2>2, <2>3, <2>4 DEF ConnectionRows, Networks!Save
<1> QED BY <1>3, <1>4

\* A step that ends or starts a request leaves the other copies as they are.
LEMMA OthersSound ==
    ASSUME ConnectionInv, wanted \subseteq wanted', conn # Networks!None => conn' # Networks!None,
           conn.by \in wanted => conn'.by \in wanted',
           NEW s \in Sessions, sess' = [sess EXCEPT ![s] = Networks!Idle]
    PROVE  \A z \in Sessions : sess'[z] # Networks!Idle => ConnectionSound(sess[z])' /\ sess'[z] = sess[z]
BY DEF ConnectionInv, Networks!TypeOK, ConnectionSound, Networks!MayAsk, Networks!None

\* Every action keeps the types.
LEMMA TypeConnection == Networks!TypeOK /\ [Networks!Next]_Networks!vars => Networks!TypeOK'
<1> SUFFICES ASSUME Networks!TypeOK, [Networks!Next]_Networks!vars PROVE Networks!TypeOK' OBVIOUS
<1> USE DEF Networks!TypeOK
<1>1. ASSUME NEW u \in Users, Networks!ChangeEligible(u) \/ Networks!SaveProfile(u) \/ Networks!Unblock(u)
      PROVE  Networks!TypeOK'
  BY <1>1 DEF Networks!ChangeEligible, Networks!SaveProfile, Networks!Unblock, Networks!Row
<1>2. ASSUME NEW s \in Sessions, NEW u \in Users,
             Networks!SendLoad(s, u) \/ Networks!AnswerLoad(s, u) \/ Networks!BlockLoad(s, u)
      PROVE  Networks!TypeOK'
  BY <1>2 DEF Networks!SendLoad, Networks!AnswerLoad, Networks!BlockLoad, Networks!Begin, Networks!Asking
<1>3. ASSUME NEW s \in Sessions, Networks!Abort(s) PROVE Networks!TypeOK'
  BY <1>3 DEF Networks!Abort
<1>4. ASSUME NEW s \in Sessions, sess[s] # Networks!Idle, NEW new \in ConnectionRows, Networks!Save(s, new)
      PROVE  conn' \in Networks!Row /\ late' \in BOOLEAN /\ sess' \in [Sessions -> {Networks!Idle} \cup Networks!Asking]
  <2>1. conn # Networks!None => conn' = Networks!Written(conn, sess[s].copy, new)
    BY <1>4 DEF Networks!Save
  <2>2. conn # Networks!None =>
          conn' = [f \in {"status", "by"} |-> IF new[f] # sess[s].copy[f] THEN new[f] ELSE conn[f]]
    BY <2>1 DEF Networks!Written, Networks!Row
  <2>3. conn # Networks!None => conn' \in ConnectionRows BY <2>2 DEF ConnectionRows, Networks!Row
  <2>4. conn' \in Networks!Row BY <1>4, <2>3 DEF Networks!Save, Networks!Row, ConnectionRows
  <2> QED BY <1>4, <2>4 DEF Networks!Save
<1>5. ASSUME NEW s \in Sessions, Networks!SendCommit(s) PROVE Networks!TypeOK'
  <2>1. sess[s] \in Networks!Asking /\ sess[s] # Networks!Idle
    BY <1>5, IdleIsNobody DEF Networks!SendCommit, Networks!Idle
  <2>2. [status |-> "pending", by |-> sess[s].who] \in ConnectionRows
    BY <2>1 DEF Networks!Asking, ConnectionRows, Networks!ConnectionStatus
  <2> QED BY <1>4, <1>5, <2>1, <2>2 DEF Networks!SendCommit, Networks!Asking
<1>6. ASSUME NEW s \in Sessions, NEW target \in Networks!ConnectionStatus, Networks!AnswerCommit(s, target)
      PROVE  Networks!TypeOK'
  <2>1. sess[s] \in Networks!Asking /\ sess[s] # Networks!Idle
    BY <1>6, IdleIsNobody DEF Networks!AnswerCommit, Networks!Idle
  <2>2. sess[s].copy \in ConnectionRows
    BY <1>6, <2>1 DEF Networks!AnswerCommit, Networks!Targets, Networks!Asking, Networks!Row, Networks!None, ConnectionRows
  <2>3. [sess[s].copy EXCEPT !.status = target] \in ConnectionRows BY <2>2 DEF ConnectionRows
  <2> QED BY <1>4, <1>6, <2>1, <2>3 DEF Networks!AnswerCommit, Networks!Asking
<1>7. ASSUME NEW s \in Sessions, Networks!BlockCommit(s) PROVE Networks!TypeOK'
  <2>1. sess[s] \in Networks!Asking /\ sess[s] # Networks!Idle
    BY <1>7, IdleIsNobody DEF Networks!BlockCommit, Networks!Idle
  <2>2. [status |-> "blocked", by |-> sess[s].who] \in ConnectionRows
    BY <2>1 DEF Networks!Asking, ConnectionRows, Networks!ConnectionStatus
  <2>3. sess[s].copy # Networks!None => [sess[s].copy EXCEPT !.status = "blocked"] \in ConnectionRows
    BY <2>1 DEF Networks!Asking, Networks!Row, ConnectionRows, Networks!ConnectionStatus
  <2> QED BY <1>4, <1>7, <2>1, <2>2, <2>3 DEF Networks!BlockCommit
<1>8. CASE UNCHANGED Networks!vars BY <1>8 DEF Networks!vars
<1> QED BY <1>1, <1>2, <1>3, <1>5, <1>6, <1>7, <1>8 DEF Networks!Next

\* Every step keeps the invariant.
LEMMA StepConnection ==
    TwoUsers /\ ConnectionInv /\ [Networks!Next]_Networks!vars => ConnectionInv'
<1> SUFFICES ASSUME TwoUsers, ConnectionInv, [Networks!Next]_Networks!vars PROVE ConnectionInv' OBVIOUS
<1>0. Networks!TypeOK' /\ sess \in [Sessions -> {Networks!Idle} \cup Networks!Asking]
  BY TypeConnection DEF ConnectionInv, Networks!TypeOK
<1>1. ASSUME NEW u \in Users, Networks!ChangeEligible(u) \/ Networks!SaveProfile(u) PROVE ConnectionInv'
  BY <1>0, <1>1 DEF ConnectionInv, AskedFor, ConnectionSound, Networks!BothWanted, Networks!ChangeEligible, Networks!SaveProfile
<1>2. ASSUME NEW u \in Users, Networks!Unblock(u) PROVE ConnectionInv'
  BY <1>0, <1>2 DEF ConnectionInv, AskedFor, ConnectionSound, Networks!BothWanted, Networks!Unblock, Networks!None
<1>3. ASSUME NEW s \in Sessions, NEW u \in Users,
             Networks!SendLoad(s, u) \/ Networks!AnswerLoad(s, u) \/ Networks!BlockLoad(s, u)
      PROVE  ConnectionInv'
  <2>1. ConnectionSound(sess'[s])
    BY <1>0, <1>3 DEF ConnectionInv, AskedFor, ConnectionSound, Networks!SendLoad, Networks!AnswerLoad,
                      Networks!BlockLoad, Networks!Begin
  <2>2. UNCHANGED <<conn, wanted>> /\ \A z \in Sessions \ {s} : sess'[z] = sess[z]
    BY <1>0, <1>3 DEF Networks!SendLoad, Networks!AnswerLoad, Networks!BlockLoad, Networks!Begin
  <2>3. \A z \in Sessions : sess'[z] # Networks!Idle => ConnectionSound(sess[z])' \/ z = s
    BY <2>2 DEF ConnectionInv, ConnectionSound
  <2>4. ConnectionSound(sess[s])' BY <2>1, <2>2 DEF ConnectionSound
  <2> QED BY <1>0, <2>2, <2>3, <2>4 DEF ConnectionInv, AskedFor, Networks!BothWanted
<1>4. ASSUME NEW s \in Sessions, Networks!Abort(s) PROVE ConnectionInv'
  BY <1>0, <1>4 DEF Networks!Abort, ConnectionInv, AskedFor, ConnectionSound, Networks!BothWanted
<1>5. ASSUME NEW s \in Sessions, Networks!SendCommit(s) PROVE ConnectionInv'
  <2>1. sess[s] \in Networks!Asking /\ sess[s] # Networks!Idle
    BY <1>0, <1>5, IdleIsNobody DEF Networks!SendCommit, Networks!Idle
  <2> DEFINE new == [status |-> "pending", by |-> sess[s].who]
  <2>2. new \in ConnectionRows BY <2>1 DEF Networks!Asking, ConnectionRows, Networks!ConnectionStatus
  <2>3. /\ conn' \in ConnectionRows /\ conn'.by \in {new.by, conn.by}
        /\ conn = Networks!None => sess[s].copy = Networks!None /\ conn' = new
        /\ sess' = [sess EXCEPT ![s] = Networks!Idle]
    BY <1>5, <2>1, <2>2, SaveConnection DEF Networks!SendCommit
  <2>4. ConnectionSound(sess[s]) BY <2>1 DEF ConnectionInv
  <2>5. conn # Networks!None => sess[s].copy # Networks!None /\ sess[s].copy.status # "blocked"
    BY <1>5, <2>4 DEF Networks!SendCommit, Networks!Save, ConnectionSound, Networks!MayAsk
  <2>6. conn.by \in wanted \/ conn = Networks!None BY <2>4, <2>5 DEF ConnectionSound
  <2>7. wanted' = wanted \cup {sess[s].who} BY <1>5 DEF Networks!SendCommit
  <2>8. conn'.by \in wanted' BY <2>3, <2>6, <2>7
  <2>9. conn'.status = "pending" \/ conn'.status = conn.status
    BY <2>1, <2>2, <2>3, <1>5, SaveConnection DEF Networks!SendCommit
  <2>10. Networks!BothWanted'
    BY <2>3, <2>7, <2>9, <1>0, <2>1 DEF Networks!BothWanted, ConnectionInv, Networks!Asking, Networks!TypeOK
  <2>11. conn' # Networks!None BY <2>3, IdleIsNobody
  <2>12. \A z \in Sessions : sess'[z] # Networks!Idle => ConnectionSound(sess[z])' /\ sess'[z] = sess[z]
    BY <2>3, <2>7, <2>8, <2>11, OthersSound
  <2> QED BY <1>0, <2>8, <2>10, <2>12 DEF ConnectionInv, AskedFor
<1>6. ASSUME NEW s \in Sessions, NEW target \in Networks!ConnectionStatus, Networks!AnswerCommit(s, target)
      PROVE  ConnectionInv'
  <2>1. sess[s] \in Networks!Asking /\ sess[s] # Networks!Idle
    BY <1>0, <1>6, IdleIsNobody DEF Networks!AnswerCommit, Networks!Idle
  <2> DEFINE new == [sess[s].copy EXCEPT !.status = target]
  <2>2. /\ sess[s].copy \in ConnectionRows /\ sess[s].copy.status # "blocked"
        /\ target = "accepted" => sess[s].copy.by # sess[s].who
    BY <1>6, <2>1 DEF Networks!AnswerCommit, Networks!Targets, Networks!Asking, Networks!Row, Networks!None, ConnectionRows
  <2>3. new \in ConnectionRows /\ new.by = sess[s].copy.by /\ new.status = target BY <2>2 DEF ConnectionRows
  <2>4. /\ sess[s].copy # Networks!None /\ conn # Networks!None
        /\ sess[s].copy.by \in wanted /\ conn.by \in wanted
    BY <2>1, <2>2, IdleIsNobody DEF ConnectionInv, ConnectionSound
  <2>5. /\ conn' \in ConnectionRows /\ conn'.by = conn.by /\ conn'.status \in {target, conn.status}
        /\ sess' = [sess EXCEPT ![s] = Networks!Idle]
    BY <1>6, <2>1, <2>3, <2>4, SaveConnection DEF Networks!AnswerCommit
  <2>6. wanted' = IF target = "accepted" THEN wanted \cup {sess[s].who} ELSE wanted
    BY <1>6 DEF Networks!AnswerCommit
  <2>7. sess[s].who \in Users /\ sess[s].copy.by \in Users /\ wanted \subseteq Users
    BY <2>1, <2>2 DEF Networks!Asking, ConnectionRows, ConnectionInv, Networks!TypeOK
  <2>8. target = "accepted" => wanted' = Users BY <2>2, <2>4, <2>6, <2>7 DEF TwoUsers
  <2>9. Networks!BothWanted' BY <2>5, <2>6, <2>7, <2>8 DEF Networks!BothWanted, ConnectionInv
  <2>10. conn' # Networks!None BY <2>5, IdleIsNobody
  <2>11. \A z \in Sessions : sess'[z] # Networks!Idle => ConnectionSound(sess[z])' /\ sess'[z] = sess[z]
    BY <2>4, <2>5, <2>6, <2>10, OthersSound
  <2> QED BY <1>0, <2>4, <2>5, <2>6, <2>9, <2>11 DEF ConnectionInv, AskedFor
<1>7. ASSUME NEW s \in Sessions, Networks!BlockCommit(s) PROVE ConnectionInv'
  <2>1. sess[s] \in Networks!Asking /\ sess[s] # Networks!Idle
    BY <1>0, <1>7, IdleIsNobody DEF Networks!BlockCommit, Networks!Idle
  <2> DEFINE new == IF sess[s].copy = Networks!None THEN [status |-> "blocked", by |-> sess[s].who]
                    ELSE [sess[s].copy EXCEPT !.status = "blocked"]
  <2>2. new \in ConnectionRows /\ new.status = "blocked" /\ (sess[s].copy # Networks!None => new.by = sess[s].copy.by)
    BY <2>1 DEF Networks!Asking, Networks!Row, ConnectionRows, Networks!ConnectionStatus
  <2>3. Networks!Save(s, new) /\ UNCHANGED wanted BY <1>7 DEF Networks!BlockCommit
  <2>4. ConnectionSound(sess[s]) BY <2>1 DEF ConnectionInv
  <2>5. /\ conn' \in ConnectionRows /\ conn'.status \in {"blocked", conn.status}
        /\ conn # Networks!None /\ sess[s].copy # Networks!None => conn'.by = conn.by
        /\ conn = Networks!None => conn' = new
        /\ sess' = [sess EXCEPT ![s] = Networks!Idle]
    BY <2>1, <2>2, <2>3, SaveConnection
  <2>6. conn # Networks!None => sess[s].copy # Networks!None BY <2>3 DEF Networks!Save
  <2>7. conn' # Networks!None BY <2>5, IdleIsNobody
  <2>8. Networks!BothWanted' /\ AskedFor(conn')
    BY <2>2, <2>3, <2>5, <2>6 DEF Networks!BothWanted, AskedFor, ConnectionInv
  <2>9. \A z \in Sessions : sess'[z] # Networks!Idle => ConnectionSound(sess[z])' /\ sess'[z] = sess[z]
    <3>1. CASE conn # Networks!None BY <2>3, <2>5, <2>6, <2>7, <3>1, OthersSound
    <3>2. CASE conn = Networks!None
      BY <1>0, <2>3, <2>5, <2>7, <3>2 DEF ConnectionInv, ConnectionSound, Networks!MayAsk, Networks!None
    <3> QED BY <3>1, <3>2
  <2> QED BY <1>0, <2>3, <2>8, <2>9 DEF ConnectionInv, AskedFor
<1>8. CASE UNCHANGED Networks!vars
  BY <1>0, <1>8 DEF Networks!vars, ConnectionInv, AskedFor, ConnectionSound, Networks!BothWanted
<1> QED BY <1>1, <1>2, <1>3, <1>4, <1>5, <1>6, <1>7, <1>8 DEF Networks!Next

\* TwoUsers participants are connected only after each of them asked for the
\* connection or accepted it, on whatever copies of the row their requests,
\* the manager's blocks and the unblocking work.
THEOREM BothHaveWanted == TwoUsers => (Networks!Spec => []Networks!BothWanted)
<1> SUFFICES ASSUME TwoUsers PROVE Networks!Spec => []Networks!BothWanted OBVIOUS
<1>1. Networks!Init => ConnectionInv BY InitConnection
<1>2. ConnectionInv /\ [Networks!Next]_Networks!vars => ConnectionInv' BY StepConnection
<1>3. ConnectionInv => Networks!BothWanted BY DEF ConnectionInv
<1> QED BY <1>1, <1>2, <1>3, PTL DEF Networks!Spec

\* What is written over a blocked connection was decided on an older copy of it.
LEMMA BlockKept == ASSUME ConnectionInv, [Networks!Next]_Networks!vars PROVE Networks!BlockHolds
<1> SUFFICES ASSUME conn.status = "blocked",
                    conn'.status \notin {"blocked", "none"}, ~late'
             PROVE  FALSE
  BY DEF Networks!BlockHolds
<1>1. conn # Networks!None /\ sess \in [Sessions -> {Networks!Idle} \cup Networks!Asking]
  BY DEF ConnectionInv, Networks!TypeOK, Networks!None
<1>2. PICK s \in Sessions : \/ Networks!SendCommit(s) \/ Networks!BlockCommit(s)
                            \/ \E target \in Networks!ConnectionStatus : Networks!AnswerCommit(s, target)
  BY DEF Networks!Next, Networks!vars, Networks!ChangeEligible, Networks!SaveProfile, Networks!Unblock,
         Networks!SendLoad, Networks!AnswerLoad, Networks!BlockLoad, Networks!Begin, Networks!Abort, Networks!None
<1>3. \A new : Networks!Save(s, new) => sess[s].copy = conn BY DEF Networks!Save
<1>4. Networks!SendCommit(s) => sess[s].copy = conn /\ sess[s] # Networks!Idle
  BY <1>3 DEF Networks!SendCommit, Networks!Idle
<1>5. Networks!BlockCommit(s) => sess[s].copy = conn /\ sess[s] # Networks!Idle
  BY <1>3 DEF Networks!BlockCommit, Networks!Idle
<1>6. \A target : Networks!AnswerCommit(s, target) => sess[s].copy = conn /\ sess[s] # Networks!Idle
  BY <1>3 DEF Networks!AnswerCommit, Networks!Idle
<1>7. sess[s].copy = conn /\ sess[s] # Networks!Idle BY <1>2, <1>4, <1>5, <1>6
<1>8. ~Networks!SendCommit(s)
  BY <1>7 DEF ConnectionInv, ConnectionSound, Networks!MayAsk, Networks!SendCommit
<1>9. \A target : ~Networks!AnswerCommit(s, target) BY <1>7 DEF Networks!AnswerCommit, Networks!Targets
<1>10. Networks!BlockCommit(s) BY <1>2, <1>8, <1>9
<1>11. conn' = Networks!Written(conn, conn, [conn EXCEPT !.status = "blocked"])
  BY <1>1, <1>7, <1>10 DEF Networks!BlockCommit, Networks!Save
<1>12. conn \in ConnectionRows BY <1>1 DEF ConnectionInv, Networks!TypeOK, Networks!Row, ConnectionRows
<1>13. conn'.status = "blocked" BY <1>11, <1>12 DEF Networks!Written, ConnectionRows
<1> QED BY <1>13

\* A blocked pair stays blocked until the block is lifted, unless a request
\* commits a copy that it read before the block.
THEOREM BlocksHold == TwoUsers => (Networks!Spec => [][Networks!BlockHolds]_Networks!vars)
<1> SUFFICES ASSUME TwoUsers PROVE Networks!Spec => [][Networks!BlockHolds]_Networks!vars OBVIOUS
<1>1. Networks!Init => ConnectionInv BY InitConnection
<1>2. ConnectionInv /\ [Networks!Next]_Networks!vars => ConnectionInv' BY StepConnection
<1>3. ConnectionInv /\ [Networks!Next]_Networks!vars => Networks!BlockHolds BY BlockKept
<1> QED BY <1>1, <1>2, <1>3, PTL DEF Networks!Spec

-----------------------------------------------------------------------------
(* Polls and questions: EventPolls.                                        *)

\* What is assumed of the constants.
PollTimes == MaxSelections \in Nat /\ MaxTime \in Nat /\ StartsAt \in Nat /\ EndsAt \in Nat

\* The statuses of a poll, written out.
LEMMA PollStatuses == Polls!PollStatus = {"draft", "scheduled", "live", "closed", "archived"}
<1>1. \A m : m \in Polls!PollMoves <=>
        m \in {<<"draft", "scheduled">>, <<"draft", "closed">>, <<"scheduled", "live">>,
               <<"scheduled", "closed">>, <<"live", "closed">>, <<"closed", "archived">>}
  BY DEF Polls!PollMoves
<1>2. \A a : a \in Polls!PollStatus <=> \E m \in Polls!PollMoves : a = m[1] \/ a = m[2]
  BY DEF Polls!PollStatus
<1>3. \A a \in Polls!PollStatus : a \in {"draft", "scheduled", "live", "closed", "archived"}
  BY <1>1, <1>2
<1>4. "draft" \in Polls!PollStatus
  <2>1. <<"draft", "closed">> \in Polls!PollMoves /\ <<"draft", "closed">>[1] = "draft" BY <1>1
  <2> QED BY <1>2, <2>1
<1>5. "scheduled" \in Polls!PollStatus
  <2>1. <<"scheduled", "closed">> \in Polls!PollMoves /\ <<"scheduled", "closed">>[1] = "scheduled" BY <1>1
  <2> QED BY <1>2, <2>1
<1>6. "live" \in Polls!PollStatus
  <2>1. <<"live", "closed">> \in Polls!PollMoves /\ <<"live", "closed">>[1] = "live" BY <1>1
  <2> QED BY <1>2, <2>1
<1>7. "closed" \in Polls!PollStatus /\ "archived" \in Polls!PollStatus
  <2>1. /\ <<"closed", "archived">> \in Polls!PollMoves /\ <<"closed", "archived">>[1] = "closed"
        /\ <<"closed", "archived">>[2] = "archived" BY <1>1
  <2> QED BY <1>2, <2>1
<1> QED BY <1>3, <1>4, <1>5, <1>6, <1>7

\* A vote under way has locked the poll: it is alone, the poll is live, and the
\* ballot is the one that the vote has read.
VoteAlone ==
    \A s \in Sessions : sess[s].op = "vote" =>
        /\ Polls!Refreshed = "live"
        /\ sess[s].old = ballot[sess[s].who]
        /\ Cardinality(sess[s].new) \in 1 .. MaxSelections
        /\ \A z \in Sessions : sess[z].op = "vote" => z = s

\* Once results have been shown the poll stays closed.
ShownIsClosed == ~late /\ shown # Polls!NotShown => Polls!Refreshed \in {"closed", "archived"}

\* The inductive invariant: final results belong to a poll that stays closed.
PollInv == Polls!TypeOK /\ VoteAlone /\ ShownIsClosed /\ Polls!BallotFits /\ Polls!ResultsAreFinal

\* What a request may have read.
PollAsking == {Polls!Idle} \cup [op : {"status"}, copy : Polls!PollStatus]
              \cup [op : {"question"}, copy : Polls!Question]
              \cup [op : {"vote"}, who : Voters, old : SUBSET Options, new : SUBSET Options]

\* The module counts with the cardinality of the library.
LEMMA PollCardinality == \A S : Polls!Cardinality(S) = Cardinality(S)
BY DEF Polls!Cardinality, Cardinality

\* A draft has no votes.
LEMMA InitPoll == PollTimes => (Polls!Init => PollInv)
<1> SUFFICES ASSUME PollTimes, Polls!Init PROVE PollInv OBVIOUS
<1>1. Polls!TypeOK
  <2>1. poll \in Polls!PollStatus BY PollStatuses DEF Polls!Init
  <2>2. ballot \in Polls!Ballots /\ question \in Polls!Question
    BY DEF Polls!Init, Polls!Ballots, Polls!Question, Polls!QuestionStatus
  <2>3. sess \in [Sessions -> PollAsking] BY DEF Polls!Init, PollAsking
  <2>4. shown \in {Polls!NotShown} /\ upvotes \subseteq Voters /\ late \in BOOLEAN BY DEF Polls!Init
  <2>5. now \in 0 .. MaxTime BY DEF Polls!Init, PollTimes
  <2> QED BY <2>1, <2>2, <2>3, <2>4, <2>5 DEF Polls!TypeOK, PollAsking
<1>2. VoteAlone BY DEF Polls!Init, VoteAlone, Polls!Idle
<1>3. Polls!Cardinality({}) = 0 BY PollCardinality, FS_EmptySet
<1>4. Polls!BallotFits BY <1>3 DEF Polls!Init, Polls!BallotFits, PollTimes
<1> QED BY <1>1, <1>2, <1>4 DEF PollInv, ShownIsClosed, Polls!Init, Polls!ResultsAreFinal

\* What a request holds, by what it does.
LEMMA SessionOps ==
  ASSUME Polls!TypeOK, NEW s \in Sessions
  PROVE /\ sess \in [Sessions -> PollAsking]
        /\ sess[s].op = "status" => sess[s].copy \in Polls!PollStatus
        /\ sess[s].op = "question" => sess[s].copy \in Polls!Question
        /\ sess[s].op = "vote" => sess[s].who \in Voters /\ sess[s].old \in SUBSET Options /\ sess[s].new \in SUBSET Options
BY DEF Polls!TypeOK, Polls!Idle, PollAsking

\* The clock makes a poll live or closed.
LEMMA RefreshedType == Polls!TypeOK => Polls!Refreshed \in Polls!PollStatus
BY PollStatuses DEF Polls!TypeOK, Polls!Refreshed

\* Every action keeps the types.
LEMMA TypePoll == ASSUME PollTimes, Polls!TypeOK, [Polls!Next]_Polls!vars PROVE Polls!TypeOK'
<1>0. sess \in [Sessions -> PollAsking] BY DEF Polls!TypeOK, PollAsking
<1>1. CASE Polls!Tick \/ Polls!ShowResults \/ \E v \in Voters : Polls!Upvote(v)
  BY <1>1 DEF Polls!TypeOK, Polls!Tick, Polls!ShowResults, Polls!Upvote, PollTimes
<1>2. ASSUME NEW s \in Sessions, Polls!LoadStatus(s) \/ Polls!LoadQuestion(s) \/ Polls!Abort(s)
      PROVE  Polls!TypeOK'
  <2>1. sess' \in [Sessions -> PollAsking]
    BY <1>0, <1>2 DEF Polls!TypeOK, Polls!LoadStatus, Polls!LoadQuestion, Polls!Abort, Polls!Finish, PollAsking
  <2> QED BY <1>2, <2>1 DEF Polls!TypeOK, Polls!LoadStatus, Polls!LoadQuestion, Polls!Abort, PollAsking
<1>3. ASSUME NEW s \in Sessions, NEW v \in Voters, NEW choice \in SUBSET Options, Polls!VoteCheck(s, v, choice)
      PROVE  Polls!TypeOK'
  <2>1. [op |-> "vote", who |-> v, old |-> ballot[v], new |-> choice] \in PollAsking
    BY DEF PollAsking, Polls!TypeOK, Polls!Ballots
  <2>2. sess' \in [Sessions -> PollAsking] BY <1>0, <1>3, <2>1 DEF Polls!VoteCheck
  <2> QED BY <1>3, <2>2 DEF Polls!TypeOK, Polls!VoteCheck, PollAsking
<1>4. ASSUME NEW s \in Sessions, NEW t \in Polls!PollStatus, Polls!ChangeStatus(s, t) PROVE Polls!TypeOK'
  <2>1. sess' \in [Sessions -> PollAsking] BY <1>0, <1>4 DEF Polls!ChangeStatus, Polls!Finish, PollAsking
  <2> QED BY <1>4, <2>1 DEF Polls!TypeOK, Polls!ChangeStatus, PollAsking
<1>5. ASSUME NEW s \in Sessions, Polls!VoteCommit(s) PROVE Polls!TypeOK'
  <2>1. sess' \in [Sessions -> PollAsking] BY <1>0, <1>5 DEF Polls!VoteCommit, Polls!Finish, PollAsking
  <2>2. ballot' \in Polls!Ballots BY <1>5, SessionOps DEF Polls!VoteCommit, Polls!TypeOK, Polls!Ballots
  <2> QED BY <1>5, <2>1, <2>2, RefreshedType DEF Polls!TypeOK, Polls!VoteCommit, PollAsking
<1>6. ASSUME NEW s \in Sessions, NEW new \in Polls!Question, sess[s].op = "question", Polls!WriteQuestion(s, new)
      PROVE  Polls!TypeOK'
  <2>1. sess' \in [Sessions -> PollAsking] BY <1>0, <1>6 DEF Polls!WriteQuestion, Polls!Finish, PollAsking
  <2>2. question' \in Polls!Question BY <1>6 DEF Polls!WriteQuestion, Polls!Written, Polls!TypeOK, Polls!Question
  <2> QED BY <1>6, <2>1, <2>2 DEF Polls!TypeOK, Polls!WriteQuestion, PollAsking
<1>7. ASSUME NEW s \in Sessions, Polls!Answer(s) PROVE Polls!TypeOK'
  <2>1. [status |-> "answered", answer |-> TRUE] \in Polls!Question
    BY DEF Polls!Question, Polls!QuestionStatus
  <2> QED BY <1>6, <1>7, <2>1 DEF Polls!Answer
<1>8. ASSUME NEW s \in Sessions, NEW st \in Polls!QuestionStatus, Polls!Moderate(s, st) PROVE Polls!TypeOK'
  <2>1. sess[s].op = "question" BY <1>8 DEF Polls!Moderate
  <2>2. [sess[s].copy EXCEPT !.status = st] \in Polls!Question BY <2>1, SessionOps DEF Polls!Question
  <2> QED BY <1>6, <1>8, <2>1, <2>2 DEF Polls!Moderate
<1>9. CASE UNCHANGED Polls!vars BY <1>9 DEF Polls!vars, Polls!TypeOK
<1> QED BY <1>1, <1>2, <1>3, <1>4, <1>5, <1>7, <1>8, <1>9 DEF Polls!Next

\* What a vote keeps when nothing it depends on has changed.
LEMMA VoteKept ==
    ASSUME VoteAlone, UNCHANGED <<poll, ballot, now>>,
           \A s \in Sessions : sess'[s] = sess[s] \/ sess'[s].op # "vote"
    PROVE  VoteAlone'
BY DEF VoteAlone, Polls!Refreshed

\* Every step keeps the invariant.
LEMMA StepPoll == ASSUME PollTimes, PollInv, [Polls!Next]_Polls!vars PROVE PollInv'
<1> USE DEF PollInv
<1>0. Polls!TypeOK' /\ sess \in [Sessions -> PollAsking]
  BY TypePoll DEF Polls!TypeOK, PollAsking
<1>1. CASE Polls!Tick
  <2>1. Polls!Refreshed \in {"closed", "archived"} => Polls!Refreshed' \in {"closed", "archived"}
    BY <1>1 DEF Polls!Tick, Polls!Refreshed, Polls!TypeOK, PollTimes
  <2> QED BY <1>0, <1>1, <2>1 DEF Polls!Tick, VoteAlone, ShownIsClosed, Polls!BallotFits, Polls!ResultsAreFinal
<1>2. CASE Polls!ShowResults
  BY <1>0, <1>2 DEF Polls!ShowResults, VoteAlone, ShownIsClosed, Polls!BallotFits, Polls!ResultsAreFinal, Polls!Refreshed
<1>3. CASE \E v \in Voters : Polls!Upvote(v)
  BY <1>0, <1>3 DEF Polls!Upvote, VoteAlone, ShownIsClosed, Polls!BallotFits, Polls!ResultsAreFinal, Polls!Refreshed
<1>4. ASSUME NEW s \in Sessions, Polls!LoadStatus(s) \/ Polls!LoadQuestion(s) \/ Polls!Abort(s)
      PROVE  PollInv'
  <2>1. UNCHANGED <<poll, ballot, shown, late, now>>
    BY <1>4 DEF Polls!LoadStatus, Polls!LoadQuestion, Polls!Abort
  <2>2. \A z \in Sessions : sess'[z] = sess[z] \/ sess'[z].op # "vote"
    BY <1>0, <1>4 DEF Polls!LoadStatus, Polls!LoadQuestion, Polls!Abort, Polls!Finish, Polls!Idle
  <2> QED BY <1>0, <2>1, <2>2, VoteKept DEF ShownIsClosed, Polls!BallotFits, Polls!ResultsAreFinal, Polls!Refreshed
<1>5. ASSUME NEW s \in Sessions, NEW v \in Voters, NEW choice \in SUBSET Options, Polls!VoteCheck(s, v, choice)
      PROVE  PollInv'
  <2>1. UNCHANGED <<poll, ballot, shown, late, now>> BY <1>5 DEF Polls!VoteCheck
  <2>2. VoteAlone'
    BY <1>0, <1>5, PollCardinality DEF Polls!VoteCheck, Polls!PollFree, VoteAlone, Polls!Refreshed
  <2> QED BY <1>0, <2>1, <2>2 DEF ShownIsClosed, Polls!BallotFits, Polls!ResultsAreFinal, Polls!Refreshed
<1>6. ASSUME NEW s \in Sessions, NEW t \in Polls!PollStatus, Polls!ChangeStatus(s, t) PROVE PollInv'
  <2>1. UNCHANGED <<ballot, shown, now>> BY <1>6 DEF Polls!ChangeStatus
  <2>2. VoteAlone' BY <1>0, <1>6 DEF Polls!ChangeStatus, Polls!PollFree, Polls!Finish, Polls!Idle, VoteAlone
  <2>3. ~late' => sess[s].copy = poll /\ ~late BY <1>6 DEF Polls!ChangeStatus, Polls!TypeOK
  <2>4. ~late' => <<poll, t>> \in Polls!PollMoves /\ poll' = t BY <1>6, <2>3 DEF Polls!ChangeStatus
  <2>5. ShownIsClosed'
    BY <2>1, <2>3, <2>4 DEF ShownIsClosed, Polls!PollMoves, Polls!Refreshed
  <2> QED BY <1>0, <2>1, <2>2, <2>3, <2>5 DEF Polls!BallotFits, Polls!ResultsAreFinal
<1>7. ASSUME NEW s \in Sessions, Polls!VoteCommit(s) PROVE PollInv'
  <2>1. UNCHANGED <<shown, late, now>> /\ Polls!Refreshed = "live"
    BY <1>7 DEF Polls!VoteCommit, VoteAlone
  <2>2. VoteAlone' BY <1>0, <1>7 DEF Polls!VoteCommit, Polls!Finish, Polls!Idle, VoteAlone
  <2>3. late \/ shown = Polls!NotShown BY <2>1 DEF ShownIsClosed
  <2>4. ballot' = [ballot EXCEPT ![sess[s].who] = sess[s].new]
    <3>1. sess[s].old = ballot[sess[s].who] BY <1>7 DEF VoteAlone, Polls!VoteCommit
    <3>2. (ballot[sess[s].who] \ sess[s].old) \cup sess[s].new = sess[s].new BY <3>1
    <3> QED BY <1>7, <3>2 DEF Polls!VoteCommit
  <2>5. Cardinality(sess[s].new) <= MaxSelections BY <1>7 DEF VoteAlone, Polls!VoteCommit, PollTimes
  <2>6. Polls!BallotFits'
    BY <2>4, <2>5, PollCardinality DEF Polls!BallotFits, Polls!TypeOK, Polls!Ballots
  <2> QED BY <1>0, <2>1, <2>2, <2>3, <2>6 DEF ShownIsClosed, Polls!ResultsAreFinal
<1>8. ASSUME NEW s \in Sessions, Polls!Answer(s) \/ \E st \in Polls!QuestionStatus : Polls!Moderate(s, st)
      PROVE  PollInv'
  <2>1. UNCHANGED <<poll, ballot, shown, now>> /\ (~late' => ~late) /\ sess' = [sess EXCEPT ![s] = Polls!Idle]
    BY <1>8 DEF Polls!Answer, Polls!Moderate, Polls!WriteQuestion, Polls!Finish
  <2>2. \A z \in Sessions : sess'[z] = sess[z] \/ sess'[z].op # "vote"
    BY <1>0, <2>1 DEF Polls!Idle
  <2> QED BY <1>0, <2>1, <2>2, VoteKept DEF ShownIsClosed, Polls!BallotFits, Polls!ResultsAreFinal, Polls!Refreshed
<1>9. CASE UNCHANGED Polls!vars
  BY <1>0, <1>9 DEF Polls!vars, VoteAlone, ShownIsClosed, Polls!BallotFits, Polls!ResultsAreFinal, Polls!Refreshed
<1> QED BY <1>1, <1>2, <1>3, <1>4, <1>5, <1>6, <1>7, <1>8, <1>9 DEF Polls!Next

\* However a voter's requests overlap, no ballot holds more than its options,
\* and results that were shown are final unless two managers changed the
\* status of the poll over each other.
THEOREM BallotsAreFinal == PollTimes => (Polls!Spec => [](Polls!BallotFits /\ Polls!ResultsAreFinal))
<1> SUFFICES ASSUME PollTimes PROVE Polls!Spec => [](Polls!BallotFits /\ Polls!ResultsAreFinal) OBVIOUS
<1>1. Polls!Init => PollInv BY InitPoll
<1>2. PollInv /\ [Polls!Next]_Polls!vars => PollInv' BY StepPoll
<1>3. PollInv => Polls!BallotFits /\ Polls!ResultsAreFinal BY DEF PollInv
<1> QED BY <1>1, <1>2, <1>3, PTL DEF Polls!Spec

\* Only a moderator's decision can answer to a question that is hidden.
LEMMA HiddenKept == ASSUME Polls!TypeOK, [Polls!Next]_Polls!vars PROVE Polls!HiddenStaysHidden
<1> SUFFICES ASSUME question.status \in {"rejected", "hidden"},
                    question'.status = "answered", ~late'
             PROVE  FALSE
  BY DEF Polls!HiddenStaysHidden
<1>1. PICK s \in Sessions : Polls!Answer(s) \/ \E st \in Polls!QuestionStatus : Polls!Moderate(s, st)
  BY DEF Polls!Next, Polls!vars, Polls!Tick, Polls!ShowResults, Polls!Upvote, Polls!LoadStatus, Polls!LoadQuestion,
         Polls!Abort, Polls!VoteCheck, Polls!VoteCommit, Polls!ChangeStatus
<1>2. CASE Polls!Answer(s)
  BY <1>2 DEF Polls!Answer, Polls!WriteQuestion, Polls!Answerable
<1>3. ASSUME NEW st \in Polls!QuestionStatus, Polls!Moderate(s, st) PROVE FALSE
  <2>1. sess[s].copy \in Polls!Question /\ question \in Polls!Question /\ st # "answered"
    BY <1>3, SessionOps DEF Polls!Moderate, Polls!TypeOK
  <2>2. question' = Polls!Written(question, sess[s].copy, [sess[s].copy EXCEPT !.status = st])
    BY <1>3 DEF Polls!Moderate, Polls!WriteQuestion
  <2>3. question'.status \in {st, question.status} BY <2>1, <2>2 DEF Polls!Written, Polls!Question
  <2> QED BY <2>1, <2>3
<1> QED BY <1>1, <1>2, <1>3

\* A question that was rejected or hidden is not made public by an answer,
\* unless the answer was decided on a copy that was out of date.
THEOREM HiddenQuestionsStay == PollTimes => (Polls!Spec => [][Polls!HiddenStaysHidden]_Polls!vars)
<1> SUFFICES ASSUME PollTimes PROVE Polls!Spec => [][Polls!HiddenStaysHidden]_Polls!vars OBVIOUS
<1>1. Polls!Init => Polls!TypeOK BY InitPoll DEF PollInv
<1>2. Polls!TypeOK /\ [Polls!Next]_Polls!vars => Polls!TypeOK' BY TypePoll
<1>3. Polls!TypeOK /\ [Polls!Next]_Polls!vars => Polls!HiddenStaysHidden BY HiddenKept
<1> QED BY <1>1, <1>2, <1>3, PTL DEF Polls!Spec
=============================================================================
