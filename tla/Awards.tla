-------------------------------- MODULE Awards --------------------------------
(***************************************************************************)
(* Certificates and badges of one registration: who is eligible, issuing   *)
(* under an advisory lock, and revocation.                                 *)
(***************************************************************************)
EXTENDS Integers, FiniteSets

CONSTANTS
    Docs,          \* certificate templates and badge definitions of the event
    DocType,       \* function to the certificate_type, or "badge"
    AttendanceMin, \* function to the attendance_min of the criteria
    Participants,  \* participants of the registration
    Rows,          \* rows of certificates and badge_awards that may be created
    MaxScans,      \* bound of the check-ins
    Sessions       \* requests that run concurrently

Registrant == "user"   \* participant_id NULL
Recipients == Participants \cup {Registrant}
Final == {"open", "won", "lost", "elsewhere"}
Award == [doc : Docs, to : Recipients, status : {"issued", "revoked"}]
NoAward == [status |-> "absent"]

VARIABLES
    completed, \* the event is completed
    reg,       \* status of the registration
    scans,     \* check-ins of every participant's ticket
    final,     \* what the final of the competition says of the registration's entry
    award,     \* certificates and badge_awards
    lock       \* the award each request issues, with the advisory lock it holds

vars == <<completed, reg, scans, final, award, lock>>

Free == [doc |-> "none"]

TypeOK ==
    /\ completed \in BOOLEAN
    /\ reg \in {"pending", "confirmed", "checked_in", "completed", "cancelled"}
    /\ scans \in [Recipients -> 0 .. MaxScans]
    /\ final \in Final
    /\ award \in [Rows -> Award \cup {NoAward}]
    /\ lock \in [Sessions -> [doc : Docs, to : Recipients] \cup {Free}]

Init ==
    /\ completed = FALSE
    /\ reg = "confirmed"
    /\ scans = [p \in Recipients |-> 0]
    /\ final = "open"
    /\ award = [a \in Rows |-> NoAward]
    /\ lock = [s \in Sessions |-> Free]
----------------------------------------------------------------------------
(* What the rest of the system does to the registration.                   *)

CompleteEvent == ~completed /\ completed' = TRUE /\ UNCHANGED <<reg, scans, final, award, lock>>

MoveRegistration(st) ==
    /\ <<reg, st>> \in {<<"confirmed", "checked_in">>, <<"confirmed", "cancelled">>,
                        <<"checked_in", "completed">>, <<"checked_in", "cancelled">>}
    /\ reg' = st
    /\ UNCHANGED <<completed, scans, final, award, lock>>

Scan(p) ==
    /\ scans[p] < MaxScans
    /\ scans' = [scans EXCEPT ![p] = @ + 1]
    /\ UNCHANGED <<completed, reg, final, award, lock>>

PlayFinal(outcome) ==
    /\ final = "open"
    /\ final' = outcome
    /\ UNCHANGED <<completed, reg, scans, award, lock>>
----------------------------------------------------------------------------
(* Issuing.                                                                *)

\* The tickets counted are all of the registration's, or the participant's.
Attendance(p) ==
    IF p = Registrant THEN Cardinality({scan \in Recipients \X (1 .. MaxScans) : scan[2] <= scans[scan[1]]})
    ELSE scans[p]

Eligible(doc, p) ==
    /\ completed
    /\ reg \in {"confirmed", "checked_in", "completed"}
    /\ Attendance(p) >= AttendanceMin[doc]
    /\ DocType[doc] = "winner" => final = "won"
    /\ DocType[doc] = "runner_up" => final = "lost"
    /\ DocType[doc] = "completion" => reg = "completed"

Active(doc, p) == {a \in Rows : award[a] = [doc |-> doc, to |-> p, status |-> "issued"]}

\* Mutant: no advisory lock.
NoLock(doc, p) == doc \in Docs
LockFree(doc, p) == \A s \in Sessions : lock[s] # [doc |-> doc, to |-> p]

\* The lock is taken before the search for an active award, and held to the commit.
IssueCheck(s, doc, p) ==
    /\ lock[s] = Free
    /\ LockFree(doc, p)
    /\ Eligible(doc, p)
    /\ Active(doc, p) = {}
    /\ lock' = [lock EXCEPT ![s] = [doc |-> doc, to |-> p]]
    /\ UNCHANGED <<completed, reg, scans, final, award>>

\* The unique index on active certificates does not see NULL participants; a
\* badge's unique constraint also counts the awards that were revoked.
Unique(doc, p) ==
    p = Registrant
        \/ IF DocType[doc] = "badge" THEN \A a \in Rows : award[a] # NoAward => <<award[a].doc, award[a].to>> # <<doc, p>>
           ELSE Active(doc, p) = {}

IssueCommit(s, a) ==
    /\ lock[s] # Free
    /\ award[a] = NoAward
    /\ Unique(lock[s].doc, lock[s].to)
    /\ award' = [award EXCEPT ![a] = [doc |-> lock[s].doc, to |-> lock[s].to, status |-> "issued"]]
    /\ lock' = [lock EXCEPT ![s] = Free]
    /\ UNCHANGED <<completed, reg, scans, final>>

IssueFails(s) ==
    /\ lock[s] # Free
    /\ lock' = [lock EXCEPT ![s] = Free]
    /\ UNCHANGED <<completed, reg, scans, final, award>>

Revoke(a) ==
    /\ award[a] # NoAward
    /\ award' = [award EXCEPT ![a].status = "revoked"]
    /\ UNCHANGED <<completed, reg, scans, final, lock>>

Next ==
    \/ CompleteEvent
    \/ \E st \in {"checked_in", "completed", "cancelled"} : MoveRegistration(st)
    \/ \E p \in Recipients : Scan(p)
    \/ \E o \in Final : PlayFinal(o)
    \/ \E s \in Sessions :
          \/ \E doc \in Docs, p \in Recipients : IssueCheck(s, doc, p)
          \/ \E a \in Rows : IssueCommit(s, a)
          \/ IssueFails(s)
    \/ \E a \in Rows : Revoke(a)

Spec == Init /\ [][Next]_vars
----------------------------------------------------------------------------
(* Properties.                                                             *)

\* Nobody holds the same certificate or badge twice, however many managers
\* issue it at once: for the registrant only the lock prevents it, because the
\* unique index treats NULL participants as different.
OneActiveAward == \A doc \in Docs, p \in Recipients : Cardinality(Active(doc, p)) <= 1
=============================================================================
