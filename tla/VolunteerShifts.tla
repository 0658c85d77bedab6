--------------------------- MODULE VolunteerShifts ---------------------------
(***************************************************************************)
(* Volunteers' shifts: requests, approvals, attendance.  Every operation   *)
(* locks the assignment and then the shift (SELECT ... FOR UPDATE) before  *)
(* it decides, so that operations on one shift exclude each other.  An     *)
(* approval also looks at the volunteer's other shifts, which it does not  *)
(* lock: it is split into the check and the commit, and keeps its shift    *)
(* locked in between.                                                      *)
(***************************************************************************)
EXTENDS Integers, FiniteSets

CONSTANTS
    Shifts,      \* rows of volunteer_shifts that may be created
    Volunteers,  \* accounts with an approved application for the event
    Slots,       \* values of <<starts_at, ends_at>>
    Counts,      \* values of required_count
    Sessions,    \* approvals that run concurrently
    MaxTime      \* bound of the clock

ShiftMoves ==
    {<<"draft", "open">>, <<"draft", "cancelled">>, <<"open", "cancelled">>, <<"full", "open">>,
     <<"full", "cancelled">>, <<"in_progress", "completed">>, <<"in_progress", "cancelled">>}
Managed == {"full", "in_progress", "completed"}
AssignmentMoves ==
    {<<"requested", "approved">>, <<"requested", "rejected">>, <<"requested", "cancelled">>,
     <<"approved", "active">>, <<"approved", "cancelled">>,
     <<"active", "completed">>, <<"active", "cancelled">>}
Assignable == {"approved", "active"}

ShiftStatus == {m[1] : m \in ShiftMoves} \cup {m[2] : m \in ShiftMoves}
AssignmentStatus == {m[1] : m \in AssignmentMoves} \cup {m[2] : m \in AssignmentMoves}
AttendanceStatus == {"none", "checked_in", "checked_out", "no_show", "cancelled"}
Shift == [status : ShiftStatus, need : Counts, slot : Slots]
NoShift == [status |-> "none"]

VARIABLES
    shift,  \* volunteer_shifts
    asg,    \* volunteer_shift_assignments; one per shift and volunteer (unique)
    att,    \* volunteer_attendance; one per assignment (unique)
    sess,   \* the approval each request has checked and not yet committed
    now     \* the clock

vars == <<shift, asg, att, sess, now>>

Idle == [op |-> "idle"]

TypeOK ==
    /\ shift \in [Shifts -> Shift \cup {NoShift}]
    /\ asg \in [Shifts -> [Volunteers -> AssignmentStatus \cup {"none"}]]
    /\ att \in [Shifts -> [Volunteers -> AttendanceStatus]]
    /\ sess \in [Sessions -> {Idle} \cup [op : {"approve"}, on : Shifts, who : Volunteers]]
    /\ now \in 0 .. MaxTime

Init ==
    /\ shift = [h \in Shifts |-> NoShift]
    /\ asg = [h \in Shifts |-> [v \in Volunteers |-> "none"]]
    /\ att = [h \in Shifts |-> [v \in Volunteers |-> "none"]]
    /\ sess = [s \in Sessions |-> Idle]
    /\ now = 0
----------------------------------------------------------------------------
Tick == now < MaxTime /\ now' = now + 1 /\ UNCHANGED <<shift, asg, att, sess>>

\* Mutant: the shift's row is read without FOR UPDATE.
Unlocked(h) == shift[h] # NoShift
\* No approval holds the lock of the shift's row.
ShiftFree(h) == shift[h] # NoShift /\ \A s \in Sessions : sess[s] # Idle => sess[s].on # h

Assigned(h) == {v \in Volunteers : asg[h][v] \in Assignable}
Overlap(h, v) ==
    \E g \in Shifts \ {h} :
        /\ asg[g][v] \in Assignable
        /\ shift[g].slot[1] < shift[h].slot[2]
        /\ shift[g].slot[2] > shift[h].slot[1]

\* _sync_status, when n volunteers are assigned.
SyncedRow(row, n) ==
    IF row.status \in {"open", "full"}
    THEN [row EXCEPT !.status = IF n >= row.need THEN "full" ELSE "open"]
    ELSE row

CreateShift(h, st, n, t) ==
    /\ shift[h] = NoShift
    /\ shift' = [shift EXCEPT ![h] = [status |-> st, need |-> n, slot |-> t]]
    /\ UNCHANGED <<asg, att, sess, now>>

\* update_shift: the number of places is not synchronised with the status.
UpdateShift(h, st, n, t) ==
    /\ ShiftFree(h)
    /\ n # shift[h].need => n >= Cardinality(Assigned(h))
    /\ st # shift[h].status => st \notin Managed /\ <<shift[h].status, st>> \in ShiftMoves
    /\ shift' = [shift EXCEPT ![h] = [status |-> st, need |-> n, slot |-> t]]
    /\ UNCHANGED <<asg, att, sess, now>>
----------------------------------------------------------------------------
\* request_shift: an overlap or a lack of places does not matter yet.
Request(h, v) ==
    /\ ShiftFree(h)
    /\ shift[h].status = "open"
    /\ asg[h][v] = "none"
    /\ asg' = [asg EXCEPT ![h][v] = "requested"]
    /\ shift' = [shift EXCEPT ![h] = SyncedRow(@, Cardinality(Assigned(h)))]
    /\ UNCHANGED <<att, sess, now>>

Places(h) == Cardinality(Assigned(h)) < shift[h].need

BeginApproval(s, h, v) ==
    /\ sess[s] = Idle
    /\ ShiftFree(h)
    /\ ~Overlap(h, v)
    /\ Places(h)
    /\ sess' = [sess EXCEPT ![s] = [op |-> "approve", on |-> h, who |-> v]]
    /\ UNCHANGED <<shift, asg, att, now>>

\* assign_shift: the manager creates an approved assignment.
AssignCheck(s, h, v) ==
    /\ shift[h].status = "open"
    /\ asg[h][v] = "none"
    /\ BeginApproval(s, h, v)

\* update_assignment with status approved.
ApproveCheck(s, h, v) ==
    /\ asg[h][v] = "requested"
    /\ shift[h].status \notin {"cancelled", "completed"}
    /\ BeginApproval(s, h, v)

ApproveCommit(s) ==
    /\ sess[s] # Idle
    /\ LET h == sess[s].on IN
       /\ asg' = [asg EXCEPT ![h][sess[s].who] = "approved"]
       /\ shift' = [shift EXCEPT ![h] = SyncedRow(@, Cardinality(Assigned(h)) + 1)]
    /\ sess' = [sess EXCEPT ![s] = Idle]
    /\ UNCHANGED <<att, now>>

Abort(s) ==
    /\ sess[s] # Idle
    /\ sess' = [sess EXCEPT ![s] = Idle]
    /\ UNCHANGED <<shift, asg, att, now>>

\* update_assignment with any other status; a cancellation ends the attendance
\* of somebody who is there.
Move(h, v, st) ==
    /\ ShiftFree(h)
    /\ st # "approved" /\ <<asg[h][v], st>> \in AssignmentMoves
    /\ shift[h].status \notin {"cancelled", "completed"}
    /\ asg' = [asg EXCEPT ![h][v] = st]
    /\ att' = IF st = "cancelled" /\ att[h][v] = "checked_in"
              THEN [att EXCEPT ![h][v] = "cancelled"] ELSE att
    /\ shift' = [shift EXCEPT ![h] =
                    SyncedRow(@, Cardinality({u \in Volunteers : asg'[h][u] \in Assignable}))]
    /\ UNCHANGED <<sess, now>>
----------------------------------------------------------------------------
MayArrive(h, v) == att[h][v] = "none" /\ asg[h][v] = "approved"

\* The shift's own status is not looked at.
CheckIn(h, v) ==
    /\ ShiftFree(h)
    /\ MayArrive(h, v)
    /\ now >= shift[h].slot[1]
    /\ att' = [att EXCEPT ![h][v] = "checked_in"]
    /\ asg' = [asg EXCEPT ![h][v] = "active"]
    /\ shift' = [shift EXCEPT ![h].status = "in_progress"]
    /\ UNCHANGED <<sess, now>>

CheckOut(h, v) ==
    /\ ShiftFree(h)
    /\ asg[h][v] = "active"
    /\ att[h][v] = "checked_in"
    /\ att' = [att EXCEPT ![h][v] = "checked_out"]
    /\ asg' = [asg EXCEPT ![h][v] = "completed"]
    /\ shift' = IF now >= shift[h].slot[2] THEN [shift EXCEPT ![h].status = "completed"] ELSE shift
    /\ UNCHANGED <<sess, now>>

NoShow(h, v) ==
    /\ ShiftFree(h)
    /\ now >= shift[h].slot[2]
    /\ asg[h][v] = "approved"
    /\ att[h][v] = "none"
    /\ att' = [att EXCEPT ![h][v] = "no_show"]
    /\ UNCHANGED <<shift, asg, sess, now>>
----------------------------------------------------------------------------
Next ==
    \/ \E h \in Shifts, n \in Counts, t \in Slots :
          \/ \E st \in {"draft", "open"} : CreateShift(h, st, n, t)
          \/ \E st \in ShiftStatus : UpdateShift(h, st, n, t)
    \/ \E h \in Shifts, v \in Volunteers :
          \/ Request(h, v) \/ CheckIn(h, v) \/ CheckOut(h, v) \/ NoShow(h, v)
          \/ \E st \in AssignmentStatus : Move(h, v, st)
          \/ \E s \in Sessions : AssignCheck(s, h, v) \/ ApproveCheck(s, h, v)
    \/ \E s \in Sessions : ApproveCommit(s) \/ Abort(s)
    \/ Tick

Spec == Init /\ [][Next]_vars
----------------------------------------------------------------------------
(* Properties.                                                             *)

\* However approvals, cancellations and changes of the number of places
\* overlap, a shift never has more volunteers than places.
PlacesBounded == \A h \in Shifts : shift[h] # NoShift => Cardinality(Assigned(h)) <= shift[h].need

\* A step never changes what attendance has settled: whoever left, was absent or cancelled while
\* on duty does not turn up again on the same shift.
AttendanceIsFinal ==
    \A h \in Shifts, v \in Volunteers :
        att[h][v] \in {"checked_out", "no_show", "cancelled"} => att'[h][v] = att[h][v]
============================================================================
