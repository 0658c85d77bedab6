---------------------------- MODULE VenueSchedule ----------------------------
(***************************************************************************)
(* The schedule of sessions and competition fixtures in venues and with    *)
(* shared resources.  An item is validated against the others while an     *)
(* advisory lock on its venue and on its resource is held; an edit         *)
(* validates the copy of the item it loaded before it took the locks.      *)
(***************************************************************************)
EXTENDS Integers, StaleCopy

CONSTANTS
    Items,      \* rows of schedule_items that may be created
    Venues,     \* venues, of the event or shared
    Resources,  \* values of resource_key
    Slots,      \* values of <<start_time, end_time>>, inside the event and the venue's windows
    Sessions    \* requests that run concurrently

None == "none"
Row == [status : {"scheduled", "cancelled"}, venue : Venues \cup {None},
        resource : Resources \cup {None}, slot : Slots]
NoItem == [status |-> "absent"]

VARIABLES
    item,   \* schedule_items
    sess,   \* what each request has loaded and validated
    stale   \* history: items written from a copy that was out of date

vars == <<item, sess, stale>>

Idle == [at |-> "idle"]

TypeOK ==
    /\ item \in [Items -> Row \cup {NoItem}]
    /\ sess \in [Sessions -> {Idle} \cup [at : {"loaded"}, on : Items, copy : Row]
                                    \cup [at : {"checked"}, on : Items, copy : Row \cup {NoItem}, new : Row]]
    /\ stale \subseteq Items

Init ==
    /\ item = [i \in Items |-> NoItem]
    /\ sess = [s \in Sessions |-> Idle]
    /\ stale = {}
----------------------------------------------------------------------------
(* Validation.                                                             *)

Overlap(t, u) == t[1] < u[2] /\ t[2] > u[1]

\* find_overlapping: with a venue and a resource, only items that share both.
Conflicts(i, row) ==
    {j \in Items \ {i} :
        /\ item[j].status = "scheduled"
        /\ Overlap(item[j].slot, row.slot)
        /\ row.venue # None \/ row.resource # None
        /\ row.venue # None => item[j].venue = row.venue
        /\ row.resource # None => item[j].resource = row.resource}

\* The keys lock_conflict_scope locks until the end of the transaction.
Scope(row) == {<<"venue", row.venue>>, <<"resource", row.resource>>}
                  \ {<<"venue", None>>, <<"resource", None>>}
\* Mutant: validation takes no lock.
LockFreeAlways(row) == row.slot[1] < row.slot[2]
LockFree(row) ==
    /\ row.slot[1] < row.slot[2]
    /\ \A s \in Sessions : sess[s].at = "checked" => Scope(sess[s].new) \cap Scope(row) = {}

Validated(s, i, copy, row) ==
    /\ LockFree(row)
    /\ Conflicts(i, row) = {}
    /\ sess' = [sess EXCEPT ![s] = [at |-> "checked", on |-> i, copy |-> copy, new |-> row]]
    /\ UNCHANGED <<item, stale>>
----------------------------------------------------------------------------
(* Operations.                                                             *)

\* add_schedule_item, and the fixture that create_match schedules.
Add(s, i, row) ==
    /\ sess[s] = Idle
    /\ item[i] = NoItem
    /\ \A r \in Sessions : sess[r] # Idle => sess[r].on # i
    /\ row.status = "scheduled"
    /\ Validated(s, i, NoItem, row)

Insert(s) ==
    /\ sess[s].at = "checked"
    /\ sess[s].copy = NoItem
    /\ item' = [item EXCEPT ![sess[s].on] = sess[s].new]
    /\ sess' = [sess EXCEPT ![s] = Idle]
    /\ UNCHANGED stale

\* update_schedule_item loads the item, validates the merged fields and writes
\* those that differ from its copy.
LoadEdit(s, i) ==
    /\ sess[s] = Idle
    /\ item[i].status = "scheduled"
    /\ sess' = [sess EXCEPT ![s] = [at |-> "loaded", on |-> i, copy |-> item[i]]]
    /\ UNCHANGED <<item, stale>>

CheckEdit(s, row) ==
    /\ sess[s].at = "loaded"
    /\ row.status = sess[s].copy.status
    /\ Validated(s, sess[s].on, sess[s].copy, row)

WriteEdit(s) ==
    /\ sess[s].at = "checked"
    /\ LET i == sess[s].on IN
       /\ sess[s].copy # NoItem
       /\ item[i] # NoItem
       /\ item' = [item EXCEPT ![i] = Written(@, sess[s].copy, sess[s].new)]
       /\ stale' = IF item[i] = sess[s].copy THEN stale ELSE stale \cup {i}
    /\ sess' = [sess EXCEPT ![s] = Idle]

\* A request that is refused, fails, or finds its item deleted.
Abort(s) ==
    /\ sess[s] # Idle
    /\ sess' = [sess EXCEPT ![s] = Idle]
    /\ UNCHANGED <<item, stale>>

Cancel(i) ==
    /\ item[i] # NoItem
    /\ item' = [item EXCEPT ![i].status = "cancelled"]
    /\ UNCHANGED <<sess, stale>>

Delete(i) ==
    /\ item[i].status = "cancelled"
    /\ item' = [item EXCEPT ![i] = NoItem]
    /\ stale' = stale \ {i}
    /\ UNCHANGED sess

Next ==
    \/ \E s \in Sessions :
          \/ \E i \in Items : LoadEdit(s, i) \/ \E row \in Row : Add(s, i, row)
          \/ \E row \in Row : CheckEdit(s, row)
          \/ Insert(s) \/ WriteEdit(s) \/ Abort(s)
    \/ \E i \in Items : Cancel(i) \/ Delete(i)

Spec == Init /\ [][Next]_vars
----------------------------------------------------------------------------
(* Properties.                                                             *)

Booked(i) == item[i].status = "scheduled"

\* Two sessions in one place with one resource never overlap, unless one of
\* them was written by two edits that had loaded it at the same time.
SeparateEditsKeepApart ==
    \A i, j \in Items \ stale :
        /\ i # j /\ Booked(i) /\ Booked(j)
        /\ item[i].venue = item[j].venue /\ item[i].resource = item[j].resource
        /\ item[i].venue # None \/ item[i].resource # None
        => ~Overlap(item[i].slot, item[j].slot)
=============================================================================
