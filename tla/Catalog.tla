-------------------------------- MODULE Catalog --------------------------------
(***************************************************************************)
(* Main categories, their sub categories and the events filed under them:  *)
(* deleting a category archives and deletes its events.                    *)
(***************************************************************************)
EXTENDS Integers, FiniteSets

CONSTANTS
    Mains,   \* main categories
    Subs,    \* sub categories
    Events,
    Sessions \* requests that run concurrently

VARIABLES
    main,  \* state of every main category
    sub,   \* state and main category of every sub category
    event, \* status and categories of every event
    late,  \* a request has committed what a deletion or a move had made untrue
    sess   \* what every request is about to write

vars == <<main, sub, event, late, sess>>

States == {"absent", "active", "inactive", "deleted"}
Event == [status : {"draft", "published", "archived"}, main : Mains, sub : Subs, deleted : BOOLEAN]
NoEvent == [status |-> "absent", deleted |-> FALSE]
Idle == [at |-> "idle"]

TypeOK ==
    /\ main \in [Mains -> States]
    /\ sub \in [Subs -> [state : States, main : Mains]]
    /\ event \in [Events -> Event \cup {NoEvent}]
    /\ late \in BOOLEAN
    /\ sess \in [Sessions -> {Idle} \cup [at : {"file"}, event : Events, main : Mains, sub : Subs]
                               \cup [at : {"sub"}, sub : Subs, main : Mains, used : BOOLEAN]]

Init ==
    /\ main = [m \in Mains |-> "active"]
    /\ sub \in [Subs -> [state : {"absent"}, main : Mains]]
    /\ event = [e \in Events |-> NoEvent]
    /\ late = FALSE
    /\ sess = [s \in Sessions |-> Idle]

To(s, step) == sess' = [sess EXCEPT ![s] = step]
Exists(state) == state \in {"active", "inactive"}
----------------------------------------------------------------------------
(* Categories.                                                             *)

Under(u) == {e \in Events : event[e] # NoEvent /\ event[e].sub = u}

\* Events count also when they are deleted.
InUse(u) == Under(u) # {}

\* Creating a sub category, or moving it: the main category is looked up first.
SubRead(s, u, m) ==
    /\ sess[s] = Idle
    /\ Exists(main[m])
    /\ sub[u].state = "absent" \/ (Exists(sub[u].state) /\ sub[u].main # m /\ ~InUse(u))
    /\ To(s, [at |-> "sub", sub |-> u, main |-> m, used |-> Under(u) # {}])
    /\ UNCHANGED <<main, sub, event, late>>

SubCommit(s) ==
    /\ sess[s].at = "sub"
    /\ LET u == sess[s].sub
       IN /\ sub' = [sub EXCEPT ![u] = [state |-> IF @.state = "absent" THEN "active" ELSE @.state,
                                        main |-> sess[s].main]]
          /\ late' = (late \/ ~Exists(main[sess[s].main]) \/ sub[u].state = "deleted"
                        \/ (Under(u) # {}) # sess[s].used)
    /\ To(s, Idle)
    /\ UNCHANGED <<main, event>>

SetActive(m, state) ==
    /\ Exists(main[m]) /\ state \in {"active", "inactive"}
    /\ main' = [main EXCEPT ![m] = state]
    /\ UNCHANGED <<sub, event, late, sess>>

Deleted(set) == [e \in Events |-> IF e \in set THEN [event[e] EXCEPT !.status = "archived", !.deleted = TRUE]
                                  ELSE event[e]]
Undeleted == {e \in Events : event[e] # NoEvent /\ ~event[e].deleted}

DeleteMain(m) ==
    /\ Exists(main[m])
    /\ event' = Deleted({e \in Undeleted : event[e].main = m \/ sub[event[e].sub].main = m})
    /\ sub' = [u \in Subs |-> IF sub[u].main = m /\ Exists(sub[u].state) THEN [sub[u] EXCEPT !.state = "deleted"] ELSE sub[u]]
    /\ main' = [main EXCEPT ![m] = "deleted"]
    /\ UNCHANGED <<late, sess>>

DeleteSub(u) ==
    /\ Exists(sub[u].state)
    /\ event' = Deleted({e \in Undeleted : event[e].sub = u})
    /\ sub' = [sub EXCEPT ![u].state = "deleted"]
    /\ UNCHANGED <<main, late, sess>>
----------------------------------------------------------------------------
(* Events.                                                                 *)

\* create_event and update_event resolve the categories before they write.
FileRead(s, e, u) ==
    /\ sess[s] = Idle
    /\ event[e] = NoEvent \/ e \in Undeleted
    /\ sub[u].state = "active" /\ main[sub[u].main] = "active"
    /\ To(s, [at |-> "file", event |-> e, main |-> sub[u].main, sub |-> u])
    /\ UNCHANGED <<main, sub, event, late>>

FileCommit(s) ==
    /\ sess[s].at = "file"
    /\ LET e == sess[s].event
           c == [main |-> sess[s].main, sub |-> sess[s].sub]
       IN /\ event' = [event EXCEPT ![e] = IF @ = NoEvent THEN [status |-> "draft", main |-> c.main, sub |-> c.sub, deleted |-> FALSE]
                                           ELSE [@ EXCEPT !.main = c.main, !.sub = c.sub]]
          /\ late' = (late \/ ~Exists(sub[c.sub].state) \/ ~Exists(main[c.main]) \/ sub[c.sub].main # c.main)
    /\ To(s, Idle)
    /\ UNCHANGED <<main, sub>>

Publish(e) ==
    /\ e \in Undeleted /\ event[e].status = "draft"
    /\ event' = [event EXCEPT ![e].status = "published"]
    /\ UNCHANGED <<main, sub, late, sess>>

DeleteEvent(e) ==
    /\ e \in Undeleted
    /\ event' = Deleted({e})
    /\ UNCHANGED <<main, sub, late, sess>>

Next ==
    \/ \E s \in Sessions :
          \/ \E u \in Subs, m \in Mains : SubRead(s, u, m)
          \/ SubCommit(s)
          \/ \E e \in Events, u \in Subs : FileRead(s, e, u)
          \/ FileCommit(s)
    \/ \E m \in Mains : DeleteMain(m) \/ \E state \in States : SetActive(m, state)
    \/ \E u \in Subs : DeleteSub(u)
    \/ \E e \in Events : Publish(e) \/ DeleteEvent(e)

Spec == Init /\ [][Next]_vars
----------------------------------------------------------------------------
(* Properties.                                                             *)

\* Unless a request commits across a deletion or a move, every event that is
\* not deleted is filed under a sub category that exists and belongs to the
\* event's main category, which exists; and whatever overlaps, a deleted event
\* is never shown again.
Filed ==
    /\ ~late => \A e \in Undeleted :
          LET u == sub[event[e].sub]
          IN Exists(u.state) /\ Exists(main[event[e].main]) /\ u.main = event[e].main
    /\ \A e \in Events : event[e].deleted => event[e].status = "archived"
=============================================================================
