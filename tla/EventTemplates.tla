---------------------------- MODULE EventTemplates ----------------------------
(***************************************************************************)
(* An event that is copied, at once or by way of a template, while its     *)
(* manager goes on configuring it.  A snapshot is put together from one    *)
(* statement after another: venues, then schedule, then zones, then        *)
(* policies.  A copy gets venues and zones of its own, and what referred   *)
(* to the originals is translated; what is not in the snapshot is dropped. *)
(***************************************************************************)
EXTENDS FiniteSets

CONSTANTS
    Venues,   \* venues that the event may use
    Borrowed, \* those of them that another event shares
    NoVenue,
    Items,    \* schedule items that may be added
    Zones,    \* access zones that may be created
    Types,    \* access types
    Copies,   \* events that may be created from this one
    Sessions  \* requests that run at the same time

\* A policy that names no zone admits to all of them.
Anywhere == {}
Absent == {"no policy"}
NoPolicies == [t \in Types |-> Absent]
Unread == [venues |-> {}, items |-> [i \in {} |-> NoVenue], zones |-> {}, policies |-> NoPolicies, torn |-> {}]
Idle == [at |-> "idle", snapshot |-> Unread]
NoTemplate == [status |-> "none"]
NoCopy == [status |-> "none"]

VARIABLES
    source,   \* the event: its venues, schedule, zones and policies
    template, \* a template of it
    copy,     \* the events created from it; "of" is, as history, the snapshot
    sess      \* a snapshot that is being taken

vars == <<source, template, copy, sess>>

Schedules == UNION {[I -> Venues \cup {NoVenue}] : I \in SUBSET Items}
Policies == [Types -> (SUBSET Zones) \cup {Absent}]
Snapshots == [venues : SUBSET Venues, items : Schedules, zones : SUBSET Zones,
              policies : Policies, torn : SUBSET {"venues", "zones"}]

TypeOK ==
    /\ DOMAIN source = {"venues", "items", "zones", "policies", "deleted"}
    /\ source.venues \subseteq Venues \ Borrowed
    /\ source.items \in Schedules
    /\ source.zones \subseteq Zones
    /\ source.policies \in Policies
    /\ template \in [status : {"active", "archived"}, snapshot : Snapshots] \cup {NoTemplate}
    /\ \A c \in Copies :
          copy[c] # NoCopy => copy[c].of \in Snapshots /\ copy[c].policies \in Policies
    /\ \A s \in Sessions : /\ sess[s].at \in {"idle", "venues", "items", "zones", "policies"}
                           /\ sess[s].snapshot \in Snapshots

Init ==
    /\ source = [venues |-> {}, items |-> [i \in {} |-> NoVenue], zones |-> {},
                 policies |-> NoPolicies, deleted |-> FALSE]
    /\ template = NoTemplate
    /\ copy = [c \in Copies |-> NoCopy]
    /\ sess = [s \in Sessions |-> Idle]
----------------------------------------------------------------------------
(* The event is configured.                                                *)

Configure(new) ==
    /\ ~source.deleted
    /\ source' = new
    /\ UNCHANGED <<template, copy, sess>>

AddVenue(v) == v \notin source.venues /\ Configure([source EXCEPT !.venues = @ \cup {v}])

\* An item may take place at a venue of the event, at one that another event
\* shares, or at none; it can be moved, and disappears when it is cancelled.
Schedule(i, v) ==
    /\ v \in source.venues \cup Borrowed \cup {NoVenue}
    /\ Configure([source EXCEPT !.items = [j \in DOMAIN @ \cup {i} |-> IF j = i THEN v ELSE @[j]]])

CancelItem(i) ==
    /\ i \in DOMAIN source.items
    /\ Configure([source EXCEPT !.items = [j \in DOMAIN @ \ {i} |-> @[j]]])

CreateZone(z) == z \notin source.zones /\ Configure([source EXCEPT !.zones = @ \cup {z}])

OwnZones == SUBSET source.zones
UpsertPolicy(t, allowed) ==
    /\ allowed \in OwnZones
    /\ Configure([source EXCEPT !.policies[t] = allowed])

DeleteEvent == Configure([source EXCEPT !.deleted = TRUE])
----------------------------------------------------------------------------
(* A snapshot is taken, statement by statement.                            *)

Read(s, from, to, snapshot) ==
    /\ sess[s].at = from
    /\ sess' = [sess EXCEPT ![s] = [at |-> to, snapshot |-> snapshot]]
    /\ UNCHANGED <<source, template, copy>>

ReadVenues(s) ==
    ~source.deleted /\ Read(s, "idle", "venues", [Unread EXCEPT !.venues = source.venues])

Torn(s, what, read, now) == sess[s].snapshot.torn \cup (IF read = now THEN {} ELSE {what})

ReadItems(s) ==
    Read(s, "venues", "items",
         [sess[s].snapshot EXCEPT !.items = source.items,
                                  !.torn = Torn(s, "venues", sess[s].snapshot.venues, source.venues)])

ReadZones(s) ==
    Read(s, "items", "zones", [sess[s].snapshot EXCEPT !.zones = source.zones])

ReadPolicies(s) ==
    Read(s, "zones", "policies",
         [sess[s].snapshot EXCEPT !.policies = source.policies,
                                  !.torn = Torn(s, "zones", sess[s].snapshot.zones, source.zones)])
----------------------------------------------------------------------------
(* Templates and copies.                                                   *)

Finish(s) == sess' = [sess EXCEPT ![s] = Idle]

CreateTemplate(s) ==
    /\ sess[s].at = "policies"
    /\ template = NoTemplate
    /\ template' = [status |-> "active", snapshot |-> sess[s].snapshot]
    /\ Finish(s)
    /\ UNCHANGED <<source, copy>>

ArchiveTemplate ==
    /\ template # NoTemplate
    /\ template' = [template EXCEPT !.status = "archived"]
    /\ UNCHANGED <<source, copy, sess>>

DeleteTemplate ==
    /\ template.status = "archived"
    /\ template' = NoTemplate
    /\ UNCHANGED <<source, copy, sess>>

\* _clone_snapshot: zones and venues are looked up by what they were copied
\* from; a zone that is not found is left out, a venue becomes none.
Clone(snapshot) ==
    [status |-> "draft",
     items |-> [i \in DOMAIN snapshot.items |->
                   IF snapshot.items[i] \in snapshot.venues THEN snapshot.items[i] ELSE NoVenue],
     policies |-> [t \in Types |-> IF snapshot.policies[t] = Absent THEN Absent
                                   ELSE snapshot.policies[t] \cap snapshot.zones],
     of |-> snapshot]

Create(c, snapshot) ==
    /\ copy[c] = NoCopy
    /\ copy' = [copy EXCEPT ![c] = Clone(snapshot)]

DuplicateEvent(s, c) ==
    /\ sess[s].at = "policies"
    /\ Create(c, sess[s].snapshot)
    /\ Finish(s)
    /\ UNCHANGED <<source, template>>

\* An archived template serves as well as an active one, and the event it was
\* made from need not exist any more.
CreateFromTemplate(c) ==
    /\ template # NoTemplate
    /\ Create(c, template.snapshot)
    /\ UNCHANGED <<source, template, sess>>

\* A conflict in the schedule, or any other error: nothing is kept.
Fails(s) == sess[s].at # "idle" /\ Finish(s) /\ UNCHANGED <<source, template, copy>>

Next ==
    \/ \E v \in Venues \ Borrowed : AddVenue(v)
    \/ \E i \in Items : CancelItem(i) \/ \E v \in Venues \cup {NoVenue} : Schedule(i, v)
    \/ \E z \in Zones : CreateZone(z)
    \/ \E t \in Types, allowed \in SUBSET Zones : UpsertPolicy(t, allowed)
    \/ DeleteEvent \/ ArchiveTemplate \/ DeleteTemplate
    \/ \E s \in Sessions :
          \/ ReadVenues(s) \/ ReadItems(s) \/ ReadZones(s) \/ ReadPolicies(s)
          \/ CreateTemplate(s) \/ Fails(s)
          \/ \E c \in Copies : DuplicateEvent(s, c)
    \/ \E c \in Copies : CreateFromTemplate(c)

Spec == Init /\ [][Next]_vars
----------------------------------------------------------------------------
(* Properties.                                                             *)

\* A policy that restricts its tickets to some zones still does in a copy:
\* leaving out a zone must not empty the list, which would admit everywhere.
\* Only a zone that is created between the two statements of a snapshot is lost.
CopyStaysRestricted ==
    \A c \in Copies : copy[c] # NoCopy =>
        \A t \in Types :
            /\ copy[c].policies[t] = Anywhere
            /\ "zones" \notin copy[c].of.torn
            => copy[c].of.policies[t] = Anywhere

\* An item of a copy takes place where its original does, unless that venue is
\* borrowed from another event or was added while the snapshot was taken.
CopyKeepsVenues ==
    \A c \in Copies : copy[c] # NoCopy =>
        \A i \in DOMAIN copy[c].items :
            /\ copy[c].of.items[i] \notin Borrowed
            /\ "venues" \notin copy[c].of.torn
            => copy[c].items[i] = copy[c].of.items[i]
=============================================================================
