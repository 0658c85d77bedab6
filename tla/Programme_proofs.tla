----------------------------- MODULE Programme_proofs -----------------------------
(***************************************************************************)
(* Components around an event's programme, each for all values of its      *)
(* constants.  Every section has the inductive invariant of its component, *)
(* the lemmas about its steps and the theorems that follow.                *)
(***************************************************************************)
EXTENDS Integers, Sequences, FiniteSets, FiniteSetTheorems, TLAPS

\* Parameters of the components; a component has those that its module names.
CONSTANTS
    Sessions,
    Venues, Borrowed, NoVenue, Items, Zones, Types, Copies,
    Keys, NoKey, Managers, Nobody,
    Ids,
    Reviewers, Amounts, NoCode,
    Staff,
    Docs, DocType, AttendanceMin, Participants, Rows, MaxScans,
    Registrations,
    Captain, Users, Regs, NoReg, MinSize, MaxSize, Requests,
    Mains, Subs, Events,
    Resources, Slots,
    Kinds,
    Devices, Workers, MaxAttempts, MaxRetries, MaxLosses

VARIABLES
    sess,
    source, template, copy,
    image, item, object,
    row, open, late,
    team, request, code,
    incident, recipients, told,
    completed, reg, scans, final, award, lock,
    profile, total, reward, pay, visits, verified,
    members, invite, join, req,
    main, sub, event,
    stale,
    inquiry, sponsor, deliverable, lead,
    note, due, wanted, active, got, batch, worker, losses

Templates == INSTANCE EventTemplates
Files == INSTANCE StoredFiles
Uniques == INSTANCE UniqueRows
Helps == INSTANCE Assistance
Reports == INSTANCE Incidents
Prizes == INSTANCE Awards
Rewards == INSTANCE Referrals
Roster == INSTANCE TeamRoster
Shelf == INSTANCE Catalog
Rooms == INSTANCE VenueSchedule
Sponsors == INSTANCE Sponsorship
Pushes == INSTANCE NotificationDelivery
-----------------------------------------------------------------------------
(* Templates and copies of events: EventTemplates.                         *)

\* Every policy names only zones of the set.
Within(policies, zones) == \A t \in Types : policies[t] = Templates!Absent \/ policies[t] \subseteq zones

\* A snapshot whose zones did not change while it was taken has the zones that
\* its policies name.
Whole(snapshot) == "zones" \in snapshot.torn \/ Within(snapshot.policies, snapshot.zones)

\* The columns that the argument is about are there.
TemplateShape ==
    /\ DOMAIN sess = Sessions /\ DOMAIN copy = Copies
    /\ DOMAIN source = {"venues", "items", "zones", "policies", "deleted"}
    /\ DOMAIN source.policies = Types
    /\ \A s \in Sessions :
          /\ DOMAIN sess[s] = {"at", "snapshot"}
          /\ DOMAIN sess[s].snapshot = {"venues", "items", "zones", "policies", "torn"}

\* A finished snapshot is whole; one without policies restricts nothing.
SnapshotInv(s) == IF sess[s].at = "policies" THEN Whole(sess[s].snapshot)
                  ELSE sess[s].snapshot.policies = Templates!NoPolicies

\* What was kept, as a template or in a copy, is whole.
KeptInv ==
    /\ template # Templates!NoTemplate => Whole(template.snapshot)
    /\ \A c \in Copies : copy[c] # Templates!NoCopy =>
          Whole(copy[c].of) /\ copy[c].policies = Templates!Clone(copy[c].of).policies

\* The event's own policies name its zones, and whatever is taken from it and
\* kept is whole.
TemplateInv ==
    /\ TemplateShape
    /\ Within(source.policies, source.zones)
    /\ \A s \in Sessions : SnapshotInv(s)
    /\ KeptInv

\* The restriction of a copy follows.
LEMMA CopyRestricted == TemplateInv => Templates!CopyStaysRestricted
<1> SUFFICES ASSUME TemplateInv, NEW c \in Copies, copy[c] # Templates!NoCopy, NEW t \in Types,
                    copy[c].policies[t] = Templates!Anywhere, "zones" \notin copy[c].of.torn
             PROVE  copy[c].of.policies[t] = Templates!Anywhere
  BY DEF Templates!CopyStaysRestricted
<1> DEFINE of == copy[c].of
<1>1. Within(of.policies, of.zones) BY DEF TemplateInv, KeptInv, Whole
<1>2. copy[c].policies[t] = IF of.policies[t] = Templates!Absent THEN Templates!Absent ELSE of.policies[t] \cap of.zones
  BY DEF TemplateInv, KeptInv, Templates!Clone
<1>3. of.policies[t] # Templates!Absent BY <1>2 DEF Templates!Absent, Templates!Anywhere
<1> HIDE DEF of
<1>4. of.policies[t] \subseteq of.zones BY <1>1, <1>3 DEF Within
<1> QED BY <1>2, <1>3, <1>4 DEF of

\* Nothing is configured, taken or copied at first.
LEMMA InitTemplate == Templates!Init => TemplateInv
<1> SUFFICES ASSUME Templates!Init PROVE TemplateInv OBVIOUS
<1>1. \A t \in Types : Templates!NoPolicies[t] = Templates!Absent BY DEF Templates!NoPolicies
<1>2. TemplateShape BY DEF Templates!Init, TemplateShape, Templates!Idle, Templates!Unread, Templates!NoPolicies
<1>3. Within(source.policies, source.zones) BY <1>1 DEF Templates!Init, Within
<1>4. \A s \in Sessions : SnapshotInv(s) BY DEF Templates!Init, SnapshotInv, Templates!Idle, Templates!Unread
<1> QED BY <1>2, <1>3, <1>4 DEF Templates!Init, TemplateInv, KeptInv

\* The event may be configured as long as its policies name its zones.
LEMMA ConfigureStep ==
    ASSUME TemplateInv, NEW new, Templates!Configure(new),
           DOMAIN new = DOMAIN source, DOMAIN new.policies = Types,
           Within(new.policies, new.zones)
    PROVE  TemplateInv'
BY DEF Templates!Configure, TemplateInv, TemplateShape, SnapshotInv, KeptInv

\* Venues, items and zones may be added and the event deleted; a policy names
\* zones of the event.
LEMMA ConfigurationStep ==
    ASSUME TemplateInv,
           \/ \E v \in Venues \ Borrowed : Templates!AddVenue(v)
           \/ \E i \in Items : Templates!CancelItem(i) \/ \E v \in Venues \cup {NoVenue} : Templates!Schedule(i, v)
           \/ \E z \in Zones : Templates!CreateZone(z)
           \/ \E t \in Types, allowed \in SUBSET Zones : Templates!UpsertPolicy(t, allowed)
           \/ Templates!DeleteEvent
    PROVE  TemplateInv'
<1> USE DEF TemplateInv, TemplateShape
<1>1. ASSUME NEW v \in Venues \ Borrowed, Templates!AddVenue(v) PROVE TemplateInv'
  <2> DEFINE new == [source EXCEPT !.venues = @ \cup {v}]
  <2>1. DOMAIN new = DOMAIN source /\ new.policies = source.policies /\ new.zones = source.zones OBVIOUS
  <2>2. Templates!Configure(new) BY <1>1 DEF Templates!AddVenue
  <2> HIDE DEF new
  <2> QED BY <2>1, <2>2, ConfigureStep
<1>2. ASSUME NEW i \in Items, Templates!CancelItem(i) PROVE TemplateInv'
  <2> DEFINE new == [source EXCEPT !.items = [j \in DOMAIN @ \ {i} |-> @[j]]]
  <2>1. DOMAIN new = DOMAIN source /\ new.policies = source.policies /\ new.zones = source.zones OBVIOUS
  <2>2. Templates!Configure(new) BY <1>2 DEF Templates!CancelItem
  <2> HIDE DEF new
  <2> QED BY <2>1, <2>2, ConfigureStep
<1>3. ASSUME NEW i \in Items, NEW v \in Venues \cup {NoVenue}, Templates!Schedule(i, v) PROVE TemplateInv'
  <2> DEFINE new == [source EXCEPT !.items = [j \in DOMAIN @ \cup {i} |-> IF j = i THEN v ELSE @[j]]]
  <2>1. DOMAIN new = DOMAIN source /\ new.policies = source.policies /\ new.zones = source.zones OBVIOUS
  <2>2. Templates!Configure(new) BY <1>3 DEF Templates!Schedule
  <2> HIDE DEF new
  <2> QED BY <2>1, <2>2, ConfigureStep
<1>4. ASSUME NEW z \in Zones, Templates!CreateZone(z) PROVE TemplateInv'
  <2> DEFINE new == [source EXCEPT !.zones = @ \cup {z}]
  <2>1. DOMAIN new = DOMAIN source /\ new.policies = source.policies /\ new.zones = source.zones \cup {z} OBVIOUS
  <2>2. Templates!Configure(new) BY <1>4 DEF Templates!CreateZone
  <2> HIDE DEF new
  <2>3. Within(new.policies, new.zones) BY <2>1 DEF Within
  <2> QED BY <2>1, <2>2, <2>3, ConfigureStep
<1>5. ASSUME NEW t \in Types, NEW allowed \in SUBSET Zones, Templates!UpsertPolicy(t, allowed) PROVE TemplateInv'
  <2> DEFINE new == [source EXCEPT !.policies[t] = allowed]
  <2>1. /\ DOMAIN new = DOMAIN source /\ new.zones = source.zones
        /\ new.policies = [source.policies EXCEPT ![t] = allowed]
    OBVIOUS
  <2>2. Templates!Configure(new) /\ allowed \subseteq source.zones BY <1>5 DEF Templates!UpsertPolicy, Templates!OwnZones
  <2> HIDE DEF new
  <2>3. Within(new.policies, new.zones) BY <2>1, <2>2 DEF Within
  <2>4. DOMAIN new.policies = Types BY <2>1
  <2> QED BY <2>1, <2>2, <2>3, <2>4, ConfigureStep
<1>6. ASSUME Templates!DeleteEvent PROVE TemplateInv'
  <2> DEFINE new == [source EXCEPT !.deleted = TRUE]
  <2>1. DOMAIN new = DOMAIN source /\ new.policies = source.policies /\ new.zones = source.zones OBVIOUS
  <2>2. Templates!Configure(new) BY <1>6 DEF Templates!DeleteEvent
  <2> HIDE DEF new
  <2> QED BY <2>1, <2>2, ConfigureStep
<1> QED BY <1>1, <1>2, <1>3, <1>4, <1>5, <1>6

\* A step of a snapshot is about one session, whatever it reads.
LEMMA SnapshotStep ==
    ASSUME TemplateInv, NEW s \in Sessions, NEW next, sess' = [sess EXCEPT ![s] = next],
           UNCHANGED source, DOMAIN copy' = Copies,
           DOMAIN next = {"at", "snapshot"},
           DOMAIN next.snapshot = {"venues", "items", "zones", "policies", "torn"},
           IF next.at = "policies" THEN Whole(next.snapshot) ELSE next.snapshot.policies = Templates!NoPolicies
    PROVE  TemplateShape' /\ (\A w \in Sessions : SnapshotInv(w)') /\ Within(source.policies, source.zones)'
<1>1. /\ sess'[s] = next
      /\ \A w \in Sessions \ {s} : sess'[w] = sess[w]
      /\ DOMAIN sess' = Sessions
  BY DEF TemplateInv, TemplateShape
<1>2. TemplateShape' BY <1>1 DEF TemplateInv, TemplateShape
<1>3. \A w \in Sessions : SnapshotInv(w)' BY <1>1 DEF TemplateInv, SnapshotInv, Whole, Within
<1> QED BY <1>2, <1>3 DEF TemplateInv, Within

\* Reading keeps the templates and the copies.
LEMMA SnapshotRead ==
    ASSUME TemplateInv, NEW s \in Sessions,
           Templates!ReadVenues(s) \/ Templates!ReadItems(s) \/ Templates!ReadZones(s) \/ Templates!ReadPolicies(s) \/ Templates!Fails(s)
    PROVE  TemplateInv'
<1> DEFINE old == sess[s].snapshot
<1>0. DOMAIN old = {"venues", "items", "zones", "policies", "torn"} BY DEF TemplateInv, TemplateShape
<1>1. UNCHANGED <<source, template, copy>> /\ DOMAIN copy' = Copies /\ KeptInv'
  BY DEF Templates!ReadVenues, Templates!ReadItems, Templates!ReadZones, Templates!ReadPolicies, Templates!Fails, Templates!Read, TemplateInv, KeptInv, TemplateShape
<1>2. CASE Templates!ReadVenues(s)
  <2> DEFINE new == [Templates!Unread EXCEPT !.venues = source.venues]
  <2>1. DOMAIN new = {"venues", "items", "zones", "policies", "torn"} /\ new.policies = Templates!NoPolicies
    BY DEF Templates!Unread
  <2>2. sess' = [sess EXCEPT ![s] = [at |-> "venues", snapshot |-> new]] BY <1>2 DEF Templates!ReadVenues, Templates!Read
  <2> HIDE DEF new
  <2> QED BY <2>1, <2>2, <1>1, SnapshotStep DEF TemplateInv
<1>3. CASE Templates!ReadItems(s)
  <2> DEFINE new == [old EXCEPT !.items = source.items,
                                !.torn = Templates!Torn(s, "venues", old.venues, source.venues)]
  <2>1. DOMAIN new = DOMAIN old /\ new.policies = old.policies BY <1>0
  <2>2. sess' = [sess EXCEPT ![s] = [at |-> "items", snapshot |-> new]] BY <1>3 DEF Templates!ReadItems, Templates!Read
  <2>3. old.policies = Templates!NoPolicies BY <1>3 DEF Templates!ReadItems, Templates!Read, TemplateInv, SnapshotInv
  <2> HIDE DEF new
  <2> QED BY <1>0, <2>1, <2>2, <2>3, <1>1, SnapshotStep DEF TemplateInv
<1>4. CASE Templates!ReadZones(s)
  <2> DEFINE new == [old EXCEPT !.zones = source.zones]
  <2>1. DOMAIN new = DOMAIN old /\ new.policies = old.policies BY <1>0
  <2>2. sess' = [sess EXCEPT ![s] = [at |-> "zones", snapshot |-> new]] BY <1>4 DEF Templates!ReadZones, Templates!Read
  <2>3. old.policies = Templates!NoPolicies BY <1>4 DEF Templates!ReadZones, Templates!Read, TemplateInv, SnapshotInv
  <2> HIDE DEF new
  <2> QED BY <1>0, <2>1, <2>2, <2>3, <1>1, SnapshotStep DEF TemplateInv
<1>5. CASE Templates!ReadPolicies(s)
  <2> DEFINE torn == Templates!Torn(s, "zones", old.zones, source.zones)
             new == [old EXCEPT !.policies = source.policies, !.torn = torn]
  <2>1. /\ DOMAIN new = DOMAIN old /\ new.policies = source.policies
        /\ new.zones = old.zones /\ new.torn = torn
    BY <1>0
  <2>2. sess' = [sess EXCEPT ![s] = [at |-> "policies", snapshot |-> new]] BY <1>5 DEF Templates!ReadPolicies, Templates!Read
  <2>3. "zones" \notin torn => old.zones = source.zones BY DEF Templates!Torn
  <2> HIDE DEF new, torn
  <2>4. Whole(new) BY <2>1, <2>3 DEF TemplateInv, Whole, Within
  <2> QED BY <1>0, <2>1, <2>2, <2>4, <1>1, SnapshotStep DEF TemplateInv
<1>6. CASE Templates!Fails(s)
  BY <1>1, <1>6, SnapshotStep DEF Templates!Fails, Templates!Finish, Templates!Idle, Templates!Unread, TemplateInv
<1> QED BY <1>2, <1>3, <1>4, <1>5, <1>6

\* A copy of a whole snapshot keeps it as its history.
LEMMA CloneStep ==
    ASSUME TemplateInv, NEW c \in Copies, NEW snapshot, Whole(snapshot), Templates!Create(c, snapshot),
           UNCHANGED template
    PROVE  DOMAIN copy' = Copies /\ KeptInv'
<1>1. copy' = [copy EXCEPT ![c] = Templates!Clone(snapshot)] BY DEF Templates!Create
<1>2. Templates!Clone(snapshot).of = snapshot BY DEF Templates!Clone
<1>3. /\ DOMAIN copy' = Copies /\ copy'[c] = Templates!Clone(snapshot)
      /\ \A d \in Copies \ {c} : copy'[d] = copy[d]
  BY <1>1 DEF TemplateInv, TemplateShape
<1> QED BY <1>2, <1>3 DEF TemplateInv, KeptInv

\* Templates and copies are made of whole snapshots.
LEMMA CopyStep ==
    ASSUME TemplateInv,
           \/ Templates!ArchiveTemplate \/ Templates!DeleteTemplate
           \/ \E s \in Sessions : Templates!CreateTemplate(s) \/ \E c \in Copies : Templates!DuplicateEvent(s, c)
           \/ \E c \in Copies : Templates!CreateFromTemplate(c)
    PROVE  TemplateInv'
<1>1. CASE Templates!ArchiveTemplate
  <2>1. template # Templates!NoTemplate /\ Whole(template.snapshot) BY <1>1 DEF Templates!ArchiveTemplate, TemplateInv, KeptInv
  <2>2. template'.snapshot = template.snapshot BY <1>1 DEF Templates!ArchiveTemplate
  <2> QED BY <1>1, <2>1, <2>2 DEF Templates!ArchiveTemplate, TemplateInv, TemplateShape, SnapshotInv, KeptInv
<1>2. CASE Templates!DeleteTemplate
  BY <1>2 DEF Templates!DeleteTemplate, TemplateInv, TemplateShape, SnapshotInv, KeptInv
<1>3. ASSUME NEW s \in Sessions, Templates!CreateTemplate(s) PROVE TemplateInv'
  <2>1. Whole(sess[s].snapshot) BY <1>3 DEF Templates!CreateTemplate, TemplateInv, SnapshotInv
  <2>2. template'.snapshot = sess[s].snapshot /\ UNCHANGED <<source, copy>>
    BY <1>3 DEF Templates!CreateTemplate
  <2>3. DOMAIN copy' = Copies BY <2>2 DEF TemplateInv, TemplateShape
  <2>4. TemplateShape' /\ (\A w \in Sessions : SnapshotInv(w)') /\ Within(source.policies, source.zones)'
    BY <1>3, <2>3, SnapshotStep DEF Templates!CreateTemplate, Templates!Finish, Templates!Idle, Templates!Unread
  <2> QED BY <2>1, <2>2, <2>4 DEF TemplateInv, KeptInv
<1>4. ASSUME NEW s \in Sessions, NEW c \in Copies, Templates!DuplicateEvent(s, c) PROVE TemplateInv'
  <2>1. Whole(sess[s].snapshot) BY <1>4 DEF Templates!DuplicateEvent, TemplateInv, SnapshotInv
  <2>2. UNCHANGED <<source, template>> /\ Templates!Create(c, sess[s].snapshot) BY <1>4 DEF Templates!DuplicateEvent
  <2>3. DOMAIN copy' = Copies /\ KeptInv' BY <2>1, <2>2, CloneStep
  <2>4. TemplateShape' /\ (\A w \in Sessions : SnapshotInv(w)') /\ Within(source.policies, source.zones)'
    BY <1>4, <2>3, SnapshotStep DEF Templates!DuplicateEvent, Templates!Finish, Templates!Idle, Templates!Unread
  <2> QED BY <2>3, <2>4 DEF TemplateInv
<1>5. ASSUME NEW c \in Copies, Templates!CreateFromTemplate(c) PROVE TemplateInv'
  <2>1. Whole(template.snapshot) BY <1>5 DEF Templates!CreateFromTemplate, TemplateInv, KeptInv
  <2>2. UNCHANGED <<source, template, sess>> /\ Templates!Create(c, template.snapshot) BY <1>5 DEF Templates!CreateFromTemplate
  <2>3. DOMAIN copy' = Copies /\ KeptInv' BY <2>1, <2>2, CloneStep
  <2> QED BY <2>2, <2>3 DEF TemplateInv, TemplateShape, SnapshotInv
<1> QED BY <1>1, <1>2, <1>3, <1>4, <1>5

\* Every step keeps the invariant.
LEMMA TemplateStep == TemplateInv /\ [Templates!Next]_Templates!vars => TemplateInv'
<1> SUFFICES ASSUME TemplateInv, [Templates!Next]_Templates!vars PROVE TemplateInv' OBVIOUS
<1>1. CASE UNCHANGED Templates!vars
  BY <1>1 DEF Templates!vars, TemplateInv, TemplateShape, SnapshotInv, KeptInv
<1>2. CASE Templates!Next BY <1>2, ConfigurationStep, SnapshotRead, CopyStep DEF Templates!Next
<1> QED BY <1>1, <1>2

\* A policy that restricts its tickets to some zones still does in every copy,
\* unless a zone was created between two statements of the snapshot.
THEOREM CopiesStayRestricted == Templates!Spec => []Templates!CopyStaysRestricted
<1> QED BY InitTemplate, TemplateStep, CopyRestricted, PTL DEF Templates!Spec

-----------------------------------------------------------------------------
(* Cover images and the gallery: StoredFiles.                              *)

Uploading == [op : {"uploaded"}, old : Keys \cup {NoKey}, key : Keys]
Filing == [op : {"filed"}, key : Keys]
Ending == [op : {"set", "remove", "clean"}, old : Keys \cup {NoKey}]
Publishing == [op : {"publish"}, copy : Files!Item]
FileRequests == {Files!Idle} \cup Ending \cup Uploading \cup Filing \cup Publishing

\* A request that has stored an object and not committed it.
PendingFile(s) == sess[s].op \in {"uploaded", "filed"}
\* A request that knows the image it replaces or removes.
KnowsOld(s) == sess[s].op \in {"set", "remove", "clean", "uploaded"}

\* An object that waits for its commit is stored, and nothing refers to it: no
\* row, no other upload, and no request that is going to remove an image.
PendingIsFresh ==
    \A s \in Sessions : PendingFile(s) =>
        /\ object[sess[s].key] = "stored"
        /\ image # sess[s].key /\ item.key # sess[s].key
        /\ \A w \in Sessions : KnowsOld(w) => sess[w].old # sess[s].key
        /\ \A w \in Sessions \ {s} : PendingFile(w) => sess[w].key # sess[s].key

\* What is about to be removed is not shown any more, and never will be: an
\* image that was replaced is known by its key, which no upload uses again.
OldIsGone ==
    \A s \in Sessions : KnowsOld(s) =>
        /\ sess[s].old # NoKey => object[sess[s].old] # "unused"
        /\ item.key # NoKey => sess[s].old # item.key
        /\ sess[s].op = "clean" => sess[s].old # NoKey /\ sess[s].old # image

\* The gallery never shows the cover's object, and a seen of its row has its key.
KeysApart ==
    /\ image # NoKey => item.key # image
    /\ item = Files!NoItem \/ item.key # NoKey
    /\ \A s \in Sessions : sess[s].op = "publish" => item # Files!NoItem /\ sess[s].copy.key = item.key

FilesInv == Files!TypeOK /\ Files!ShownIsStored /\ PendingIsFresh /\ OldIsGone /\ KeysApart

\* What is known of a request from what it does.
LEMMA FileHeld ==
    ASSUME Files!TypeOK, NEW s \in Sessions
    PROVE  /\ sess[s] \in FileRequests
           /\ sess[s].op \in {"uploaded", "filed"} => sess[s].key \in Keys
           /\ KnowsOld(s) => sess[s].old \in Keys \cup {NoKey}
           /\ sess[s].op = "publish" => sess[s].copy \in Files!Item
           /\ sess[s] = Files!Idle => ~PendingFile(s) /\ ~KnowsOld(s) /\ sess[s].op # "publish"
<1>1. sess[s] \in FileRequests
  BY DEF Files!TypeOK, FileRequests, Ending, Uploading, Filing, Publishing
<1> QED BY <1>1 DEF FileRequests, Files!Idle, Ending, Uploading, Filing, Publishing, PendingFile, KnowsOld

\* A step of one request.
LEMMA FileGoes ==
    ASSUME Files!TypeOK, NEW s \in Sessions, NEW next \in FileRequests, Files!Go(s, next)
    PROVE  /\ sess'[s] = next
           /\ \A w \in Sessions \ {s} : sess'[w] = sess[w]
           /\ sess' \in [Sessions ->
                    {Files!Idle}
                    \cup [op : {"set", "remove", "clean"}, old : Keys \cup {NoKey}]
                    \cup [op : {"uploaded"}, old : Keys \cup {NoKey}, key : Keys]
                    \cup [op : {"filed"}, key : Keys]
                    \cup [op : {"publish"}, copy : Files!Item]]
BY DEF Files!TypeOK, Files!Go, FileRequests, Ending, Uploading, Filing, Publishing

\* Nothing is stored or shown at first.
LEMMA InitFiles == Files!Init => FilesInv
BY DEF Files!Init, FilesInv, Files!TypeOK, Files!ShownIsStored, PendingIsFresh, OldIsGone, KeysApart, PendingFile, KnowsOld,
       Files!Idle, Files!NoItem, Files!Item

\* A request ends, or goes on without having stored anything: what it knows is
\* the image, which is stored.
LEMMA FileEnds ==
    ASSUME FilesInv, NEW s \in Sessions,
           Files!Fails(s) \/ Files!BeginPublish(s) \/ \E op \in {"set", "remove"} : Files!BeginImage(s, op)
    PROVE  FilesInv'
<1> USE DEF FilesInv
<1>1. CASE Files!Fails(s)
  <2>1. Files!Go(s, Files!Idle) /\ Files!Idle \in FileRequests /\ UNCHANGED <<image, item, object>>
    BY <1>1 DEF Files!Fails, FileRequests
  <2> QED BY <2>1, FileGoes DEF Files!TypeOK, Files!ShownIsStored, PendingIsFresh, OldIsGone, KeysApart, PendingFile, KnowsOld, Files!Idle
<1>2. CASE Files!BeginPublish(s)
  <2> DEFINE next == [op |-> "publish", copy |-> item]
  <2>1. Files!Go(s, next) /\ next \in FileRequests /\ UNCHANGED <<image, item, object>> /\ item # Files!NoItem
    BY <1>2 DEF Files!BeginPublish, FileRequests, Publishing, Files!TypeOK
  <2>2. next.op = "publish" /\ next.copy = item OBVIOUS
  <2> HIDE DEF next
  <2> QED BY <2>1, <2>2, FileGoes DEF Files!TypeOK, Files!ShownIsStored, PendingIsFresh, OldIsGone, KeysApart, PendingFile, KnowsOld
<1>3. ASSUME NEW op \in {"set", "remove"}, Files!BeginImage(s, op) PROVE FilesInv'
  <2> DEFINE next == [op |-> op, old |-> image]
  <2>1. Files!Go(s, next) /\ next \in FileRequests /\ UNCHANGED <<image, item, object>>
    BY <1>3 DEF Files!BeginImage, FileRequests, Ending, Files!TypeOK
  <2>2. next.op \in {"set", "remove"} /\ next.old = image OBVIOUS
  <2> HIDE DEF next
  <2> QED BY <2>1, <2>2, FileGoes DEF Files!TypeOK, Files!ShownIsStored, PendingIsFresh, OldIsGone, KeysApart, PendingFile, KnowsOld
<1> QED BY <1>1, <1>2, <1>3

\* A fresh object is stored; nothing can refer to it yet.
LEMMA FileStored ==
    ASSUME FilesInv, NoKey \notin Keys, NEW s \in Sessions, NEW k \in Keys,
           Files!UploadImage(s, k) \/ Files!UploadItem(s, k)
    PROVE  FilesInv'
<1> USE DEF FilesInv
<1>1. /\ object[k] = "unused" /\ object' = [object EXCEPT ![k] = "stored"]
      /\ UNCHANGED <<image, item>>
  BY DEF Files!UploadImage, Files!UploadItem, Files!Store
<1>2. /\ image # k /\ item.key # k
      /\ \A w \in Sessions : KnowsOld(w) => sess[w].old # k
      /\ \A w \in Sessions : PendingFile(w) => sess[w].key # k
  BY <1>1, FileHeld DEF Files!ShownIsStored, PendingIsFresh, OldIsGone, Files!TypeOK
<1>3. /\ object' \in [Keys -> {"unused", "stored", "removed"}] /\ object'[k] = "stored"
      /\ \A l \in Keys \ {k} : object'[l] = object[l]
  BY <1>1 DEF Files!TypeOK
<1>4. \E next \in FileRequests :
        /\ Files!Go(s, next) /\ next.key = k /\ next.op \in {"uploaded", "filed"}
        /\ next.op = "uploaded" => KnowsOld(s) /\ next.old = sess[s].old
  <2>1. CASE Files!UploadImage(s, k)
    <3> DEFINE next == [op |-> "uploaded", old |-> sess[s].old, key |-> k]
    <3>1. KnowsOld(s) BY <2>1 DEF Files!UploadImage, KnowsOld
    <3>2. next \in FileRequests BY <3>1, FileHeld DEF FileRequests, Uploading
    <3> QED BY <2>1, <3>1, <3>2 DEF Files!UploadImage
  <2>2. CASE Files!UploadItem(s, k)
    <3> DEFINE next == [op |-> "filed", key |-> k]
    <3>1. next \in FileRequests BY DEF FileRequests, Filing
    <3> QED BY <2>2, <3>1 DEF Files!UploadItem
  <2> QED BY <2>1, <2>2
<1>5. PICK next \in FileRequests :
        /\ Files!Go(s, next) /\ next.key = k /\ next.op \in {"uploaded", "filed"}
        /\ next.op = "uploaded" => KnowsOld(s) /\ next.old = sess[s].old
  BY <1>4
<1>6. Files!TypeOK' BY <1>1, <1>3, <1>5, FileGoes DEF Files!TypeOK
<1>7. Files!ShownIsStored' BY <1>1, <1>2, <1>3 DEF Files!ShownIsStored, Files!TypeOK
<1>8. PendingIsFresh'
  BY <1>1, <1>2, <1>3, <1>5, FileGoes, FileHeld DEF PendingIsFresh, PendingFile, KnowsOld
<1>9. OldIsGone'
  BY <1>1, <1>2, <1>3, <1>5, FileGoes, FileHeld DEF OldIsGone, PendingFile, KnowsOld
<1>10. KeysApart' BY <1>1, <1>5, FileGoes DEF KeysApart
<1> QED BY <1>6, <1>7, <1>8, <1>9, <1>10

\* The cover image becomes another one, or none; the old one is removed later.
LEMMA ImageStep ==
    ASSUME FilesInv, NoKey \notin Keys, NEW s \in Sessions, Files!CommitImage(s) \/ Files!CommitRemoval(s)
    PROVE  FilesInv'
<1> USE DEF FilesInv
<1> DEFINE old == sess[s].old  next == Files!AfterCommit(s)
<1>1. KnowsOld(s) /\ old \in Keys \cup {NoKey}
  BY FileHeld DEF Files!CommitImage, Files!CommitRemoval, KnowsOld
<1>2. next \in FileRequests /\ Files!Go(s, next) /\ UNCHANGED <<item, object>>
  BY <1>1 DEF Files!AfterCommit, FileRequests, Ending, Files!CommitImage, Files!CommitRemoval
<1>3. next = Files!Idle \/ (next.op = "clean" /\ next.old = old /\ old # NoKey)
  BY DEF Files!AfterCommit
<1>4. \/ image' = NoKey
      \/ PendingFile(s) /\ sess[s].key \in Keys /\ image' = sess[s].key
  BY FileHeld DEF Files!CommitImage, Files!CommitRemoval, PendingFile
<1>5. /\ image' # NoKey => object[image'] = "stored" /\ item.key # image'
      /\ image' \in Keys \cup {NoKey}
      /\ \A w \in Sessions : KnowsOld(w) /\ sess[w].old # NoKey => sess[w].old # image'
      /\ \A w \in Sessions \ {s} : PendingFile(w) => sess[w].key # image'
  BY <1>4, FileHeld DEF PendingIsFresh, PendingFile
<1>6. ~KnowsOld(s)' \/ (sess'[s].op = "clean" /\ sess'[s].old = old /\ old # NoKey)
  BY <1>2, <1>3, FileGoes DEF KnowsOld, Files!Idle
<1>7. ~PendingFile(s)' /\ sess'[s].op # "publish"
  BY <1>2, <1>3, FileGoes DEF PendingFile, Files!Idle
<1>8. \A w \in Sessions \ {s} : sess'[w] = sess[w] /\ (KnowsOld(w)' <=> KnowsOld(w)) /\ (PendingFile(w)' <=> PendingFile(w))
  BY <1>2, FileGoes DEF KnowsOld, PendingFile
<1> HIDE DEF old, next
<1>9. Files!TypeOK' BY <1>2, <1>5, FileGoes DEF Files!TypeOK
<1>10. Files!ShownIsStored' BY <1>2, <1>5 DEF Files!ShownIsStored
<1>11. PendingIsFresh' BY <1>1, <1>2, <1>5, <1>6, <1>7, <1>8 DEF PendingIsFresh, old
<1>12. OldIsGone' BY <1>1, <1>2, <1>5, <1>6, <1>8 DEF OldIsGone, KnowsOld, old
<1>13. KeysApart' BY <1>2, <1>5, <1>7, <1>8 DEF KeysApart
<1> QED BY <1>9, <1>10, <1>11, <1>12, <1>13

\* What is removed is shown nowhere and will not be.
LEMMA FileRemoved ==
    ASSUME FilesInv, NoKey \notin Keys, NEW s \in Sessions, Files!RemoveOld(s)
    PROVE  FilesInv'
<1> USE DEF FilesInv
<1> DEFINE old == sess[s].old
<1>1. KnowsOld(s) /\ old \in Keys /\ old # image /\ old # NoKey
  BY FileHeld DEF Files!RemoveOld, KnowsOld, OldIsGone
<1>2. /\ Files!Go(s, Files!Idle) /\ Files!Idle \in FileRequests /\ UNCHANGED <<image, item>>
      /\ object' = [object EXCEPT ![old] = "removed"]
  BY DEF Files!RemoveOld, Files!Delete, FileRequests
<1>3. /\ object' \in [Keys -> {"unused", "stored", "removed"}]
      /\ object'[old] = "removed"
      /\ \A l \in Keys \ {old} : object'[l] = object[l]
  BY <1>1, <1>2 DEF Files!TypeOK
<1>4. /\ item.key # NoKey => item.key # old
      /\ \A w \in Sessions : PendingFile(w) => sess[w].key # old
  BY <1>1 DEF OldIsGone, PendingIsFresh
<1>5. ~KnowsOld(s)' /\ ~PendingFile(s)' /\ sess'[s].op # "publish"
  BY <1>2, FileGoes DEF KnowsOld, PendingFile, Files!Idle
<1>6. \A w \in Sessions \ {s} : sess'[w] = sess[w] /\ (KnowsOld(w)' <=> KnowsOld(w)) /\ (PendingFile(w)' <=> PendingFile(w))
  BY <1>2, FileGoes DEF KnowsOld, PendingFile
<1> HIDE DEF old
<1>7. Files!TypeOK' BY <1>2, <1>3, FileGoes DEF Files!TypeOK
<1>8. Files!ShownIsStored' BY <1>1, <1>2, <1>3, <1>4 DEF Files!ShownIsStored, Files!TypeOK, Files!Item
<1>9. PendingIsFresh' BY <1>2, <1>3, <1>4, <1>5, <1>6, FileHeld DEF PendingIsFresh, PendingFile
<1>10. OldIsGone' BY <1>1, <1>2, <1>3, <1>5, <1>6, FileHeld DEF OldIsGone, KnowsOld
<1>11. KeysApart' BY <1>2, <1>5, <1>6 DEF KeysApart
<1> QED BY <1>7, <1>8, <1>9, <1>10, <1>11

\* An item of the gallery is filed once; publishing it keeps its key.
LEMMA ItemStep ==
    ASSUME FilesInv, NoKey \notin Keys, NEW s \in Sessions,
           Files!CommitItem(s) \/ \E m \in Managers, published \in BOOLEAN : Files!CommitPublish(s, m, published)
    PROVE  FilesInv'
<1> USE DEF FilesInv
<1>1. Files!Go(s, Files!Idle) /\ Files!Idle \in FileRequests /\ UNCHANGED <<image, object>>
  BY DEF Files!CommitItem, Files!CommitPublish, FileRequests
<1>2. ~KnowsOld(s)' /\ ~PendingFile(s)' /\ sess'[s].op # "publish"
  BY <1>1, FileGoes DEF KnowsOld, PendingFile, Files!Idle
<1>3. \A w \in Sessions \ {s} : sess'[w] = sess[w] /\ (KnowsOld(w)' <=> KnowsOld(w)) /\ (PendingFile(w)' <=> PendingFile(w))
  BY <1>1, FileGoes DEF KnowsOld, PendingFile
<1>4. CASE Files!CommitItem(s)
  <2>1. PendingFile(s) /\ sess[s].key \in Keys /\ item = Files!NoItem
    BY <1>4, FileHeld DEF Files!CommitItem, PendingFile
  <2>2. item'.key = sess[s].key /\ item' \in Files!Item
    BY <1>4, <2>1 DEF Files!CommitItem, Files!NoItem, Files!Item
  <2>3. Files!TypeOK' BY <1>1, <2>2, FileGoes DEF Files!TypeOK
  <2>4. Files!ShownIsStored' BY <1>1, <2>1, <2>2 DEF Files!ShownIsStored, PendingIsFresh
  <2>5. PendingIsFresh' BY <1>1, <1>2, <1>3, <2>1, <2>2 DEF PendingIsFresh
  <2>6. OldIsGone' BY <1>1, <1>2, <1>3, <2>1, <2>2 DEF OldIsGone, PendingIsFresh, KnowsOld
  <2>7. KeysApart' BY <1>1, <1>2, <1>3, <2>1, <2>2 DEF KeysApart, PendingIsFresh
  <2> QED BY <2>3, <2>4, <2>5, <2>6, <2>7
<1>5. ASSUME NEW m \in Managers, NEW published \in BOOLEAN, Files!CommitPublish(s, m, published)
      PROVE  FilesInv'
  <2> DEFINE seen == sess[s].copy
             new == [seen EXCEPT !.published = published, !.by = IF published THEN m ELSE Nobody]
  <2>1. sess[s].op = "publish" /\ item' = Files!Written(item, seen, new)
    BY <1>5 DEF Files!CommitPublish
  <2>2. seen \in Files!Item /\ item \in Files!Item /\ seen.key = item.key /\ item.key # NoKey
    BY <2>1, FileHeld DEF KeysApart, Files!TypeOK
  <2>3. new \in Files!Item /\ new.key = seen.key BY <2>2 DEF Files!Item
  <2>4. item' \in Files!Item /\ item'.key = item.key
    BY <2>1, <2>2, <2>3 DEF Files!Written, Files!Item
  <2>5. item' # Files!NoItem BY <2>2, <2>4 DEF Files!NoItem
  <2> HIDE DEF seen, new
  <2>6. Files!TypeOK' BY <1>1, <2>4, FileGoes DEF Files!TypeOK
  <2>7. Files!ShownIsStored' /\ PendingIsFresh' /\ OldIsGone' /\ KeysApart'
    BY <1>1, <1>2, <1>3, <2>2, <2>4, <2>5 DEF Files!ShownIsStored, PendingIsFresh, OldIsGone, KeysApart, KnowsOld
  <2> QED BY <2>6, <2>7
<1> QED BY <1>4, <1>5

\* Every step keeps the invariant.
LEMMA FilesStep == ASSUME NoKey \notin Keys, FilesInv, [Files!Next]_Files!vars PROVE FilesInv'
<1>1. CASE UNCHANGED Files!vars
  BY <1>1 DEF Files!vars, FilesInv, Files!TypeOK, Files!ShownIsStored, PendingIsFresh, OldIsGone, KeysApart, PendingFile, KnowsOld
<1>2. CASE Files!Next BY <1>2, FileEnds, FileStored, ImageStep, FileRemoved, ItemStep DEF Files!Next
<1> QED BY <1>1, <1>2

\* The cover image and the gallery refer to stored objects, whatever requests
\* overlap or fail between the object store and the database.
THEOREM ShownAreStored == ASSUME NoKey \notin Keys PROVE Files!Spec => []Files!ShownIsStored
<1>1. FilesInv /\ [Files!Next]_Files!vars => FilesInv' BY FilesStep
<1>2. FilesInv => Files!ShownIsStored BY DEF FilesInv
<1> QED BY <1>1, <1>2, InitFiles, PTL DEF Files!Spec

-----------------------------------------------------------------------------
(* Copies of events keep their venues: EventTemplates.                     *)

\* Every item takes place at one of the venues, at a borrowed one or at none.
Sited(plan, places) == \A i \in DOMAIN plan : plan[i] \in places \cup Borrowed \cup {NoVenue}

\* A snapshot whose venues did not change while it was taken has the venues of its items.
Located(snapshot) == "venues" \in snapshot.torn \/ Sited(snapshot.items, snapshot.venues)

\* What was taken of the event is located, and a copy has the items of its snapshot.
SiteInv ==
    /\ Templates!TypeOK
    /\ DOMAIN sess = Sessions /\ DOMAIN copy = Copies
    /\ Sited(source.items, source.venues)
    /\ \A s \in Sessions : Located(sess[s].snapshot)
    /\ template # Templates!NoTemplate => Located(template.snapshot)
    /\ \A c \in Copies : copy[c] # Templates!NoCopy =>
          Located(copy[c].of) /\ copy[c].items = Templates!Clone(copy[c].of).items

LEMMA CopySited == SiteInv => Templates!CopyKeepsVenues
<1> SUFFICES ASSUME SiteInv, NEW c \in Copies, copy[c] # Templates!NoCopy, NEW i \in DOMAIN copy[c].items,
                    copy[c].of.items[i] \notin Borrowed, "venues" \notin copy[c].of.torn
             PROVE  copy[c].items[i] = copy[c].of.items[i]
  BY DEF Templates!CopyKeepsVenues
<1>1. PICK of : of = copy[c].of OBVIOUS
<1>2. Sited(of.items, of.venues) BY <1>1 DEF SiteInv, Located
<1>3. copy[c].items = [j \in DOMAIN of.items |-> IF of.items[j] \in of.venues THEN of.items[j] ELSE NoVenue]
  BY <1>1 DEF SiteInv, Templates!Clone
<1>4. i \in DOMAIN of.items BY <1>3
<1>5. copy[c].items[i] = IF of.items[i] \in of.venues THEN of.items[i] ELSE NoVenue BY <1>3, <1>4
<1>6. of.items[i] \in of.venues \/ of.items[i] = NoVenue BY <1>1, <1>2, <1>4 DEF Sited
<1> QED BY <1>1, <1>5, <1>6

LEMMA EmptySnapshot == Templates!Unread \in Templates!Snapshots /\ Located(Templates!Unread)
<1> DEFINE none == [i \in {} |-> NoVenue]
<1>1. none \in [{} -> Venues \cup {NoVenue}] OBVIOUS
<1>2. none \in Templates!Schedules BY <1>1 DEF Templates!Schedules
<1>3. Templates!NoPolicies \in Templates!Policies BY DEF Templates!NoPolicies, Templates!Policies
<1>4. Templates!Unread = [venues |-> {}, items |-> none, zones |-> {}, policies |-> Templates!NoPolicies, torn |-> {}]
  BY DEF Templates!Unread
<1>5. DOMAIN none = {} OBVIOUS
<1> HIDE DEF none
<1>6. Templates!Unread \in Templates!Snapshots BY <1>2, <1>3, <1>4 DEF Templates!Snapshots
<1>7. Located(Templates!Unread) BY <1>4, <1>5 DEF Located, Sited
<1> QED BY <1>6, <1>7

LEMMA SitesStart == Templates!Init => SiteInv
<1> SUFFICES ASSUME Templates!Init PROVE SiteInv OBVIOUS
<1>1. PICK none : none = [i \in {} |-> NoVenue] OBVIOUS
<1>2. none \in [{} -> Venues \cup {NoVenue}] /\ DOMAIN none = {} BY <1>1
<1>3. none \in Templates!Schedules BY <1>2 DEF Templates!Schedules
<1>4. Templates!NoPolicies \in Templates!Policies BY DEF Templates!NoPolicies, Templates!Policies
<1>5. source = [venues |-> {}, items |-> none, zones |-> {}, policies |-> Templates!NoPolicies, deleted |-> FALSE]
  BY <1>1 DEF Templates!Init
<1>6. /\ template = Templates!NoTemplate /\ copy = [c \in Copies |-> Templates!NoCopy]
      /\ sess = [s \in Sessions |-> Templates!Idle]
  BY DEF Templates!Init
<1>7. \A s \in Sessions : sess[s].at = "idle" /\ sess[s].snapshot = Templates!Unread BY <1>6 DEF Templates!Idle
<1>8. Templates!TypeOK BY <1>3, <1>4, <1>5, <1>6, <1>7, EmptySnapshot DEF Templates!TypeOK
<1>9. Sited(source.items, source.venues) BY <1>2, <1>5 DEF Sited
<1> QED BY <1>6, <1>7, <1>8, <1>9, EmptySnapshot DEF SiteInv

\* The event may be configured as long as its items take place at its venues.
LEMMA SiteConfigured ==
    ASSUME SiteInv, NEW new, Templates!Configure(new),
           DOMAIN new = {"venues", "items", "zones", "policies", "deleted"},
           new.venues \subseteq Venues \ Borrowed, new.items \in Templates!Schedules, new.zones \subseteq Zones,
           new.policies \in Templates!Policies, Sited(new.items, new.venues)
    PROVE  SiteInv'
<1>1. source' = new /\ template' = template /\ copy' = copy /\ sess' = sess BY DEF Templates!Configure
<1>2. Templates!TypeOK' BY <1>1 DEF SiteInv, Templates!TypeOK
<1> QED BY <1>1, <1>2 DEF SiteInv

LEMMA SiteConfiguration ==
    ASSUME SiteInv,
           \/ \E v \in Venues \ Borrowed : Templates!AddVenue(v)
           \/ \E i \in Items : Templates!CancelItem(i) \/ \E v \in Venues \cup {NoVenue} : Templates!Schedule(i, v)
           \/ \E z \in Zones : Templates!CreateZone(z)
           \/ \E t \in Types, allowed \in SUBSET Zones : Templates!UpsertPolicy(t, allowed)
           \/ Templates!DeleteEvent
    PROVE  SiteInv'
<1>0. /\ DOMAIN source = {"venues", "items", "zones", "policies", "deleted"}
      /\ source.venues \subseteq Venues \ Borrowed /\ source.items \in Templates!Schedules /\ source.zones \subseteq Zones
      /\ source.policies \in Templates!Policies /\ Sited(source.items, source.venues)
  BY DEF SiteInv, Templates!TypeOK
<1>1. PICK I \in SUBSET Items : source.items \in [I -> Venues \cup {NoVenue}] BY <1>0 DEF Templates!Schedules
<1>2. ASSUME NEW v \in Venues \ Borrowed, Templates!AddVenue(v) PROVE SiteInv'
  <2> DEFINE new == [source EXCEPT !.venues = @ \cup {v}]
  <2>1. /\ DOMAIN new = DOMAIN source /\ new.items = source.items /\ new.policies = source.policies
        /\ new.zones = source.zones /\ new.venues = source.venues \cup {v}
    BY <1>0
  <2>2. Templates!Configure(new) BY <1>2 DEF Templates!AddVenue
  <2> HIDE DEF new
  <2>3. Sited(new.items, new.venues) BY <1>0, <2>1 DEF Sited
  <2>4. new.venues \subseteq Venues \ Borrowed BY <1>0, <2>1
  <2> QED BY <1>0, <2>1, <2>2, <2>3, <2>4, SiteConfigured
<1>3. ASSUME NEW i \in Items, Templates!CancelItem(i) PROVE SiteInv'
  <2>1. PICK plan : plan = [j \in I \ {i} |-> source.items[j]] OBVIOUS
  <2>2. plan \in [I \ {i} -> Venues \cup {NoVenue}] BY <1>1, <2>1
  <2>3. plan \in Templates!Schedules BY <2>2 DEF Templates!Schedules
  <2> DEFINE new == [source EXCEPT !.items = plan]
  <2>4. /\ DOMAIN new = DOMAIN source /\ new.items = plan /\ new.policies = source.policies
        /\ new.zones = source.zones /\ new.venues = source.venues
    BY <1>0
  <2>5. Templates!Configure(new) BY <1>0, <1>1, <1>3, <2>1 DEF Templates!CancelItem
  <2> HIDE DEF new
  <2>6. Sited(new.items, new.venues) BY <1>0, <1>1, <2>1, <2>4 DEF Sited
  <2> QED BY <1>0, <2>3, <2>4, <2>5, <2>6, SiteConfigured
<1>4. ASSUME NEW i \in Items, NEW v \in Venues \cup {NoVenue}, Templates!Schedule(i, v) PROVE SiteInv'
  <2>1. PICK plan : plan = [j \in I \cup {i} |-> IF j = i THEN v ELSE source.items[j]] OBVIOUS
  <2>2. plan \in [I \cup {i} -> Venues \cup {NoVenue}] BY <1>1, <2>1
  <2>3. plan \in Templates!Schedules BY <2>2 DEF Templates!Schedules
  <2> DEFINE new == [source EXCEPT !.items = plan]
  <2>4. /\ DOMAIN new = DOMAIN source /\ new.items = plan /\ new.policies = source.policies
        /\ new.zones = source.zones /\ new.venues = source.venues
    BY <1>0
  <2>5. Templates!Configure(new) /\ v \in source.venues \cup Borrowed \cup {NoVenue}
    BY <1>0, <1>1, <1>4, <2>1 DEF Templates!Schedule
  <2> HIDE DEF new
  <2>6. Sited(new.items, new.venues) BY <1>0, <1>1, <2>1, <2>4, <2>5 DEF Sited
  <2> QED BY <1>0, <2>3, <2>4, <2>5, <2>6, SiteConfigured
<1>5. ASSUME NEW z \in Zones, Templates!CreateZone(z) PROVE SiteInv'
  <2> DEFINE new == [source EXCEPT !.zones = @ \cup {z}]
  <2>1. /\ DOMAIN new = DOMAIN source /\ new.items = source.items /\ new.policies = source.policies
        /\ new.zones = source.zones \cup {z} /\ new.venues = source.venues
    BY <1>0
  <2>2. Templates!Configure(new) BY <1>5 DEF Templates!CreateZone
  <2> HIDE DEF new
  <2>3. new.zones \subseteq Zones BY <1>0, <2>1
  <2> QED BY <1>0, <2>1, <2>2, <2>3, SiteConfigured
<1>6. ASSUME NEW t \in Types, NEW allowed \in SUBSET Zones, Templates!UpsertPolicy(t, allowed) PROVE SiteInv'
  <2> DEFINE new == [source EXCEPT !.policies[t] = allowed]
  <2>1. /\ DOMAIN new = DOMAIN source /\ new.items = source.items
        /\ new.policies = [source.policies EXCEPT ![t] = allowed]
        /\ new.zones = source.zones /\ new.venues = source.venues
    BY <1>0
  <2>2. Templates!Configure(new) BY <1>6 DEF Templates!UpsertPolicy
  <2> HIDE DEF new
  <2>3. new.policies \in Templates!Policies BY <1>0, <2>1 DEF Templates!Policies
  <2> QED BY <1>0, <2>1, <2>2, <2>3, SiteConfigured
<1>7. ASSUME Templates!DeleteEvent PROVE SiteInv'
  <2> DEFINE new == [source EXCEPT !.deleted = TRUE]
  <2>1. /\ DOMAIN new = DOMAIN source /\ new.items = source.items /\ new.policies = source.policies
        /\ new.zones = source.zones /\ new.venues = source.venues
    BY <1>0
  <2>2. Templates!Configure(new) BY <1>7 DEF Templates!DeleteEvent
  <2> HIDE DEF new
  <2> QED BY <1>0, <2>1, <2>2, SiteConfigured
<1> QED BY <1>2, <1>3, <1>4, <1>5, <1>6, <1>7

\* A request goes on to a located snapshot.
LEMMA SiteTaken ==
    ASSUME SiteInv, NEW s \in Sessions, NEW stage \in {"idle", "venues", "items", "zones", "policies"},
           NEW snapshot \in Templates!Snapshots, Located(snapshot),
           sess' = [sess EXCEPT ![s] = [at |-> stage, snapshot |-> snapshot]]
    PROVE  /\ \A w \in Sessions : /\ sess'[w].at \in {"idle", "venues", "items", "zones", "policies"}
                                  /\ sess'[w].snapshot \in Templates!Snapshots /\ Located(sess'[w].snapshot)
           /\ DOMAIN sess' = Sessions
<1>1. /\ DOMAIN sess' = Sessions /\ sess'[s] = [at |-> stage, snapshot |-> snapshot]
      /\ \A w \in Sessions : w # s => sess'[w] = sess[w]
  BY DEF SiteInv
<1>2. ASSUME NEW w \in Sessions
      PROVE  /\ sess'[w].at \in {"idle", "venues", "items", "zones", "policies"}
             /\ sess'[w].snapshot \in Templates!Snapshots /\ Located(sess'[w].snapshot)
  <2>1. CASE w = s
    <3>1. sess'[w].at = stage /\ sess'[w].snapshot = snapshot BY <1>1, <2>1
    <3> QED BY <3>1
  <2>2. CASE w # s
    <3>1. sess'[w] = sess[w] BY <1>1, <2>2
    <3> QED BY <3>1 DEF SiteInv, Templates!TypeOK
  <2> QED BY <2>1, <2>2
<1> QED BY <1>1, <1>2

\* One statement of a snapshot.
LEMMA SiteRead ==
    ASSUME SiteInv, NEW s \in Sessions,
           \/ Templates!ReadVenues(s) \/ Templates!ReadItems(s) \/ Templates!ReadZones(s)
           \/ Templates!ReadPolicies(s) \/ Templates!Fails(s)
    PROVE  SiteInv'
<1>0. /\ source.venues \subseteq Venues \ Borrowed /\ source.items \in Templates!Schedules
      /\ source.zones \subseteq Zones /\ source.policies \in Templates!Policies
      /\ Sited(source.items, source.venues)
  BY DEF SiteInv, Templates!TypeOK
<1>1. PICK old : old = sess[s].snapshot OBVIOUS
<1>2. old \in Templates!Snapshots /\ Located(old) BY <1>1 DEF SiteInv, Templates!TypeOK
<1>3. /\ old.venues \subseteq Venues /\ old.items \in Templates!Schedules /\ old.zones \subseteq Zones
      /\ old.policies \in Templates!Policies /\ old.torn \subseteq {"venues", "zones"}
      /\ DOMAIN old = {"venues", "items", "zones", "policies", "torn"}
  BY <1>2 DEF Templates!Snapshots
<1>4. ASSUME NEW stage \in {"idle", "venues", "items", "zones", "policies"}, NEW new \in Templates!Snapshots,
             Located(new), sess' = [sess EXCEPT ![s] = [at |-> stage, snapshot |-> new]],
             UNCHANGED <<source, template, copy>>
      PROVE  SiteInv'
  <2>1. /\ \A w \in Sessions : /\ sess'[w].at \in {"idle", "venues", "items", "zones", "policies"}
                               /\ sess'[w].snapshot \in Templates!Snapshots /\ Located(sess'[w].snapshot)
        /\ DOMAIN sess' = Sessions
    BY <1>4, SiteTaken
  <2>2. Templates!TypeOK' BY <1>4, <2>1 DEF SiteInv, Templates!TypeOK
  <2> QED BY <1>4, <2>1, <2>2 DEF SiteInv
<1>5. CASE Templates!ReadVenues(s)
  <2>1. PICK new : new = [Templates!Unread EXCEPT !.venues = source.venues] OBVIOUS
  <2>2. PICK none : none = Templates!Unread.items OBVIOUS
  <2>3. DOMAIN none = {} /\ none \in Templates!Schedules
    BY <2>2, EmptySnapshot DEF Templates!Unread, Templates!Snapshots
  <2>4. /\ new.venues = source.venues /\ new.items = none /\ new.zones = {} /\ new.torn = {}
        /\ new.policies = Templates!NoPolicies
        /\ DOMAIN new = {"venues", "items", "zones", "policies", "torn"}
    BY <2>1, <2>2 DEF Templates!Unread
  <2>5. new = [venues |-> source.venues, items |-> none, zones |-> {}, policies |-> Templates!NoPolicies,
               torn |-> {}]
    BY <2>1, <2>2 DEF Templates!Unread
  <2>6. Templates!NoPolicies \in Templates!Policies BY DEF Templates!NoPolicies, Templates!Policies
  <2>7. new \in Templates!Snapshots BY <1>0, <2>3, <2>5, <2>6 DEF Templates!Snapshots
  <2>8. Located(new) BY <2>3, <2>4 DEF Located, Sited
  <2>9. /\ sess' = [sess EXCEPT ![s] = [at |-> "venues", snapshot |-> new]] /\ UNCHANGED <<source, template, copy>>
    BY <1>5, <2>1 DEF Templates!ReadVenues, Templates!Read
  <2> QED BY <1>4, <2>7, <2>8, <2>9
<1>6. CASE Templates!ReadItems(s)
  <2>1. PICK torn : torn = Templates!Torn(s, "venues", old.venues, source.venues) OBVIOUS
  <2>2. torn \subseteq {"venues", "zones"} /\ ("venues" \in torn \/ old.venues = source.venues)
    BY <1>1, <1>3, <2>1 DEF Templates!Torn
  <2>3. PICK new : new = [old EXCEPT !.items = source.items, !.torn = torn] OBVIOUS
  <2>4. /\ new.venues = old.venues /\ new.items = source.items /\ new.torn = torn
        /\ new \in Templates!Snapshots
    BY <1>0, <1>2, <1>3, <2>2, <2>3 DEF Templates!Snapshots
  <2>5. Located(new) BY <1>0, <2>2, <2>4 DEF Located
  <2>6. /\ sess' = [sess EXCEPT ![s] = [at |-> "items", snapshot |-> new]] /\ UNCHANGED <<source, template, copy>>
    BY <1>1, <1>6, <2>1, <2>3 DEF Templates!ReadItems, Templates!Read
  <2> QED BY <1>4, <2>4, <2>5, <2>6
<1>7. CASE Templates!ReadZones(s)
  <2>1. PICK new : new = [old EXCEPT !.zones = source.zones] OBVIOUS
  <2>2. /\ new.venues = old.venues /\ new.items = old.items /\ new.torn = old.torn /\ new \in Templates!Snapshots
    BY <1>0, <1>2, <1>3, <2>1 DEF Templates!Snapshots
  <2>3. Located(new) BY <1>2, <2>2 DEF Located
  <2>4. /\ sess' = [sess EXCEPT ![s] = [at |-> "zones", snapshot |-> new]] /\ UNCHANGED <<source, template, copy>>
    BY <1>1, <1>7, <2>1 DEF Templates!ReadZones, Templates!Read
  <2> QED BY <1>4, <2>2, <2>3, <2>4
<1>8. CASE Templates!ReadPolicies(s)
  <2>1. PICK torn : torn = Templates!Torn(s, "zones", old.zones, source.zones) OBVIOUS
  <2>2. torn \subseteq {"venues", "zones"} /\ old.torn \subseteq torn
    BY <1>1, <1>3, <2>1 DEF Templates!Torn
  <2>3. PICK new : new = [old EXCEPT !.policies = source.policies, !.torn = torn] OBVIOUS
  <2>4. /\ new.venues = old.venues /\ new.items = old.items /\ new.torn = torn /\ new \in Templates!Snapshots
    BY <1>0, <1>2, <1>3, <2>2, <2>3 DEF Templates!Snapshots
  <2>5. Located(new) BY <1>2, <2>2, <2>4 DEF Located
  <2>6. /\ sess' = [sess EXCEPT ![s] = [at |-> "policies", snapshot |-> new]] /\ UNCHANGED <<source, template, copy>>
    BY <1>1, <1>8, <2>1, <2>3 DEF Templates!ReadPolicies, Templates!Read
  <2> QED BY <1>4, <2>4, <2>5, <2>6
<1>9. CASE Templates!Fails(s)
  <2>1. /\ sess' = [sess EXCEPT ![s] = [at |-> "idle", snapshot |-> Templates!Unread]]
        /\ UNCHANGED <<source, template, copy>>
    BY <1>9 DEF Templates!Fails, Templates!Finish, Templates!Idle
  <2> QED BY <1>4, <2>1, EmptySnapshot
<1> QED BY <1>5, <1>6, <1>7, <1>8, <1>9

\* A request that is done starts over.
LEMMA SiteFinished ==
    ASSUME SiteInv, NEW s \in Sessions, Templates!Finish(s)
    PROVE  /\ \A w \in Sessions : /\ sess'[w].at \in {"idle", "venues", "items", "zones", "policies"}
                                  /\ sess'[w].snapshot \in Templates!Snapshots /\ Located(sess'[w].snapshot)
           /\ DOMAIN sess' = Sessions
<1>1. sess' = [sess EXCEPT ![s] = [at |-> "idle", snapshot |-> Templates!Unread]]
  BY DEF Templates!Finish, Templates!Idle
<1> QED BY <1>1, EmptySnapshot, SiteTaken

\* A copy of a located snapshot has its items, and policies that are policies.
LEMMA SiteCopied ==
    ASSUME SiteInv, NEW c \in Copies, NEW snapshot \in Templates!Snapshots, Located(snapshot),
           Templates!Create(c, snapshot)
    PROVE  /\ DOMAIN copy' = Copies
           /\ \A d \in Copies : copy'[d] # Templates!NoCopy =>
                 /\ copy'[d].of \in Templates!Snapshots /\ copy'[d].policies \in Templates!Policies
                 /\ Located(copy'[d].of) /\ copy'[d].items = Templates!Clone(copy'[d].of).items
<1>1. PICK new : new = Templates!Clone(snapshot) OBVIOUS
<1>2. new.of = snapshot BY <1>1 DEF Templates!Clone
<1>3. new.policies \in Templates!Policies
  <2>1. snapshot.policies \in Templates!Policies BY DEF Templates!Snapshots
  <2>2. new.policies = [t \in Types |-> IF snapshot.policies[t] = Templates!Absent THEN Templates!Absent
                                        ELSE snapshot.policies[t] \cap snapshot.zones]
    BY <1>1 DEF Templates!Clone
  <2>3. \A t \in Types : snapshot.policies[t] \in (SUBSET Zones) \cup {Templates!Absent}
    BY <2>1 DEF Templates!Policies
  <2>4. ASSUME NEW t \in Types
        PROVE  (IF snapshot.policies[t] = Templates!Absent THEN Templates!Absent
                ELSE snapshot.policies[t] \cap snapshot.zones) \in (SUBSET Zones) \cup {Templates!Absent}
    BY <2>3
  <2> QED BY <2>2, <2>4 DEF Templates!Policies
<1>4. DOMAIN copy = Copies /\ copy' = [copy EXCEPT ![c] = new] BY <1>1 DEF Templates!Create, SiteInv
<1>5. ASSUME NEW d \in Copies, copy'[d] # Templates!NoCopy
      PROVE  /\ copy'[d].of \in Templates!Snapshots /\ copy'[d].policies \in Templates!Policies
             /\ Located(copy'[d].of) /\ copy'[d].items = Templates!Clone(copy'[d].of).items
  <2>1. CASE d = c
    <3>1. copy'[d] = new BY <1>4, <2>1
    <3>2. Templates!Clone(copy'[d].of) = new BY <1>1, <1>2, <3>1
    <3> QED BY <1>2, <1>3, <3>1, <3>2
  <2>2. CASE d # c
    <3>1. copy'[d] = copy[d] BY <1>4, <2>2
    <3>2. copy[d] # Templates!NoCopy BY <1>5, <3>1
    <3>3. copy[d].of \in Templates!Snapshots /\ copy[d].policies \in Templates!Policies
      BY <3>2 DEF SiteInv, Templates!TypeOK
    <3>4. Located(copy[d].of) /\ copy[d].items = Templates!Clone(copy[d].of).items BY <3>2 DEF SiteInv
    <3> QED BY <3>1, <3>3, <3>4
  <2> QED BY <2>1, <2>2
<1> QED BY <1>4, <1>5

\* A template is made, put away or used, and the event is copied.
LEMMA SiteUsed ==
    ASSUME SiteInv,
           \/ Templates!ArchiveTemplate \/ Templates!DeleteTemplate
           \/ \E s \in Sessions : Templates!CreateTemplate(s) \/ \E c \in Copies : Templates!DuplicateEvent(s, c)
           \/ \E c \in Copies : Templates!CreateFromTemplate(c)
    PROVE  SiteInv'
<1>0. /\ template = Templates!NoTemplate
         \/ /\ template \in [status : {"active", "archived"}, snapshot : Templates!Snapshots]
            /\ template # Templates!NoTemplate => template.snapshot \in Templates!Snapshots
      /\ template # Templates!NoTemplate => Located(template.snapshot)
  BY DEF SiteInv, Templates!TypeOK
<1>1. CASE Templates!ArchiveTemplate
  <2>1. template # Templates!NoTemplate /\ UNCHANGED <<source, copy, sess>> BY <1>1 DEF Templates!ArchiveTemplate
  <2>2. template' = [template EXCEPT !.status = "archived"] BY <1>1 DEF Templates!ArchiveTemplate
  <2>3. /\ template' \in [status : {"active", "archived"}, snapshot : Templates!Snapshots]
        /\ template'.snapshot = template.snapshot
    BY <1>0, <2>1, <2>2
  <2>4. Templates!TypeOK' BY <2>1, <2>3 DEF SiteInv, Templates!TypeOK
  <2> QED BY <1>0, <2>1, <2>3, <2>4 DEF SiteInv
<1>2. CASE Templates!DeleteTemplate
  <2>1. template' = Templates!NoTemplate /\ UNCHANGED <<source, copy, sess>> BY <1>2 DEF Templates!DeleteTemplate
  <2>2. Templates!TypeOK' BY <2>1 DEF SiteInv, Templates!TypeOK
  <2> QED BY <2>1, <2>2 DEF SiteInv
<1>3. ASSUME NEW s \in Sessions, Templates!CreateTemplate(s) PROVE SiteInv'
  <2>1. PICK snapshot : snapshot = sess[s].snapshot OBVIOUS
  <2>2. snapshot \in Templates!Snapshots /\ Located(snapshot) BY <2>1 DEF SiteInv, Templates!TypeOK
  <2>3. template' = [status |-> "active", snapshot |-> snapshot] /\ Templates!Finish(s) /\ UNCHANGED <<source, copy>>
    BY <1>3, <2>1 DEF Templates!CreateTemplate
  <2>4. /\ template' \in [status : {"active", "archived"}, snapshot : Templates!Snapshots]
        /\ template'.snapshot = snapshot
    BY <2>2, <2>3
  <2>5. Templates!TypeOK' BY <2>3, <2>4, SiteFinished DEF SiteInv, Templates!TypeOK
  <2> QED BY <2>2, <2>3, <2>4, <2>5, SiteFinished DEF SiteInv
<1>4. ASSUME NEW s \in Sessions, NEW c \in Copies, Templates!DuplicateEvent(s, c) PROVE SiteInv'
  <2>1. PICK snapshot : snapshot = sess[s].snapshot OBVIOUS
  <2>2. snapshot \in Templates!Snapshots /\ Located(snapshot) BY <2>1 DEF SiteInv, Templates!TypeOK
  <2>3. Templates!Create(c, snapshot) /\ Templates!Finish(s) /\ UNCHANGED <<source, template>>
    BY <1>4, <2>1 DEF Templates!DuplicateEvent
  <2>4. Templates!TypeOK' BY <2>2, <2>3, SiteFinished, SiteCopied DEF SiteInv, Templates!TypeOK
  <2> QED BY <2>2, <2>3, <2>4, SiteFinished, SiteCopied DEF SiteInv
<1>5. ASSUME NEW c \in Copies, Templates!CreateFromTemplate(c) PROVE SiteInv'
  <2>1. PICK snapshot : snapshot = template.snapshot OBVIOUS
  <2>2. Templates!Create(c, snapshot) /\ template # Templates!NoTemplate /\ UNCHANGED <<source, template, sess>>
    BY <1>5, <2>1 DEF Templates!CreateFromTemplate
  <2>3. snapshot \in Templates!Snapshots /\ Located(snapshot) BY <1>0, <2>1, <2>2
  <2>4. Templates!TypeOK' BY <2>2, <2>3, SiteCopied DEF SiteInv, Templates!TypeOK
  <2> QED BY <2>2, <2>3, <2>4, SiteCopied DEF SiteInv
<1> QED BY <1>1, <1>2, <1>3, <1>4, <1>5

LEMMA SiteNext == ASSUME SiteInv, [Templates!Next]_Templates!vars PROVE SiteInv'
<1>1. CASE UNCHANGED Templates!vars
  <2>1. UNCHANGED <<source, template, copy, sess>> BY <1>1 DEF Templates!vars
  <2>2. Templates!TypeOK' BY <2>1 DEF SiteInv, Templates!TypeOK
  <2> QED BY <2>1, <2>2 DEF SiteInv
<1>2. CASE Templates!Next
  BY <1>2, SiteConfiguration, SiteRead, SiteUsed DEF Templates!Next
<1> QED BY <1>1, <1>2

\* The copies of an event keep the venues of its items, unless a venue was added
\* while the snapshot was taken.
THEOREM CopiesKeepVenues == Templates!Spec => [](Templates!TypeOK /\ Templates!CopyKeepsVenues)
<1>1. SiteInv /\ [Templates!Next]_Templates!vars => SiteInv' BY SiteNext
<1>2. SiteInv => Templates!TypeOK /\ Templates!CopyKeepsVenues BY CopySited DEF SiteInv
<1> QED BY <1>1, <1>2, SitesStart, PTL DEF Templates!Spec

-----------------------------------------------------------------------------
(* Rows that unique constraints keep single: UniqueRows.                   *)

\* What a request is about to change is still a row of its kind.
Rooted(x) ==
    /\ x.at = "rate" => row[x.id].kind = "feedback"
    /\ x.at = "move" => row[x.id].kind \in Uniques!Movable \cup {"deleted"}
SessionsRooted == \A s \in Sessions : Rooted(sess[s])

\* Rows of one kind and key, where the table or the course of things keeps them apart.
RowsApart ==
    \A kind \in Uniques!Kinds, key \in Keys :
        kind \in Uniques!Constrained \/ ~late =>
            \A i, j \in Uniques!Having(kind, key) : i = j

RowsInv == Uniques!TypeOK /\ SessionsRooted /\ RowsApart

\* The steps of a request.
RowRequest ==
    {Uniques!Idle} \cup [at : {"create"}, kind : Uniques!Kinds, key : Keys]
        \cup [at : {"move"}, id : Ids, key : Keys] \cup [at : {"rate"}, id : Ids]

\* A request that looks, fails or finishes changes no row.
LEMMA RowsRest ==
    ASSUME RowsInv, UNCHANGED <<row, open, late>>, NEW s \in Sessions, NEW x \in RowRequest,
           Uniques!To(s, x), Rooted(x)
    PROVE  RowsInv'
<1>1. sess' \in [Sessions -> RowRequest] /\ \A r \in Sessions : sess'[r] = sess[r] \/ sess'[r] = x
  BY DEF RowsInv, Uniques!TypeOK, Uniques!To, RowRequest
<1>2. Uniques!TypeOK' BY <1>1 DEF RowsInv, Uniques!TypeOK, RowRequest
<1>3. SessionsRooted' BY <1>1 DEF RowsInv, SessionsRooted, Rooted
<1>4. RowsApart' BY DEF RowsInv, RowsApart, Uniques!Having
<1> QED BY <1>2, <1>3, <1>4 DEF RowsInv

\* A step that writes one row keeps the requests' rows of their kind.
LEMMA RowsRooted ==
    ASSUME RowsInv, NEW i \in Ids, NEW new \in Uniques!Row \cup {Uniques!Gone},
           row' = [row EXCEPT ![i] = new], open' = open, late' \in BOOLEAN,
           row[i] # Uniques!NoRow => new.kind = row[i].kind \/ (row[i].kind \in Uniques!Deletable /\ new = Uniques!Gone),
           \A r \in Sessions : sess'[r] = sess[r] \/ sess'[r] = Uniques!Idle,
           sess' \in [Sessions -> RowRequest]
    PROVE  Uniques!TypeOK' /\ SessionsRooted'
<1>1. Uniques!TypeOK' BY DEF RowsInv, Uniques!TypeOK, RowRequest
<1>2. ASSUME NEW r \in Sessions PROVE Rooted(sess[r])'
  <2>1. CASE sess'[r] = Uniques!Idle BY <2>1 DEF Rooted, Uniques!Idle
  <2>2. CASE sess'[r] = sess[r]
    <3>1. sess[r] \in RowRequest /\ Rooted(sess[r]) BY DEF RowsInv, Uniques!TypeOK, RowRequest, SessionsRooted
    <3>2. sess[r].at \in {"move", "rate"} => sess[r].id \in Ids BY <3>1 DEF RowRequest, Uniques!Idle
    <3> QED BY <2>2, <3>1, <3>2
      DEF Rooted, RowsInv, Uniques!TypeOK, Uniques!NoRow, Uniques!Gone, Uniques!Movable, Uniques!Deletable
  <2> QED BY <1>2, <2>1, <2>2
<1> QED BY <1>1, <1>2 DEF SessionsRooted

LEMMA InitRows == Uniques!Init => RowsInv
<1> SUFFICES ASSUME Uniques!Init PROVE RowsInv OBVIOUS
<1>1. \A s \in Sessions : sess[s] = Uniques!Idle BY DEF Uniques!Init
<1>2. Uniques!TypeOK BY DEF Uniques!Init, Uniques!TypeOK
<1>3. SessionsRooted BY <1>1 DEF SessionsRooted, Rooted, Uniques!Idle
<1>4. \A kind \in Uniques!Kinds, key \in Keys : Uniques!Having(kind, key) = {}
  BY DEF Uniques!Init, Uniques!Having, Uniques!NoRow, Uniques!Kinds
<1> QED BY <1>2, <1>3, <1>4 DEF RowsInv, RowsApart

LEMMA StepRows == ASSUME RowsInv, [Uniques!Next]_Uniques!vars PROVE RowsInv'
<1>t. Uniques!TypeOK /\ sess \in [Sessions -> RowRequest] /\ Uniques!Idle \in RowRequest
  BY DEF RowsInv, Uniques!TypeOK, RowRequest
<1>1. CASE UNCHANGED <<row, late, sess>> /\ open' \in BOOLEAN
  <2>1. Uniques!TypeOK' BY <1>1 DEF RowsInv, Uniques!TypeOK
  <2>2. SessionsRooted' /\ RowsApart' BY <1>1 DEF RowsInv, SessionsRooted, Rooted, RowsApart, Uniques!Having
  <2> QED BY <2>1, <2>2 DEF RowsInv
<1>2. ASSUME NEW s \in Sessions, NEW kind \in Uniques!Kinds, NEW key \in Keys, Uniques!Look(s, kind, key)
      PROVE  RowsInv'
  <2>1. CASE Uniques!To(s, [at |-> "create", kind |-> kind, key |-> key])
    <3>1. [at |-> "create", kind |-> kind, key |-> key] \in RowRequest BY DEF RowRequest
    <3>2. Rooted([at |-> "create", kind |-> kind, key |-> key]) BY DEF Rooted
    <3> QED BY <1>2, <2>1, <3>1, <3>2, RowsRest DEF Uniques!Look
  <2>2. ASSUME NEW i \in Uniques!Having(kind, key), kind = "feedback", Uniques!To(s, [at |-> "rate", id |-> i])
        PROVE  RowsInv'
    <3>1. i \in Ids /\ row[i].kind = "feedback" BY <2>2 DEF Uniques!Having
    <3>2. [at |-> "rate", id |-> i] \in RowRequest BY <3>1 DEF RowRequest
    <3>3. Rooted([at |-> "rate", id |-> i]) BY <3>1 DEF Rooted
    <3> QED BY <1>2, <2>2, <3>2, <3>3, RowsRest DEF Uniques!Look
  <2> QED BY <1>2, <2>1, <2>2 DEF Uniques!Look
<1>3. ASSUME NEW s \in Sessions, NEW i \in Ids, NEW key \in Keys, Uniques!LookMove(s, i, key) PROVE RowsInv'
  <2>1. [at |-> "move", id |-> i, key |-> key] \in RowRequest BY DEF RowRequest
  <2>2. Rooted([at |-> "move", id |-> i, key |-> key]) BY <1>3 DEF Rooted, Uniques!LookMove
  <2> QED BY <1>3, <2>1, <2>2, RowsRest DEF Uniques!LookMove
<1>4. ASSUME NEW s \in Sessions, Uniques!Fails(s) PROVE RowsInv'
  <2>1. Rooted(Uniques!Idle) BY DEF Rooted, Uniques!Idle
  <2> QED BY <1>4, <1>t, <2>1, RowsRest DEF Uniques!Fails
<1>5. ASSUME NEW i \in Ids, Uniques!Delete(i) PROVE RowsInv'
  <2>1. Uniques!TypeOK' /\ SessionsRooted'
    BY <1>5, <1>t, RowsRooted DEF Uniques!Delete, Uniques!TypeOK
  <2>2. \A kind \in Uniques!Kinds, key \in Keys : Uniques!Having(kind, key)' \subseteq Uniques!Having(kind, key)
    BY <1>5, <1>t DEF Uniques!Delete, Uniques!Having, Uniques!Gone, Uniques!Kinds, Uniques!TypeOK
  <2>3. RowsApart' BY <1>5, <2>2 DEF RowsInv, RowsApart, Uniques!Delete
  <2> QED BY <2>1, <2>3 DEF RowsInv
<1>6. ASSUME NEW s \in Sessions, Uniques!To(s, Uniques!Idle)
      PROVE  sess' \in [Sessions -> RowRequest] /\ \A r \in Sessions : sess'[r] = sess[r] \/ sess'[r] = Uniques!Idle
  BY <1>6, <1>t DEF Uniques!To
<1>7. ASSUME NEW s \in Sessions, NEW i \in Ids, Uniques!Create(s, i) PROVE RowsInv'
  <2> DEFINE k == sess[s].kind
             new == [kind |-> k, key |-> sess[s].key, rating |-> 1]
  <2>1. k \in Uniques!Kinds /\ sess[s].key \in Keys /\ sess[s] \in RowRequest
    BY <1>7, <1>t DEF Uniques!Create, RowRequest, Uniques!Idle
  <2>2. new \in Uniques!Row BY <2>1 DEF Uniques!Row
  <2>3. row[i] = Uniques!NoRow /\ row' = [row EXCEPT ![i] = new] /\ open' = open /\ late' \in BOOLEAN
    BY <1>7, <1>t DEF Uniques!Create, Uniques!TypeOK
  <2>4. new.kind = k /\ new.key = sess[s].key OBVIOUS
  <2> HIDE DEF new
  <2>5. Uniques!TypeOK' /\ SessionsRooted'
    <3>1. sess' \in [Sessions -> RowRequest] /\ \A r \in Sessions : sess'[r] = sess[r] \/ sess'[r] = Uniques!Idle
      BY <1>6, <1>7 DEF Uniques!Create
    <3> QED BY <2>2, <2>3, <3>1, RowsRooted
  <2>6. \A kind \in Uniques!Kinds, key \in Keys :
            Uniques!Having(kind, key)' \subseteq
                Uniques!Having(kind, key) \cup (IF kind = k /\ key = sess[s].key THEN {i} ELSE {})
    BY <1>t, <2>3, <2>4 DEF Uniques!Having, Uniques!TypeOK
  <2>7. k \in Uniques!Constrained \/ ~late' => Uniques!Having(k, sess[s].key) = {}
    BY <1>7 DEF Uniques!Create, Uniques!Unique
  <2>8. ~late' => ~late BY <1>7 DEF Uniques!Create
  <2>9. RowsApart' BY <2>6, <2>7, <2>8 DEF RowsInv, RowsApart
  <2> QED BY <2>5, <2>9 DEF RowsInv
<1>8. ASSUME NEW s \in Sessions, NEW n \in 1 .. 2, Uniques!Rate(s, n) PROVE RowsInv'
  <2>1. PICK i \in Ids : i = sess[s].id /\ row[i].kind = "feedback"
    BY <1>8, <1>t DEF Uniques!Rate, RowRequest, Uniques!Idle, RowsInv, SessionsRooted, Rooted
  <2> DEFINE new == [row[i] EXCEPT !.rating = n]
  <2>2. row[i] \in Uniques!Row BY <1>t, <2>1 DEF Uniques!TypeOK, Uniques!NoRow, Uniques!Gone
  <2>3. new \in Uniques!Row /\ new.kind = row[i].kind /\ new.key = row[i].key BY <2>2 DEF Uniques!Row
  <2>4. row' = [row EXCEPT ![i] = new] /\ open' = open /\ late' = late BY <1>8, <2>1 DEF Uniques!Rate
  <2> HIDE DEF new
  <2>5. Uniques!TypeOK' /\ SessionsRooted'
    <3>1. sess' \in [Sessions -> RowRequest] /\ \A r \in Sessions : sess'[r] = sess[r] \/ sess'[r] = Uniques!Idle
      BY <1>6, <1>8 DEF Uniques!Rate
    <3>2. late' \in BOOLEAN /\ open' = open BY <1>t, <2>4 DEF Uniques!TypeOK
    <3>3. i \in Ids /\ new \in Uniques!Row \cup {Uniques!Gone} /\ new.kind = row[i].kind BY <2>1, <2>3
    <3>4. row' = [row EXCEPT ![i] = new] BY <2>4
    <3> QED BY <3>1, <3>2, <3>3, <3>4, RowsRooted
  <2>6. \A kind \in Uniques!Kinds, key \in Keys : Uniques!Having(kind, key)' = Uniques!Having(kind, key)
    BY <1>t, <2>1, <2>3, <2>4 DEF Uniques!Having, Uniques!TypeOK
  <2>7. RowsApart' BY <2>4, <2>6 DEF RowsInv, RowsApart
  <2> QED BY <2>5, <2>7 DEF RowsInv
<1>9. ASSUME NEW s \in Sessions, Uniques!Move(s) PROVE RowsInv'
  <2>1. PICK i \in Ids, key \in Keys :
            /\ i = sess[s].id /\ key = sess[s].key
            /\ row[i].kind \in Uniques!Movable \cup {"deleted"} /\ row[i] # Uniques!Gone
    BY <1>9, <1>t DEF Uniques!Move, RowRequest, Uniques!Idle, RowsInv, SessionsRooted, Rooted
  <2> DEFINE new == [row[i] EXCEPT !.key = key]
  <2>2. row[i] \in Uniques!Row /\ row[i].kind \in Uniques!Constrained
    BY <1>t, <2>1 DEF Uniques!TypeOK, Uniques!NoRow, Uniques!Movable, Uniques!Constrained, Uniques!Row, Uniques!Kinds
  <2>3. new \in Uniques!Row /\ new.kind = row[i].kind /\ new.key = key BY <2>1, <2>2 DEF Uniques!Row
  <2>4. row' = [row EXCEPT ![i] = new] /\ open' = open /\ late' = late BY <1>9, <2>1 DEF Uniques!Move
  <2>5. Uniques!Having(row[i].kind, key) \subseteq {i}
    BY <1>9, <2>1, <2>2 DEF Uniques!Move, Uniques!Unique
  <2> HIDE DEF new
  <2>6. Uniques!TypeOK' /\ SessionsRooted'
    <3>1. sess' \in [Sessions -> RowRequest] /\ \A r \in Sessions : sess'[r] = sess[r] \/ sess'[r] = Uniques!Idle
      BY <1>6, <1>9 DEF Uniques!Move
    <3>2. late' \in BOOLEAN /\ open' = open BY <1>t, <2>4 DEF Uniques!TypeOK
    <3>3. i \in Ids /\ new \in Uniques!Row \cup {Uniques!Gone} /\ new.kind = row[i].kind BY <2>1, <2>3
    <3>4. row' = [row EXCEPT ![i] = new] BY <2>4
    <3> QED BY <3>1, <3>2, <3>3, <3>4, RowsRooted
  <2>7. \A kind \in Uniques!Kinds, k \in Keys :
            Uniques!Having(kind, k)' \subseteq
                Uniques!Having(kind, k) \cup (IF kind = row[i].kind /\ k = key THEN {i} ELSE {})
    BY <1>t, <2>1, <2>3, <2>4 DEF Uniques!Having, Uniques!TypeOK
  <2>8. RowsApart' BY <2>4, <2>5, <2>7 DEF RowsInv, RowsApart
  <2> QED BY <2>6, <2>8 DEF RowsInv
<1> QED BY <1>t, <1>1, <1>2, <1>3, <1>4, <1>5, <1>7, <1>8, <1>9
  DEF Uniques!Next, Uniques!vars, Uniques!GoLive, Uniques!TypeOK

\* The model's cardinality is the library's.
LEMMA RowCardinality == \A S : Uniques!Cardinality(S) = Cardinality(S)
BY DEF Uniques!Cardinality, Cardinality

LEMMA RowsOnce == RowsInv => Uniques!OnceEach
<1> SUFFICES ASSUME RowsInv, NEW kind \in Uniques!Kinds, NEW key \in Keys, kind \in Uniques!Constrained \/ ~late
             PROVE  Cardinality(Uniques!Having(kind, key)) <= 1
  BY RowCardinality DEF Uniques!OnceEach
<1>1. \A i, j \in Uniques!Having(kind, key) : i = j BY DEF RowsInv, RowsApart
<1>2. CASE Uniques!Having(kind, key) = {} BY <1>2, FS_EmptySet
<1>3. ASSUME NEW i \in Uniques!Having(kind, key) PROVE Cardinality(Uniques!Having(kind, key)) <= 1
  <2>1. Uniques!Having(kind, key) = {i} BY <1>1, <1>3
  <2> QED BY <2>1, FS_Singleton
<1> QED BY <1>2, <1>3

THEOREM OnceEachHolds == Uniques!Spec => []Uniques!OnceEach
BY InitRows, StepRows, RowsOnce, PTL DEF Uniques!Spec

-----------------------------------------------------------------------------
(* Requests for financial assistance: Assistance.                          *)

\* A fee waiver is an amount, and the placeholder is none.
Waivers == Amounts \subseteq Nat /\ NoCode \notin Amounts

\* A request that is still to be decided has been neither granted nor refused.
Untouched(r) == r.status = "assigned" /\ ~r.decided /\ ~r.applied

\* Whoever decides has read an undecided request, and an undecided request is untouched.
ReviewSound ==
    /\ \A s \in Sessions : sess[s].at = "decide" => Untouched(sess[s].copy) /\ request # Helps!NoRequest
    /\ request # Helps!NoRequest /\ request.status = "assigned" => Untouched(request)

ReviewInv == Helps!TypeOK /\ ReviewSound /\ Helps!WaiverGranted

\* The columns of a decision that is written from a copy.
LEMMA DecisionWritten ==
    ASSUME NEW r \in Helps!Request, NEW c \in Helps!Request, NEW n \in Helps!Request
    PROVE  LET w == Helps!Written(r, c, n)
           IN  /\ w \in Helps!Request
               /\ w.status = IF n.status # c.status THEN n.status ELSE r.status
               /\ w.decided = IF n.decided # c.decided THEN n.decided ELSE r.decided
               /\ w.applied = IF n.applied # c.applied THEN n.applied ELSE r.applied
<1>1. Helps!Written(r, c, n) = [status |-> IF n.status # c.status THEN n.status ELSE r.status,
                                asked |-> IF n.asked # c.asked THEN n.asked ELSE r.asked,
                                applied |-> IF n.applied # c.applied THEN n.applied ELSE r.applied,
                                decided |-> IF n.decided # c.decided THEN n.decided ELSE r.decided]
  BY DEF Helps!Written, Helps!Request
<1> QED BY <1>1 DEF Helps!Request

LEMMA InitReview == Helps!Init => ReviewInv
<1> SUFFICES ASSUME Helps!Init PROVE ReviewInv OBVIOUS
<1>1. \A s \in Sessions : sess[s] = Helps!Idle BY DEF Helps!Init
<1>2. Helps!TypeOK BY DEF Helps!Init, Helps!TypeOK
<1>3. ReviewSound BY <1>1 DEF Helps!Init, ReviewSound, Helps!Idle
<1> QED BY <1>2, <1>3 DEF ReviewInv, Helps!Init, Helps!WaiverGranted

\* What a request may be about to do.
Reviewing == {Helps!Idle, [at |-> "create"]} \cup [at : {"decide"}, copy : Helps!Request]

\* The sessions after a step of one of them.
LEMMA ReviewSessions ==
    ASSUME ReviewInv, NEW s \in Sessions, NEW x \in Reviewing, sess' = [sess EXCEPT ![s] = x],
           x.at = "decide" => Untouched(x.copy)
    PROVE  /\ sess' \in [Sessions -> Reviewing]
           /\ \A r \in Sessions : sess'[r].at = "decide" => Untouched(sess'[r].copy)
           /\ \A r \in Sessions : sess'[r].at = "decide" => sess[r].at = "decide" \/ x.at = "decide"
BY DEF ReviewInv, Helps!TypeOK, Reviewing, ReviewSound, Untouched

\* A decision: the copy's status and date change, and what is granted once.
LEMMA Decided ==
    ASSUME Waivers, ReviewInv, NEW s \in Sessions, sess[s].at = "decide",
           NEW st \in {"approved", "rejected"}, NEW granted \in BOOLEAN,
           request' = Helps!Written(request, sess[s].copy,
                          [sess[s].copy EXCEPT !.status = st, !.decided = TRUE, !.applied = granted]),
           granted => st = "approved" /\ code = NoCode /\ code' \in Amounts /\ code' > 0,
           ~granted => code' = code,
           sess' = [sess EXCEPT ![s] = Helps!Idle],
           team' = team, late' \in BOOLEAN, ~late' => ~late /\ request = sess[s].copy
    PROVE  ReviewInv'
<1> DEFINE c == sess[s].copy
           n == [c EXCEPT !.status = st, !.decided = TRUE, !.applied = granted]
<1>1. c \in Helps!Request /\ request \in Helps!Request /\ Untouched(c)
  BY DEF ReviewInv, Helps!TypeOK, ReviewSound, Helps!Idle
<1>2. n \in Helps!Request /\ n.status = st /\ n.decided = TRUE /\ n.applied = granted
  BY <1>1 DEF Helps!Request
<1> HIDE DEF c
<1>3. /\ request' \in Helps!Request /\ request'.status = st /\ request'.decided = TRUE
      /\ request'.applied = (granted \/ request.applied)
  <2>1. request' = Helps!Written(request, c, n) BY DEF c
  <2> HIDE DEF n
  <2>2. /\ request' \in Helps!Request
        /\ request'.status = IF n.status # c.status THEN n.status ELSE request.status
        /\ request'.decided = IF n.decided # c.decided THEN n.decided ELSE request.decided
        /\ request'.applied = IF n.applied # c.applied THEN n.applied ELSE request.applied
    BY <1>1, <1>2, <2>1, DecisionWritten
  <2>3. c.status = "assigned" /\ c.decided = FALSE /\ c.applied = FALSE /\ request.applied \in BOOLEAN
    BY <1>1 DEF Untouched, Helps!Request
  <2>4. request'.status = st /\ request'.decided = TRUE BY <1>2, <2>2, <2>3
  <2>5. request'.applied = (granted \/ request.applied) BY <1>2, <2>2, <2>3
  <2> QED BY <2>2, <2>4, <2>5
<1>4. Helps!Idle \in Reviewing /\ Helps!Idle.at # "decide" BY DEF Reviewing, Helps!Idle
<1>5. /\ sess' \in [Sessions -> Reviewing]
      /\ \A r \in Sessions : sess'[r].at = "decide" => Untouched(sess'[r].copy)
  BY <1>4, ReviewSessions
<1>6. Helps!TypeOK' BY <1>3, <1>5 DEF ReviewInv, Helps!TypeOK, Reviewing
<1>7. request' # Helps!NoRequest BY <1>3 DEF Helps!Request, Helps!NoRequest
<1>8. ReviewSound' BY <1>3, <1>5, <1>7 DEF ReviewSound
<1>9. Helps!WaiverGranted'
  <2>1. CASE granted = TRUE
    <3>1. code' # NoCode /\ code' > 0 BY <2>1 DEF Waivers
    <3>2. request'.applied = TRUE /\ request'.status = "approved" BY <1>3, <2>1
    <3> QED BY <1>3, <1>7, <3>1, <3>2 DEF Helps!WaiverGranted
  <2>2. CASE granted = FALSE
    <3>1. code' = code /\ (request'.applied <=> request.applied) BY <1>3, <2>2
    <3>2. request # Helps!NoRequest BY <1>1 DEF Helps!Request, Helps!NoRequest
    <3>3. code # NoCode => late' = TRUE
      <4>1. SUFFICES ASSUME code # NoCode, ~late' PROVE FALSE BY DEF ReviewInv
      <4>2. request.applied /\ request = c BY <4>1 DEF ReviewInv, Helps!WaiverGranted, c
      <4> QED BY <1>1, <4>2 DEF Untouched
    <3>4. code' # NoCode => code' > 0 BY <3>1 DEF ReviewInv, Helps!WaiverGranted
    <3>5. code' # NoCode <=> request'.applied BY <3>1, <3>2 DEF ReviewInv, Helps!WaiverGranted
    <3> QED BY <1>3, <1>7, <3>1, <3>3, <3>4, <3>5 DEF Helps!WaiverGranted
  <2> QED BY <2>1, <2>2
<1> QED BY <1>6, <1>8, <1>9 DEF ReviewInv

LEMMA StepReview == ASSUME Waivers, ReviewInv, [Helps!Next]_Helps!vars PROVE ReviewInv'
<1>t. Helps!TypeOK /\ sess \in [Sessions -> Reviewing] BY DEF ReviewInv, Helps!TypeOK, Reviewing
<1>1. CASE team' \subseteq Reviewers /\ UNCHANGED <<request, code, late, sess>>
  <2>1. Helps!TypeOK' BY <1>1, <1>t DEF Helps!TypeOK
  <2>2. ReviewSound' BY <1>1 DEF ReviewInv, ReviewSound
  <2>3. Helps!WaiverGranted' BY <1>1 DEF ReviewInv, Helps!WaiverGranted
  <2> QED BY <2>1, <2>2, <2>3 DEF ReviewInv
<1>2. ASSUME NEW s \in Sessions, NEW x \in Reviewing, sess' = [sess EXCEPT ![s] = x],
             x.at = "decide" => Untouched(x.copy) /\ request # Helps!NoRequest,
             UNCHANGED <<team, request, code, late>>
      PROVE  ReviewInv'
  <2>1. /\ sess' \in [Sessions -> Reviewing]
        /\ \A r \in Sessions : sess'[r].at = "decide" => Untouched(sess'[r].copy)
        /\ \A r \in Sessions : sess'[r].at = "decide" => sess[r].at = "decide" \/ x.at = "decide"
    BY <1>2, ReviewSessions
  <2>2. Helps!TypeOK' BY <1>2, <1>t, <2>1 DEF Helps!TypeOK, Reviewing
  <2>3. ReviewSound' BY <1>2, <2>1 DEF ReviewInv, ReviewSound
  <2>4. Helps!WaiverGranted' BY <1>2 DEF ReviewInv, Helps!WaiverGranted
  <2> QED BY <2>2, <2>3, <2>4 DEF ReviewInv
<1>3. Helps!Idle \in Reviewing /\ Helps!Idle.at # "decide" /\ [at |-> "create"] \in Reviewing
  BY DEF Reviewing, Helps!Idle
<1>4. ASSUME NEW s \in Sessions, Helps!CreateCheck(s) PROVE ReviewInv'
  BY <1>2, <1>3, <1>4 DEF Helps!CreateCheck
<1>5. ASSUME NEW s \in Sessions, NEW amount \in Amounts, Helps!CreateCommit(s, amount) PROVE ReviewInv'
  <2>1. CASE request # Helps!NoRequest
    BY <1>2, <1>3, <1>5, <2>1 DEF Helps!CreateCommit
  <2>2. CASE request = Helps!NoRequest
    <3> DEFINE new == [status |-> "assigned", asked |-> amount, applied |-> FALSE, decided |-> FALSE]
    <3>1. request' = new /\ UNCHANGED <<team, code, late>> /\ sess' = [sess EXCEPT ![s] = Helps!Idle]
      BY <1>5, <2>2 DEF Helps!CreateCommit
    <3>2. new \in Helps!Request /\ Untouched(new) /\ new # Helps!NoRequest
      BY DEF Helps!Request, Untouched, Helps!NoRequest
    <3>3. /\ sess' \in [Sessions -> Reviewing]
          /\ \A r \in Sessions : sess'[r].at = "decide" => Untouched(sess'[r].copy)
      BY <1>3, <3>1, ReviewSessions
    <3> HIDE DEF new
    <3>4. Helps!TypeOK' BY <1>t, <3>1, <3>2, <3>3 DEF Helps!TypeOK, Reviewing
    <3>5. ReviewSound' BY <3>1, <3>2, <3>3 DEF ReviewSound
    <3>6. code = NoCode BY <2>2 DEF ReviewInv, Helps!WaiverGranted
    <3>7. Helps!WaiverGranted' BY <3>1, <3>2, <3>6 DEF Helps!WaiverGranted, Untouched
    <3> QED BY <3>4, <3>5, <3>7 DEF ReviewInv
  <2> QED BY <2>1, <2>2
<1>6. ASSUME NEW s \in Sessions, Helps!DecideRead(s) PROVE ReviewInv'
  <2>1. request \in Helps!Request /\ Untouched(request)
    BY <1>6, <1>t DEF Helps!DecideRead, Helps!TypeOK, ReviewInv, ReviewSound, Helps!Undecided
  <2>2. [at |-> "decide", copy |-> request] \in Reviewing BY <2>1 DEF Reviewing
  <2> QED BY <1>2, <1>6, <2>1, <2>2 DEF Helps!DecideRead
<1>7. ASSUME NEW s \in Sessions, NEW amount \in Amounts, Helps!Approve(s, amount) PROVE ReviewInv'
  <2> DEFINE c == sess[s].copy
             waiver == IF amount > 0 THEN amount ELSE c.asked
  <2>1. c \in Helps!Request /\ ~c.applied
    BY <1>7, <1>t DEF Helps!Approve, Reviewing, Helps!Idle, ReviewInv, ReviewSound, Untouched
  <2>2. waiver \in Amounts /\ waiver \in Nat BY <2>1 DEF Helps!Request, Waivers
  <2>3. /\ sess[s].at = "decide" /\ team' = team /\ sess' = [sess EXCEPT ![s] = Helps!Idle]
        /\ waiver > 0 => code = NoCode
        /\ code' = IF waiver > 0 THEN waiver ELSE code
    BY <1>7 DEF Helps!Approve
  <2>4. late' \in BOOLEAN /\ (~late' => ~late /\ request = c)
    BY <1>7, <1>t DEF Helps!Approve, Helps!TypeOK
  <2>5. request' = Helps!Written(request, c, [c EXCEPT !.status = "approved", !.decided = TRUE,
                                                         !.applied = c.applied \/ waiver > 0])
    BY <1>7 DEF Helps!Approve
  <2>6. CASE waiver > 0
    <3>1. (c.applied \/ waiver > 0) = TRUE BY <2>6
    <3>2. code' = waiver BY <2>3, <2>6
    <3> QED BY <2>2, <2>3, <2>4, <2>5, <2>6, <3>1, <3>2, Decided
  <2>7. CASE ~(waiver > 0)
    <3>1. (c.applied \/ waiver > 0) = FALSE
      <4>1. c.applied = FALSE BY <2>1 DEF Helps!Request
      <4> QED BY <2>7, <4>1
    <3>2. code' = code BY <2>3, <2>7
    <3> QED BY <2>3, <2>4, <2>5, <3>1, <3>2, Decided
  <2> QED BY <2>6, <2>7
<1>8. ASSUME NEW s \in Sessions, Helps!Reject(s) PROVE ReviewInv'
  <2> DEFINE c == sess[s].copy
  <2>1. c \in Helps!Request /\ c.applied = FALSE
    BY <1>8, <1>t DEF Helps!Reject, Reviewing, Helps!Idle, ReviewInv, ReviewSound, Untouched, Helps!Request
  <2>2. [c EXCEPT !.status = "rejected", !.decided = TRUE]
        = [c EXCEPT !.status = "rejected", !.decided = TRUE, !.applied = FALSE]
    BY <2>1 DEF Helps!Request
  <2>3. late' \in BOOLEAN /\ (~late' => ~late /\ request = c)
    BY <1>8, <1>t DEF Helps!Reject, Helps!TypeOK
  <2>4. /\ sess[s].at = "decide" /\ team' = team /\ sess' = [sess EXCEPT ![s] = Helps!Idle] /\ code' = code
        /\ request' = Helps!Written(request, c, [c EXCEPT !.status = "rejected", !.decided = TRUE, !.applied = FALSE])
    BY <1>8, <2>2 DEF Helps!Reject
  <2> QED BY <2>3, <2>4, Decided
<1>9. ASSUME NEW s \in Sessions, Helps!DecideFails(s) PROVE ReviewInv'
  BY <1>2, <1>3, <1>9 DEF Helps!DecideFails
<1> QED BY <1>t, <1>1, <1>4, <1>5, <1>6, <1>7, <1>8, <1>9
  DEF Helps!Next, Helps!vars, Helps!ChangeTeam, Helps!TypeOK

THEOREM WaiversAreGranted == Waivers => (Helps!Spec => []Helps!WaiverGranted)
<1> SUFFICES ASSUME Waivers PROVE Helps!Spec => []Helps!WaiverGranted OBVIOUS
<1>1. ReviewInv /\ [Helps!Next]_Helps!vars => ReviewInv' BY StepReview
<1>2. ReviewInv => Helps!WaiverGranted BY DEF ReviewInv
<1> QED BY InitReview, <1>1, <1>2, PTL DEF Helps!Spec

-----------------------------------------------------------------------------
(* Incidents and who is told of them: Incidents.                           *)

\* Finitely many people may be in charge.
FiniteStaff == IsFiniteSet(Staff)

\* What is true of the row, and of every copy of it, of those who were told.
Followed(i, people) ==
    /\ i.severity = "critical" => people # {} /\ i.escalation_count > 0
    /\ i.escalation_count <= Cardinality(people)
    /\ i.status = "resolved" => i.resolved
    /\ i.status = "closed" => i.resolved /\ i.closed

\* The dates of a copy are in the row.
DatesLast(c, i) == (c.resolved => i.resolved) /\ (c.closed => i.closed)

IncidentInv ==
    /\ Reports!TypeOK
    /\ incident # Reports!NoIncident => Followed(incident, told)
    /\ \A s \in Sessions : sess[s].at = "update" =>
          /\ incident # Reports!NoIncident
          /\ Followed(sess[s].copy, told) /\ DatesLast(sess[s].copy, incident)

\* The model's cardinality is the library's.
LEMMA StaffCardinality == \A S : Reports!Cardinality(S) = Cardinality(S)
BY DEF Reports!Cardinality, Cardinality

\* The columns of an update that is written from a copy.
LEMMA IncidentWritten ==
    ASSUME NEW r \in Reports!Incident, NEW c \in Reports!Incident, NEW n \in Reports!Incident
    PROVE  Reports!Written(r, c, n) =
               [status |-> IF n.status # c.status THEN n.status ELSE r.status,
                severity |-> IF n.severity # c.severity THEN n.severity ELSE r.severity,
                escalation_count |-> IF n.escalation_count # c.escalation_count
                                     THEN n.escalation_count ELSE r.escalation_count,
                resolved |-> IF n.resolved # c.resolved THEN n.resolved ELSE r.resolved,
                closed |-> IF n.closed # c.closed THEN n.closed ELSE r.closed]
BY DEF Reports!Written, Reports!Incident

\* Telling more people loses nothing.
LEMMA TellingMore ==
    ASSUME FiniteStaff, NEW few \in SUBSET Staff, NEW more \in SUBSET Staff, few \subseteq more,
           NEW i \in Reports!Incident, Followed(i, few)
    PROVE  Followed(i, more)
<1>1. Cardinality(few) <= Cardinality(more) /\ Cardinality(few) \in Nat /\ Cardinality(more) \in Nat
  BY FS_Subset, FS_CardinalityType DEF FiniteStaff
<1>2. i.escalation_count \in Nat BY DEF Reports!Incident
<1>3. i.escalation_count <= Cardinality(more) BY <1>1, <1>2 DEF Followed
<1> QED BY <1>3 DEF Followed

\* Everybody in charge is told, none of whom was told before.
LEMMA TellingCounts ==
    ASSUME FiniteStaff, Reports!TypeOK, Reports!CanEscalate
    PROVE  /\ told \cup recipients \in SUBSET Staff /\ told \cup recipients # {}
           /\ Cardinality(told) + 1 <= Cardinality(told \cup recipients)
           /\ Cardinality(told \cup recipients) <= Cardinality(Staff)
           /\ Cardinality(told) \in Nat /\ Cardinality(told \cup recipients) \in Nat /\ Cardinality(Staff) \in Nat
<1>1. PICK one \in recipients : one \notin told BY DEF Reports!TypeOK, Reports!CanEscalate
<1>2. told \cup {one} \subseteq told \cup recipients /\ told \cup recipients \subseteq Staff BY <1>1 DEF Reports!TypeOK
<1>3. IsFiniteSet(told) /\ IsFiniteSet(told \cup recipients) BY <1>2, FS_Subset DEF FiniteStaff
<1>4. Cardinality(told \cup {one}) = Cardinality(told) + 1 BY <1>1, <1>3, FS_AddElement
<1>5. Cardinality(told \cup {one}) <= Cardinality(told \cup recipients) BY <1>2, <1>3, FS_Subset
<1>6. Cardinality(told \cup recipients) <= Cardinality(Staff) BY <1>2, FS_Subset DEF FiniteStaff
<1> QED BY <1>1, <1>2, <1>3, <1>4, <1>5, <1>6, FS_CardinalityType DEF FiniteStaff

\* What a request may be about to do.
Updating == {Reports!Idle} \cup [at : {"update"}, copy : Reports!Incident]

LEMMA InitIncident == FiniteStaff /\ Reports!Init => IncidentInv
<1> SUFFICES ASSUME Reports!Init PROVE IncidentInv OBVIOUS
<1>1. \A s \in Sessions : sess[s] = Reports!Idle /\ sess[s].at # "update" BY DEF Reports!Init, Reports!Idle
<1>2. Reports!TypeOK BY DEF Reports!Init, Reports!TypeOK
<1> QED BY <1>1, <1>2 DEF IncidentInv, Reports!Init

\* An update that is committed, on whatever copy, leaves a row that is followed up.
LEMMA UpdateFollows ==
    ASSUME FiniteStaff, IncidentInv, NEW s \in Sessions, NEW st \in Reports!Status, NEW sev \in Reports!Severity,
           Reports!UpdateCommit(s, st, sev)
    PROVE  /\ incident' \in Reports!Incident /\ told' \in SUBSET Staff /\ told \subseteq told'
           /\ Followed(incident', told') /\ DatesLast(incident, incident')
<1> DEFINE c == sess[s].copy
           more == IF Reports!Raised(c.severity, sev) THEN c.escalation_count + 1 ELSE c.escalation_count
           res == IF st = "resolved" /\ st # c.status THEN TRUE ELSE c.resolved
           clo == IF st = "closed" /\ st # c.status THEN TRUE ELSE c.closed
           n == [status |-> st, severity |-> sev, escalation_count |-> more, resolved |-> res, closed |-> clo]
<1>1. /\ c \in Reports!Incident /\ incident \in Reports!Incident /\ told \in SUBSET Staff
      /\ Followed(c, told) /\ Followed(incident, told) /\ DatesLast(c, incident)
  BY DEF IncidentInv, Reports!UpdateCommit, Reports!TypeOK, Reports!Idle
<1>2. [c EXCEPT !.status = st, !.severity = sev,
                !.resolved = @ \/ (st = "resolved" /\ st # c.status),
                !.closed = @ \/ (st = "closed" /\ st # c.status),
                !.escalation_count = IF Reports!Raised(c.severity, sev) THEN @ + 1 ELSE @] = n
  <2>1. (c.resolved \/ (st = "resolved" /\ st # c.status)) = res BY <1>1 DEF Reports!Incident
  <2>2. (c.closed \/ (st = "closed" /\ st # c.status)) = clo BY <1>1 DEF Reports!Incident
  <2>3. [c EXCEPT !.status = st, !.severity = sev, !.resolved = res, !.closed = clo, !.escalation_count = more] = n
    <3>1. res \in BOOLEAN /\ clo \in BOOLEAN BY <1>1 DEF Reports!Incident
    <3>2. c.escalation_count \in Int BY <1>1 DEF Reports!Incident
    <3>3. more \in Int BY <3>2
    <3> HIDE DEF more, res, clo, c
    <3> DEFINE e == [c EXCEPT !.status = st, !.severity = sev, !.resolved = res, !.closed = clo,
                              !.escalation_count = more]
               D == {"status", "severity", "escalation_count", "resolved", "closed"}
    <3>4. c = [f \in D |-> c[f]] /\ DOMAIN c = D BY <1>1 DEF Reports!Incident
    <3>5. e = [f \in D |-> e[f]] BY <3>4
    <3>6. e.status = st /\ e.severity = sev BY <3>4
    <3>7. e.resolved = res /\ e.closed = clo BY <3>4, <3>1
    <3>8. e.escalation_count = more BY <3>4
    <3> SUFFICES ASSUME NEW x, x = e PROVE x = n
      BY Zenon
    <3>9. /\ x = [f \in D |-> x[f]] /\ x.status = st /\ x.severity = sev
          /\ x.escalation_count = more /\ x.resolved = res /\ x.closed = clo
      BY <3>5, <3>6, <3>7, <3>8, Zenon
    <3> HIDE DEF e
    <3> QED BY <3>9
  <2> QED BY <2>1, <2>2, <2>3
<1>3. /\ st = c.status \/ <<c.status, st>> \in Reports!TRANSITIONS
      /\ incident' = Reports!Written(incident, c, n)
      /\ IF Reports!Raised(c.severity, sev) THEN Reports!CanEscalate /\ told' = told \cup recipients ELSE told' = told
  BY <1>2 DEF Reports!UpdateCommit
<1>4. /\ told' \in SUBSET Staff /\ told \subseteq told'
      /\ more \in 0 .. Cardinality(told') /\ Cardinality(told') \in Nat
      /\ Cardinality(told') <= Cardinality(Staff) /\ Cardinality(Staff) \in Nat
      /\ Reports!Raised(c.severity, sev) => told' # {}
  <2>1. c.escalation_count \in Nat /\ c.escalation_count <= Cardinality(told)
    BY <1>1 DEF Reports!Incident, Followed
  <2>2. CASE Reports!Raised(c.severity, sev)
    <3>1. Reports!CanEscalate /\ told' = told \cup recipients /\ more = c.escalation_count + 1 BY <1>3, <2>2
    <3>2. Reports!TypeOK BY DEF IncidentInv
    <3> HIDE DEF more
    <3>3. /\ told' \in SUBSET Staff /\ told' # {} /\ told \subseteq told'
          /\ Cardinality(told) + 1 <= Cardinality(told') /\ Cardinality(told') <= Cardinality(Staff)
          /\ Cardinality(told) \in Nat /\ Cardinality(told') \in Nat /\ Cardinality(Staff) \in Nat
      BY <3>1, <3>2, TellingCounts
    <3>4. more \in 0 .. Cardinality(told') BY <2>1, <3>1, <3>3
    <3> QED BY <3>3, <3>4
  <2>3. CASE ~Reports!Raised(c.severity, sev)
    <3>1. told' = told BY <1>3, <2>3
    <3>2. /\ Cardinality(told) \in Nat /\ Cardinality(Staff) \in Nat /\ Cardinality(told) <= Cardinality(Staff)
      BY <1>1, FS_Subset, FS_CardinalityType DEF FiniteStaff
    <3> QED BY <1>1, <2>1, <2>3, <3>1, <3>2
  <2> QED BY <2>2, <2>3
<1>5. n \in Reports!Incident
  <2>1. more \in 0 .. Reports!Cardinality(Staff) BY <1>4, StaffCardinality
  <2>2. res \in BOOLEAN /\ clo \in BOOLEAN BY <1>1 DEF Reports!Incident
  <2> HIDE DEF res, clo, more
  <2> QED BY <2>1, <2>2 DEF Reports!Incident
<1>6. /\ incident' \in Reports!Incident
      /\ incident'.status = IF st # c.status THEN st ELSE incident.status
      /\ incident'.severity = IF sev # c.severity THEN sev ELSE incident.severity
      /\ incident'.escalation_count = IF more # c.escalation_count THEN more ELSE incident.escalation_count
      /\ incident'.resolved = IF res # c.resolved THEN res ELSE incident.resolved
      /\ incident'.closed = IF clo # c.closed THEN clo ELSE incident.closed
  <2>1. n.status = st /\ n.severity = sev /\ n.escalation_count = more /\ n.resolved = res /\ n.closed = clo OBVIOUS
  <2> HIDE DEF n
  <2>2. incident' = [status |-> IF n.status # c.status THEN n.status ELSE incident.status,
                     severity |-> IF n.severity # c.severity THEN n.severity ELSE incident.severity,
                     escalation_count |-> IF n.escalation_count # c.escalation_count
                                          THEN n.escalation_count ELSE incident.escalation_count,
                     resolved |-> IF n.resolved # c.resolved THEN n.resolved ELSE incident.resolved,
                     closed |-> IF n.closed # c.closed THEN n.closed ELSE incident.closed]
    BY <1>1, <1>3, <1>5, IncidentWritten
  <2> HIDE DEF c, res, clo, more
  <2>3. incident' \in Reports!Incident BY <1>1, <1>5, <2>2 DEF Reports!Incident
  <2> QED BY <2>1, <2>2, <2>3
<1>7. /\ incident'.resolved <=> res \/ incident.resolved
      /\ incident'.closed <=> clo \/ incident.closed
  BY <1>1, <1>6 DEF DatesLast, Reports!Incident
<1>8. incident'.escalation_count <= Cardinality(told')
  <2>1. Followed(incident, told') BY <1>1, <1>4, TellingMore
  <2> QED BY <1>4, <1>6, <2>1 DEF Followed
<1>9. incident'.severity = "critical" => told' # {} /\ incident'.escalation_count > 0
  <2>1. c.escalation_count \in Nat /\ incident.escalation_count \in Nat BY <1>1 DEF Reports!Incident
  <2>2. CASE Reports!Raised(c.severity, sev) BY <1>4, <1>6, <2>1, <2>2
  <2>3. CASE ~Reports!Raised(c.severity, sev)
    BY <1>1, <1>4, <1>6, <2>1, <2>3 DEF Reports!Raised, Followed
  <2> QED BY <2>2, <2>3
<1>10. incident'.status = "resolved" => incident'.resolved
  BY <1>1, <1>6, <1>7 DEF Followed
<1>11. incident'.status = "closed" => incident'.resolved /\ incident'.closed
  <2>1. CASE st # c.status /\ st = "closed"
    <3>1. c.status = "resolved" BY <1>3, <2>1 DEF Reports!TRANSITIONS
    <3> QED BY <1>1, <1>7, <2>1, <3>1 DEF Followed
  <2>2. CASE st = c.status BY <1>1, <1>6, <1>7, <2>2 DEF Followed
  <2> QED BY <1>6, <2>1, <2>2
<1>12. DatesLast(incident, incident') BY <1>7 DEF DatesLast
<1> QED BY <1>4, <1>6, <1>8, <1>9, <1>10, <1>11, <1>12 DEF Followed

LEMMA StepIncident == ASSUME FiniteStaff, IncidentInv, [Reports!Next]_Reports!vars PROVE IncidentInv'
<1>t. Reports!TypeOK /\ sess \in [Sessions -> Updating] /\ Reports!Idle \in Updating /\ Reports!Idle.at # "update"
  BY DEF IncidentInv, Reports!TypeOK, Updating, Reports!Idle
<1>1. ASSUME UNCHANGED <<incident, told>>, recipients' \in (SUBSET Staff) \ {{}}, sess' \in [Sessions -> Updating],
             \A s \in Sessions : \/ sess'[s] = sess[s]
                                 \/ sess'[s] = Reports!Idle
                                 \/ incident # Reports!NoIncident /\ sess'[s].copy = incident
      PROVE  IncidentInv'
  <2>1. Reports!TypeOK' BY <1>1, <1>t DEF Reports!TypeOK, Updating
  <2> QED BY <1>1, <1>t, <2>1 DEF IncidentInv, DatesLast
<1>2. ASSUME NEW set \in SUBSET Staff, Reports!ChangeRoles(set) PROVE IncidentInv'
  BY <1>1, <1>2, <1>t DEF Reports!ChangeRoles
<1>3. ASSUME NEW s \in Sessions, Reports!UpdateRead(s) PROVE IncidentInv'
  <2>1. incident \in Reports!Incident BY <1>3, <1>t DEF Reports!UpdateRead, Reports!TypeOK
  <2>2. [at |-> "update", copy |-> incident] \in Updating BY <2>1 DEF Updating
  <2>3. sess' \in [Sessions -> Updating] BY <1>3, <1>t, <2>2 DEF Reports!UpdateRead
  <2> QED BY <1>1, <1>3, <1>t, <2>3 DEF Reports!UpdateRead, Reports!TypeOK
<1>4. ASSUME NEW s \in Sessions, Reports!UpdateFails(s) PROVE IncidentInv'
  BY <1>1, <1>4, <1>t DEF Reports!UpdateFails, Reports!TypeOK
<1>5. ASSUME NEW sev \in Reports!Severity, Reports!Create(sev) PROVE IncidentInv'
  <2>1. \A s \in Sessions : sess[s].at # "update" BY <1>5 DEF Reports!Create, IncidentInv
  <2>2. /\ told' \in SUBSET Staff /\ sess' = sess /\ recipients' = recipients
        /\ incident' = [status |-> "open", severity |-> sev, resolved |-> FALSE, closed |-> FALSE,
                        escalation_count |-> IF sev = "critical" THEN 1 ELSE 0]
    BY <1>5, <1>t DEF Reports!Create, Reports!TypeOK
  <2>3. Cardinality(told') \in Nat /\ Cardinality(told') <= Cardinality(Staff) /\ Cardinality(Staff) \in Nat
    BY <2>2, FS_Subset, FS_CardinalityType DEF FiniteStaff
  <2>4. sev = "critical" => told' # {} /\ Cardinality(told') >= 1
    <3>1. SUFFICES ASSUME sev = "critical" PROVE told' # {} /\ Cardinality(told') >= 1 OBVIOUS
    <3>2. told' # {} BY <1>5, <1>t, <3>1 DEF Reports!Create, Reports!TypeOK
    <3> QED BY <2>2, <2>3, <3>2, FS_Subset, FS_EmptySet DEF FiniteStaff
  <2>5. incident' \in Reports!Incident
    <3>1. (IF sev = "critical" THEN 1 ELSE 0) \in 0 .. Reports!Cardinality(Staff) BY <2>3, <2>4, StaffCardinality
    <3>2. "open" \in Reports!Status
      <4>1. <<"open", "cancelled">>[1] = "open" /\ <<"open", "cancelled">> \in Reports!TRANSITIONS
        BY DEF Reports!TRANSITIONS
      <4> QED BY <4>1 DEF Reports!Status
    <3> QED BY <2>2, <3>1, <3>2 DEF Reports!Incident
  <2>6. Followed(incident', told') BY <2>2, <2>3, <2>4 DEF Followed
  <2>7. Reports!TypeOK' BY <1>t, <2>2, <2>5 DEF Reports!TypeOK
  <2> QED BY <2>1, <2>2, <2>6, <2>7 DEF IncidentInv
<1>6. ASSUME NEW s \in Sessions, NEW st \in Reports!Status, NEW sev \in Reports!Severity,
             Reports!UpdateCommit(s, st, sev)
      PROVE  IncidentInv'
  <2>1. /\ incident' \in Reports!Incident /\ told' \in SUBSET Staff /\ told \subseteq told'
        /\ Followed(incident', told') /\ DatesLast(incident, incident')
    BY <1>6, UpdateFollows
  <2>2. recipients' = recipients /\ sess' = [sess EXCEPT ![s] = Reports!Idle] BY <1>6 DEF Reports!UpdateCommit
  <2>3. Reports!TypeOK' BY <1>t, <2>1, <2>2 DEF Reports!TypeOK
  <2>4. ASSUME NEW r \in Sessions, sess'[r].at = "update"
        PROVE  /\ incident' # Reports!NoIncident
               /\ Followed(sess'[r].copy, told') /\ DatesLast(sess'[r].copy, incident')
    <3>1. sess'[r] = sess[r] BY <1>t, <2>2, <2>4
    <3>2. /\ sess[r].copy \in Reports!Incident /\ told \in SUBSET Staff
          /\ Followed(sess[r].copy, told) /\ DatesLast(sess[r].copy, incident)
      BY <1>t, <2>4, <3>1 DEF IncidentInv, Updating, Reports!TypeOK
    <3>3. Followed(sess[r].copy, told') BY <2>1, <3>2, TellingMore
    <3>4. DatesLast(sess[r].copy, incident') BY <2>1, <3>2 DEF DatesLast
    <3>5. incident' # Reports!NoIncident
      <4>1. Reports!NoIncident \notin Reports!Incident BY DEF Reports!Incident, Reports!NoIncident
      <4> QED BY <2>1, <4>1
    <3> QED BY <3>1, <3>3, <3>4, <3>5
  <2> QED BY <2>1, <2>3, <2>4 DEF IncidentInv
<1>7. CASE UNCHANGED Reports!vars
  BY <1>1, <1>7, <1>t DEF Reports!vars, Reports!TypeOK
<1> QED BY <1>2, <1>3, <1>4, <1>5, <1>6, <1>7 DEF Reports!Next

LEMMA IncidentMeans == IncidentInv => Reports!FollowedUp
BY StaffCardinality DEF IncidentInv, Reports!FollowedUp, Followed

THEOREM IncidentsAreFollowedUp == FiniteStaff => (Reports!Spec => []Reports!FollowedUp)
<1> SUFFICES ASSUME FiniteStaff PROVE Reports!Spec => []Reports!FollowedUp OBVIOUS
<1>1. Reports!Init => IncidentInv BY InitIncident
<1>2. IncidentInv /\ [Reports!Next]_Reports!vars => IncidentInv' BY StepIncident
<1> QED BY <1>1, <1>2, IncidentMeans, PTL DEF Reports!Spec

-----------------------------------------------------------------------------
(* Certificates and badges: Awards.                                        *)

\* An award as it is issued.
Given(doc, p) == [doc |-> doc, to |-> p, status |-> "issued"]

\* An award or a lock that is held is one of an award that nobody else is
\* about to issue, and that nobody has.
AwardInv ==
    /\ award \in [Rows -> Prizes!Award \cup {Prizes!NoAward}]
    /\ lock \in [Sessions -> [doc : Docs, to : Prizes!Recipients] \cup {Prizes!Free}]
    /\ \A a, b \in Rows : award[a] = award[b] /\ award[a].status = "issued" => a = b
    /\ \A s, t \in Sessions : lock[s] = lock[t] /\ lock[s] # Prizes!Free => s = t
    /\ \A s \in Sessions, a \in Rows :
          lock[s] # Prizes!Free => award[a] # Given(lock[s].doc, lock[s].to)

\* The counters and statuses that the rest of the system sets.
CountersOK ==
    /\ completed \in BOOLEAN
    /\ reg \in {"pending", "confirmed", "checked_in", "completed", "cancelled"}
    /\ scans \in [Prizes!Recipients -> 0 .. MaxScans]
    /\ final \in Prizes!Final

\* The model's cardinality is the library's.
LEMMA AwardCardinality == \A S : Prizes!Cardinality(S) = Cardinality(S)
BY DEF Prizes!Cardinality, Cardinality

\* What nobody issues twice, nobody has twice.
LEMMA ActiveOnce == AwardInv => Prizes!OneActiveAward
<1> SUFFICES ASSUME AwardInv, NEW doc \in Docs, NEW p \in Prizes!Recipients
             PROVE  Prizes!Cardinality(Prizes!Active(doc, p)) <= 1
  BY DEF Prizes!OneActiveAward
<1>1. \A a, b \in Prizes!Active(doc, p) : a = b BY DEF Prizes!Active, AwardInv
<1>2. CASE Prizes!Active(doc, p) = {}
  BY <1>2, AwardCardinality, FS_EmptySet
<1>3. CASE Prizes!Active(doc, p) # {}
  <2>1. PICK a : a \in Prizes!Active(doc, p) BY <1>3
  <2>2. Prizes!Active(doc, p) = {a} BY <1>1, <2>1
  <2>3. Cardinality({a}) = 1 BY FS_Singleton
  <2> QED BY <2>2, <2>3, AwardCardinality
<1> QED BY <1>2, <1>3

LEMMA InitAward == ASSUME MaxScans \in Nat, Prizes!Init PROVE AwardInv /\ CountersOK
<1>1. CountersOK
  <2>1. scans \in [Prizes!Recipients -> 0 .. MaxScans] BY DEF Prizes!Init
  <2>2. completed \in BOOLEAN BY DEF Prizes!Init
  <2> QED BY <2>1, <2>2 DEF Prizes!Init, CountersOK, Prizes!Final
<1>2. AwardInv BY DEF Prizes!Init, AwardInv, Prizes!NoAward, Prizes!Free, Given
<1> QED BY <1>1, <1>2

\* The lock is free and nobody has the award when a request starts to issue it.
LEMMA IssueCheckStep ==
    ASSUME AwardInv, NEW s \in Sessions, NEW doc \in Docs, NEW p \in Prizes!Recipients, Prizes!IssueCheck(s, doc, p)
    PROVE  AwardInv'
<1> DEFINE mine == [doc |-> doc, to |-> p]
<1>1. /\ \A t \in Sessions : lock[t] # mine
      /\ \A a \in Rows : award[a] # Given(doc, p)
      /\ lock' = [lock EXCEPT ![s] = mine] /\ award' = award
  BY DEF Prizes!IssueCheck, Prizes!LockFree, Prizes!Active, Given
<1>2. mine.doc = doc /\ mine.to = p /\ mine \in [doc : Docs, to : Prizes!Recipients] OBVIOUS
<1> HIDE DEF mine
<1>3. \A t \in Sessions : lock'[t] = IF t = s THEN mine ELSE lock[t] BY <1>1 DEF AwardInv
<1>4. lock' \in [Sessions -> [doc : Docs, to : Prizes!Recipients] \cup {Prizes!Free}] BY <1>1, <1>2 DEF AwardInv
<1> QED BY <1>1, <1>2, <1>3, <1>4 DEF AwardInv

\* The lock goes when the award is issued.
LEMMA IssueCommitStep ==
    ASSUME AwardInv, NEW s \in Sessions, NEW a \in Rows, Prizes!IssueCommit(s, a)
    PROVE  AwardInv'
<1> DEFINE new == Given(lock[s].doc, lock[s].to)
<1>1. /\ lock[s] # Prizes!Free
      /\ award' = [award EXCEPT ![a] = new]
      /\ lock' = [lock EXCEPT ![s] = Prizes!Free]
  BY DEF Prizes!IssueCommit, Given
<1>2. lock[s] \in [doc : Docs, to : Prizes!Recipients] BY <1>1 DEF AwardInv
<1>3. new \in Prizes!Award /\ new.status = "issued" BY <1>2 DEF Given, Prizes!Award
<1>4. \A b \in Rows : award[b] # new BY <1>1 DEF AwardInv
<1>5. \A t \in Sessions : t # s /\ lock[t] # Prizes!Free => new # Given(lock[t].doc, lock[t].to)
  <2> SUFFICES ASSUME NEW t \in Sessions, t # s, lock[t] # Prizes!Free, new = Given(lock[t].doc, lock[t].to) PROVE FALSE
    OBVIOUS
  <2>1. lock[t] \in [doc : Docs, to : Prizes!Recipients] BY DEF AwardInv
  <2>2. lock[t].doc = lock[s].doc /\ lock[t].to = lock[s].to BY DEF Given
  <2>3. lock[t] = lock[s] BY <2>1, <2>2, <1>2
  <2> QED BY <2>3, <1>1 DEF AwardInv
<1> HIDE DEF new
<1>6. \A t \in Sessions : lock'[t] = IF t = s THEN Prizes!Free ELSE lock[t] BY <1>1 DEF AwardInv
<1>7. \A b \in Rows : award'[b] = IF b = a THEN new ELSE award[b] BY <1>1 DEF AwardInv
<1>8. award' \in [Rows -> Prizes!Award \cup {Prizes!NoAward}] BY <1>1, <1>3 DEF AwardInv
<1>9. lock' \in [Sessions -> [doc : Docs, to : Prizes!Recipients] \cup {Prizes!Free}] BY <1>1 DEF AwardInv
<1>10. \A b, c \in Rows : award'[b] = award'[c] /\ award'[b].status = "issued" => b = c BY <1>4, <1>7 DEF AwardInv
<1>11. \A t, u \in Sessions : lock'[t] = lock'[u] /\ lock'[t] # Prizes!Free => t = u BY <1>6 DEF AwardInv
<1>12. \A t \in Sessions, b \in Rows : lock'[t] # Prizes!Free => award'[b] # Given(lock'[t].doc, lock'[t].to)
  BY <1>5, <1>6, <1>7 DEF AwardInv
<1> QED BY <1>8, <1>9, <1>10, <1>11, <1>12 DEF AwardInv

\* A lock goes, or an award is revoked: less is issued than before.
LEMMA LessIssued ==
    ASSUME AwardInv,
           \/ \E s \in Sessions : Prizes!IssueFails(s)
           \/ \E a \in Rows : Prizes!Revoke(a)
    PROVE  AwardInv'
<1>1. ASSUME NEW s \in Sessions, Prizes!IssueFails(s) PROVE AwardInv'
  <2>1. \A t \in Sessions : lock'[t] = IF t = s THEN Prizes!Free ELSE lock[t] BY <1>1 DEF Prizes!IssueFails, AwardInv
  <2>2. /\ lock' \in [Sessions -> [doc : Docs, to : Prizes!Recipients] \cup {Prizes!Free}]
        /\ award' = award
    BY <1>1 DEF Prizes!IssueFails, AwardInv
  <2> QED BY <2>1, <2>2 DEF AwardInv
<1>2. ASSUME NEW a \in Rows, Prizes!Revoke(a) PROVE AwardInv'
  <2> DEFINE new == [award[a] EXCEPT !.status = "revoked"]
  <2>1. award' = [award EXCEPT ![a] = new] /\ award[a] # Prizes!NoAward /\ lock' = lock
    BY <1>2 DEF Prizes!Revoke
  <2>2. award[a] \in Prizes!Award BY <2>1 DEF AwardInv
  <2>3. new \in Prizes!Award /\ new.status = "revoked" BY <2>2 DEF Prizes!Award
  <2> HIDE DEF new
  <2>4. \A b \in Rows : award'[b] = IF b = a THEN new ELSE award[b] BY <2>1 DEF AwardInv
  <2>5. award' \in [Rows -> Prizes!Award \cup {Prizes!NoAward}] BY <2>1, <2>3 DEF AwardInv
  <2>6. \A doc, p : new # Given(doc, p) BY <2>3 DEF Given
  <2>7. \A b, c \in Rows : award'[b] = award'[c] /\ award'[b].status = "issued" => b = c BY <2>3, <2>4 DEF AwardInv
  <2> QED BY <2>1, <2>4, <2>5, <2>6, <2>7 DEF AwardInv
<1> QED BY <1>1, <1>2

LEMMA AwardNext == ASSUME AwardInv, [Prizes!Next]_Prizes!vars PROVE AwardInv'
<1>1. CASE UNCHANGED <<award, lock>> BY <1>1 DEF AwardInv
<1>2. CASE UNCHANGED Prizes!vars BY <1>2, <1>1 DEF Prizes!vars
<1>3. CASE Prizes!Next
  <2>1. CASE \/ Prizes!CompleteEvent
             \/ \E st \in {"checked_in", "completed", "cancelled"} : Prizes!MoveRegistration(st)
             \/ \E p \in Prizes!Recipients : Prizes!Scan(p)
             \/ \E o \in Prizes!Final : Prizes!PlayFinal(o)
    BY <2>1, <1>1 DEF Prizes!CompleteEvent, Prizes!MoveRegistration, Prizes!Scan, Prizes!PlayFinal
  <2> QED BY <1>3, <2>1, IssueCheckStep, IssueCommitStep, LessIssued DEF Prizes!Next
<1> QED BY <1>2, <1>3

LEMMA CountersNext == ASSUME MaxScans \in Nat, CountersOK, [Prizes!Next]_Prizes!vars PROVE CountersOK'
<1> USE DEF CountersOK
<1>1. CASE UNCHANGED <<completed, reg, scans, final>> BY <1>1
<1>2. CASE UNCHANGED Prizes!vars BY <1>2 DEF Prizes!vars
<1>3. CASE Prizes!Next
  <2>1. CASE Prizes!CompleteEvent BY <2>1 DEF Prizes!CompleteEvent
  <2>2. ASSUME NEW st \in {"checked_in", "completed", "cancelled"}, Prizes!MoveRegistration(st) PROVE CountersOK'
    BY <2>2 DEF Prizes!MoveRegistration
  <2>3. ASSUME NEW p \in Prizes!Recipients, Prizes!Scan(p) PROVE CountersOK'
    <3>1. scans[p] + 1 \in 0 .. MaxScans BY <2>3 DEF Prizes!Scan
    <3> QED BY <2>3, <3>1 DEF Prizes!Scan
  <2>4. ASSUME NEW o \in Prizes!Final, Prizes!PlayFinal(o) PROVE CountersOK' BY <2>4 DEF Prizes!PlayFinal
  <2>5. CASE \/ \E s \in Sessions :
                   \/ \E doc \in Docs, p \in Prizes!Recipients : Prizes!IssueCheck(s, doc, p)
                   \/ \E a \in Rows : Prizes!IssueCommit(s, a)
                   \/ Prizes!IssueFails(s)
             \/ \E a \in Rows : Prizes!Revoke(a)
    BY <2>5, <1>1 DEF Prizes!IssueCheck, Prizes!IssueCommit, Prizes!IssueFails, Prizes!Revoke
  <2> QED BY <1>3, <2>1, <2>2, <2>3, <2>4, <2>5 DEF Prizes!Next
<1> QED BY <1>2, <1>3

\* Awards.OneActiveAward: nobody holds one certificate or badge twice, for any
\* number of managers who issue it at once, and the columns keep their values.
THEOREM AwardsAreSingle ==
    ASSUME MaxScans \in Nat PROVE Prizes!Spec => [](Prizes!TypeOK /\ Prizes!OneActiveAward)
<1>1. AwardInv /\ CountersOK => Prizes!TypeOK /\ Prizes!OneActiveAward
  BY ActiveOnce DEF AwardInv, CountersOK, Prizes!TypeOK
<1>2. Prizes!Init => AwardInv /\ CountersOK BY InitAward
<1>3. (AwardInv /\ CountersOK) /\ [Prizes!Next]_Prizes!vars => (AwardInv /\ CountersOK)' BY AwardNext, CountersNext
<1> QED BY <1>1, <1>2, <1>3, PTL DEF Prizes!Spec

-----------------------------------------------------------------------------
(* Rewards for referrals: Referrals.                                       *)

\* Finitely many rewards are tracked.
FiniteRows == IsFiniteSet(Rows)

\* An evaluation has chosen the row, or has issued its reward.
Choosing(s, w) == sess[s].at \in {"referral", "commit"} /\ sess[s].row = w
Chosen(w) == reward[w].status = "issued" \/ \E s \in Sessions : Choosing(s, w)

\* Rows whose reward has been issued.
IssuedRows == {w \in Rows : reward[w].status = "issued"}

\* Whose reward is evaluated has been admitted, and then found to have paid; a
\* chosen row is the only one of its registration, and stays so, because no
\* evaluation chooses between several.
ChoiceSound ==
    /\ \A s \in Sessions :
          /\ sess[s].at \in {"payment", "reward"} => sess[s].for \in visits
          /\ sess[s].at = "reward" => sess[s].for \in verified
          /\ sess[s].at \in {"referral", "commit"} => sess[s].was = "tracked"
    /\ \A g \in Registrations : pay[g] = "verified" => g \in verified
    /\ \A w \in Rows : Chosen(w) => reward[w] # Rewards!NoReward /\ reward[w].for \in visits \cap verified
    /\ \A v, w \in Rows : Chosen(v) /\ Chosen(w) /\ reward[v].for = reward[w].for => v = w

RewardInv ==
    /\ Rewards!TypeOK
    /\ ChoiceSound
    /\ ~late => total = Cardinality(IssuedRows)

\* The model's cardinality is the library's.
LEMMA RewardCardinality == \A S : Rewards!Cardinality(S) = Cardinality(S)
BY DEF Rewards!Cardinality, Cardinality

\* What an evaluation may have read.
Evaluating ==
    {Rewards!Idle, [at |-> "profile"]}
    \cup [at : {"payment", "reward"}, for : Registrations]
    \cup [at : {"referral"}, row : Rows, was : {"tracked", "issued"}]
    \cup [at : {"commit"}, row : Rows, was : {"tracked", "issued"}, total : Nat]

\* The sessions after a step of one of them.
LEMMA RewardSessions ==
    ASSUME RewardInv, NEW s \in Sessions, NEW x \in Evaluating, sess' = [sess EXCEPT ![s] = x]
    PROVE  /\ sess' \in [Sessions -> Evaluating]
           /\ \A r \in Sessions : sess'[r] = IF r = s THEN x ELSE sess[r]
<1>1. sess \in [Sessions -> Evaluating] BY DEF RewardInv, Rewards!TypeOK, Evaluating
<1> QED BY <1>1

\* One row is chosen at most.
LEMMA RewardOnce == ASSUME FiniteRows, RewardInv PROVE Rewards!RewardedOnce
<1>1. ASSUME NEW g \in Registrations
      PROVE  /\ Rewards!Cardinality(Rewards!Issued(g)) <= 1
             /\ Rewards!Issued(g) # {} => g \in visits \cap verified
  <2>1. \A w \in Rewards!Issued(g) : w \in Rows /\ Chosen(w) /\ reward[w].for = g
    BY DEF Rewards!Issued, Rewards!Of, Chosen
  <2>2. \A v, w \in Rewards!Issued(g) : v = w BY <2>1 DEF RewardInv, ChoiceSound
  <2>3. CASE Rewards!Issued(g) = {} BY <2>3, RewardCardinality, FS_EmptySet
  <2>4. CASE Rewards!Issued(g) # {}
    <3>1. PICK w : w \in Rewards!Issued(g) BY <2>4
    <3>2. Rewards!Issued(g) = {w} BY <2>2, <3>1
    <3>3. Cardinality({w}) = 1 BY FS_Singleton
    <3>4. Rewards!Cardinality(Rewards!Issued(g)) <= 1 BY <3>2, <3>3, RewardCardinality
    <3>5. g \in visits \cap verified BY <3>1, <2>1 DEF RewardInv, ChoiceSound
    <3> QED BY <3>4, <3>5
  <2> QED BY <2>3, <2>4
<1>2. UNION {Rewards!Issued(g) : g \in Registrations} = IssuedRows
  BY DEF Rewards!Issued, Rewards!Of, IssuedRows, RewardInv, Rewards!TypeOK, Rewards!NoReward
<1>3. ~late => total = Rewards!Cardinality(UNION {Rewards!Issued(g) : g \in Registrations})
  BY <1>2, RewardCardinality DEF RewardInv
<1> QED BY <1>1, <1>3 DEF Rewards!RewardedOnce

LEMMA InitReward == Rewards!Init => RewardInv
<1> SUFFICES ASSUME Rewards!Init PROVE RewardInv OBVIOUS
<1>1. \A s \in Sessions : sess[s] = Rewards!Idle /\ sess[s].at = "idle" BY DEF Rewards!Init, Rewards!Idle
<1>2. \A w \in Rows : reward[w].status = "absent" BY DEF Rewards!Init, Rewards!NoReward
<1>3. Rewards!TypeOK
  <2>1. total \in Nat BY DEF Rewards!Init
  <2>2. profile \in BOOLEAN /\ late \in BOOLEAN BY DEF Rewards!Init
  <2> QED BY <2>1, <2>2 DEF Rewards!Init, Rewards!TypeOK
<1>4. ChoiceSound BY <1>1, <1>2 DEF Rewards!Init, ChoiceSound, Chosen, Choosing
<1>5. total = Cardinality(IssuedRows)
  <2>1. IssuedRows = {} BY <1>2 DEF IssuedRows
  <2> QED BY <2>1, FS_EmptySet DEF Rewards!Init
<1> QED BY <1>3, <1>4, <1>5 DEF RewardInv

\* The rest of the system admits, and records payments, and takes neither back.
LEMMA RewardsUntouched ==
    ASSUME RewardInv, UNCHANGED <<total, reward, late, sess, profile>>,
           visits \subseteq visits', verified \subseteq verified',
           visits' \subseteq Registrations, verified' \subseteq Registrations,
           reg' \in [Registrations -> {"confirmed", "checked_in", "completed", "cancelled"}],
           pay' \in [Registrations -> {"pending", "verified", "refunded"}],
           \A g \in Registrations : pay'[g] = "verified" => g \in verified'
    PROVE  RewardInv'
<1>1. Rewards!TypeOK' BY DEF RewardInv, Rewards!TypeOK
<1>2. \A w : Chosen(w)' = Chosen(w) BY DEF Chosen, Choosing
<1>3. ChoiceSound' BY <1>2 DEF RewardInv, ChoiceSound
<1>4. IssuedRows' = IssuedRows BY DEF IssuedRows
<1> QED BY <1>1, <1>3, <1>4 DEF RewardInv

LEMMA OutsideStep ==
    ASSUME RewardInv, NEW g \in Registrations,
           \/ \E st \in {"verified", "refunded"} : Rewards!MovePayment(g, st)
           \/ \E st \in {"checked_in", "completed", "cancelled"} : Rewards!MoveRegistration(g, st)
    PROVE  RewardInv'
<1> USE DEF RewardInv, Rewards!TypeOK
<1>1. ASSUME NEW st \in {"verified", "refunded"}, Rewards!MovePayment(g, st) PROVE RewardInv'
  <2>1. /\ UNCHANGED <<total, reward, late, sess, profile, visits, reg>>
        /\ verified' = verified \cup {g} /\ pay' = [pay EXCEPT ![g] = st]
    BY <1>1 DEF Rewards!MovePayment
  <2>2. pay' \in [Registrations -> {"pending", "verified", "refunded"}] BY <2>1
  <2>3. \A h \in Registrations : pay'[h] = "verified" => h \in verified' BY <2>1 DEF ChoiceSound
  <2> QED BY <2>1, <2>2, <2>3, RewardsUntouched
<1>2. ASSUME NEW st \in {"checked_in", "completed", "cancelled"}, Rewards!MoveRegistration(g, st) PROVE RewardInv'
  <2>1. /\ UNCHANGED <<total, reward, late, sess, profile, pay, verified>>
        /\ visits \subseteq visits' /\ visits' \subseteq visits \cup {g} /\ reg' = [reg EXCEPT ![g] = st]
    BY <1>2 DEF Rewards!MoveRegistration
  <2>2. reg' \in [Registrations -> {"confirmed", "checked_in", "completed", "cancelled"}] BY <2>1
  <2>3. \A h \in Registrations : pay'[h] = "verified" => h \in verified' BY <2>1 DEF ChoiceSound
  <2> QED BY <2>1, <2>2, <2>3, RewardsUntouched
<1> QED BY <1>1, <1>2

\* A tracked row has not been chosen.
LEMMA TrackStep ==
    ASSUME RewardInv, NEW w \in Rows, NEW g \in Registrations, Rewards!Track(w, g)
    PROVE  RewardInv'
<1> DEFINE new == [for |-> g, status |-> "tracked"]
<1>1. /\ reward[w] = Rewards!NoReward /\ reward' = [reward EXCEPT ![w] = new]
      /\ UNCHANGED <<profile, total, reg, pay, visits, verified, late, sess>>
  BY DEF Rewards!Track
<1>2. new.status = "tracked" /\ new \in [for : Registrations, status : {"tracked", "issued"}] OBVIOUS
<1> HIDE DEF new
<1>3. \A v \in Rows : reward'[v] = IF v = w THEN new ELSE reward[v] BY <1>1 DEF RewardInv, Rewards!TypeOK
<1>4. Rewards!TypeOK' BY <1>1, <1>2 DEF RewardInv, Rewards!TypeOK
<1>5. ~Chosen(w) BY <1>1 DEF RewardInv, ChoiceSound
<1>6. \A v \in Rows : Chosen(v)' = Chosen(v) BY <1>1, <1>2, <1>3, <1>5 DEF Chosen, Choosing
<1>7. ChoiceSound' BY <1>1, <1>3, <1>5, <1>6 DEF RewardInv, ChoiceSound
<1>8. IssuedRows' = IssuedRows BY <1>1, <1>2, <1>3 DEF IssuedRows, Rewards!NoReward
<1> QED BY <1>1, <1>4, <1>7, <1>8 DEF RewardInv

\* A session goes on, and chooses no row that was not chosen before.
LEMMA ReadingStep ==
    ASSUME RewardInv, NEW s \in Sessions, NEW x \in Evaluating, sess' = [sess EXCEPT ![s] = x],
           profile' \in BOOLEAN, UNCHANGED <<total, reward, reg, pay, visits, verified, late>>,
           x.at \in {"payment", "reward"} => x.for \in visits,
           x.at = "reward" => x.for \in verified,
           x.at \in {"referral", "commit"} =>
               /\ x.was = "tracked" /\ reward[x.row] # Rewards!NoReward
               /\ reward[x.row].for \in visits \cap verified
               /\ \A v \in Rows : Chosen(v) /\ reward[v].for = reward[x.row].for => v = x.row
    PROVE  RewardInv'
<1>1. /\ sess' \in [Sessions -> Evaluating]
      /\ \A r \in Sessions : sess'[r] = IF r = s THEN x ELSE sess[r]
  BY RewardSessions
<1>2. Rewards!TypeOK'
  <2>1. sess' \in [Sessions -> {Rewards!Idle, [at |-> "profile"]}
                   \cup [at : {"payment", "reward"}, for : Registrations]
                   \cup [at : {"referral"}, row : Rows, was : {"tracked", "issued"}]
                   \cup [at : {"commit"}, row : Rows, was : {"tracked", "issued"}, total : Nat]]
    BY <1>1 DEF Evaluating
  <2> QED BY <2>1 DEF RewardInv, Rewards!TypeOK
<1>3. \A v \in Rows : Chosen(v)' => Chosen(v) \/ (x.at \in {"referral", "commit"} /\ v = x.row)
  BY <1>1 DEF Chosen, Choosing
<1>4. ChoiceSound' BY <1>1, <1>3 DEF RewardInv, ChoiceSound
<1>5. IssuedRows' = IssuedRows BY DEF IssuedRows
<1> QED BY <1>2, <1>4, <1>5 DEF RewardInv

\* The profile is read and created.
LEMMA ProfileStep ==
    ASSUME RewardInv, NEW s \in Sessions, Rewards!ProfileRead(s) \/ Rewards!ProfileCreate(s)
    PROVE  RewardInv'
<1>1. CASE Rewards!ProfileRead(s)
  <2> DEFINE x == [at |-> "profile"]
  <2>1. /\ x \in Evaluating /\ x.at = "profile" /\ sess' = [sess EXCEPT ![s] = x]
        /\ UNCHANGED <<total, reward, reg, pay, visits, verified, late>>
    BY <1>1 DEF Rewards!ProfileRead, Rewards!To, Evaluating
  <2>2. profile' \in BOOLEAN BY <1>1 DEF Rewards!ProfileRead, RewardInv, Rewards!TypeOK
  <2> HIDE DEF x
  <2> QED BY <2>1, <2>2, ReadingStep
<1>2. CASE Rewards!ProfileCreate(s)
  <2> DEFINE x == Rewards!Idle
  <2>1. /\ x \in Evaluating /\ x.at = "idle" /\ sess' = [sess EXCEPT ![s] = x]
        /\ UNCHANGED <<total, reward, reg, pay, visits, verified, late>>
    BY <1>2 DEF Rewards!ProfileCreate, Rewards!To, Evaluating, Rewards!Idle
  <2>2. profile' \in BOOLEAN BY <1>2 DEF Rewards!ProfileCreate
  <2> HIDE DEF x
  <2> QED BY <2>1, <2>2, ReadingStep
<1> QED BY <1>1, <1>2

\* The reads of an evaluation: admitted, paid, the only row, its profile.
LEMMA EvaluationReads ==
    ASSUME FiniteRows, RewardInv, NEW s \in Sessions,
           \/ \E g \in Registrations : Rewards!EvaluateStart(s, g)
           \/ Rewards!EvaluatePayment(s) \/ Rewards!EvaluateReward(s) \/ Rewards!EvaluateReferral(s)
    PROVE  RewardInv'
<1>1. profile \in BOOLEAN /\ sess[s] \in Evaluating BY DEF RewardInv, Rewards!TypeOK, Evaluating
<1>2. Rewards!Idle \in Evaluating /\ Rewards!Idle.at = "idle" BY DEF Evaluating, Rewards!Idle
<1>3. ASSUME sess' = [sess EXCEPT ![s] = Rewards!Idle],
             UNCHANGED <<profile, total, reward, reg, pay, visits, verified, late>>
      PROVE  RewardInv'
  <2> DEFINE x == Rewards!Idle
  <2>1. x \in Evaluating /\ x.at = "idle" /\ sess' = [sess EXCEPT ![s] = x] BY <1>2, <1>3
  <2> HIDE DEF x
  <2> QED BY <2>1, <1>1, <1>3, ReadingStep
<1>4. ASSUME NEW g \in Registrations, Rewards!EvaluateStart(s, g) PROVE RewardInv'
  <2> DEFINE x == [at |-> "payment", for |-> g]
  <2>1. /\ x \in Evaluating /\ x.at = "payment" /\ x.for \in visits /\ sess' = [sess EXCEPT ![s] = x]
        /\ UNCHANGED <<profile, total, reward, reg, pay, visits, verified, late>>
    BY <1>4 DEF Rewards!EvaluateStart, Rewards!To, Evaluating
  <2> HIDE DEF x
  <2> QED BY <2>1, <1>1, ReadingStep
<1>5. CASE Rewards!EvaluatePayment(s)
  <2>1. CASE pay[sess[s].for] = "verified"
    <3> DEFINE x == [sess[s] EXCEPT !.at = "reward"]
    <3>1. sess[s].at = "payment" BY <1>5 DEF Rewards!EvaluatePayment
    <3>2. sess[s] \in [at : {"payment", "reward"}, for : Registrations]
      BY <1>1, <3>1 DEF Evaluating, Rewards!Idle
    <3>3. x \in Evaluating /\ x.at = "reward" /\ x.for = sess[s].for BY <3>2 DEF Evaluating
    <3>4. x.for \in visits /\ x.for \in verified
      BY <2>1, <3>1, <3>2, <3>3 DEF RewardInv, ChoiceSound
    <3>5. /\ sess' = [sess EXCEPT ![s] = x]
          /\ UNCHANGED <<profile, total, reward, reg, pay, visits, verified, late>>
      BY <1>5, <2>1 DEF Rewards!EvaluatePayment, Rewards!To
    <3> HIDE DEF x
    <3> QED BY <3>3, <3>4, <3>5, <1>1, ReadingStep
  <2>2. CASE pay[sess[s].for] # "verified"
    BY <1>5, <2>2, <1>3 DEF Rewards!EvaluatePayment, Rewards!To
  <2> QED BY <2>1, <2>2
<1>6. CASE Rewards!EvaluateReward(s)
  <2>1. ASSUME NEW w \in Rewards!Qualifying(sess[s].for),
               sess' = [sess EXCEPT ![s] = [at |-> "referral", row |-> w, was |-> reward[w].status]]
        PROVE  RewardInv'
    <3> DEFINE g == sess[s].for
               x == [at |-> "referral", row |-> w, was |-> "tracked"]
    <3>1. sess[s].at = "reward" BY <1>6 DEF Rewards!EvaluateReward
    <3>2. g \in Registrations /\ g \in visits /\ g \in verified
      BY <1>1, <3>1 DEF Evaluating, Rewards!Idle, RewardInv, ChoiceSound
    <3>3. /\ w \in Rewards!Of(g) /\ Cardinality(Rewards!Of(g)) = 1 /\ reward[w].status = "tracked"
      BY <2>1, RewardCardinality DEF Rewards!Qualifying
    <3>4. w \in Rows /\ reward[w] # Rewards!NoReward /\ reward[w].for = g BY <3>3 DEF Rewards!Of
    <3>5. IsFiniteSet(Rewards!Of(g)) BY FS_Subset DEF Rewards!Of, FiniteRows
    <3>10. PICK v : Rewards!Of(g) = {v} BY <3>3, <3>5, FS_Singleton
    <3>6. \A v2 \in Rows : Chosen(v2) /\ reward[v2].for = g => v2 = w
      BY <3>3, <3>10 DEF Rewards!Of, RewardInv, ChoiceSound
    <3>7. /\ x \in Evaluating /\ x.at = "referral" /\ x.row = w /\ x.was = "tracked"
          /\ sess' = [sess EXCEPT ![s] = x]
      BY <2>1, <3>3, <3>4 DEF Evaluating
    <3>8. UNCHANGED <<profile, total, reward, reg, pay, visits, verified, late>> BY <1>6 DEF Rewards!EvaluateReward
    <3> HIDE DEF x, g
    <3> QED BY <3>2, <3>4, <3>6, <3>7, <3>8, <1>1, ReadingStep
  <2> QED BY <1>6, <2>1, <1>3 DEF Rewards!EvaluateReward, Rewards!To
<1>7. CASE Rewards!EvaluateReferral(s)
  <2> DEFINE x == [at |-> "commit", row |-> sess[s].row, was |-> sess[s].was, total |-> total]
             w == sess[s].row
  <2>1. sess[s].at = "referral" BY <1>7 DEF Rewards!EvaluateReferral
  <2>2. w \in Rows /\ sess[s].was = "tracked"
    BY <1>1, <2>1 DEF Evaluating, Rewards!Idle, RewardInv, ChoiceSound
  <2>3. Chosen(w) BY <2>1 DEF Chosen, Choosing
  <2>4. total \in Nat BY DEF RewardInv, Rewards!TypeOK
  <2>5. x \in Evaluating /\ x.at = "commit" /\ x.row = w /\ x.was = "tracked" BY <2>2, <2>4 DEF Evaluating
  <2>6. /\ sess' = [sess EXCEPT ![s] = x]
        /\ UNCHANGED <<profile, total, reward, reg, pay, visits, verified, late>>
    BY <1>7 DEF Rewards!EvaluateReferral, Rewards!To
  <2> HIDE DEF x, w
  <2>7. /\ reward[w] # Rewards!NoReward /\ reward[w].for \in visits \cap verified
        /\ \A v \in Rows : Chosen(v) /\ reward[v].for = reward[w].for => v = w
    BY <2>2, <2>3 DEF RewardInv, ChoiceSound
  <2> QED BY <2>5, <2>6, <2>7, <1>1, ReadingStep
<1> QED BY <1>4, <1>5, <1>6, <1>7

\* A reward is issued: of a row that was chosen before; the total counts it if
\* nothing was written in between.
LEMMA EvaluateCommitStep ==
    ASSUME FiniteRows, RewardInv, NEW s \in Sessions, Rewards!EvaluateCommit(s)
    PROVE  RewardInv'
<1> DEFINE w == sess[s].row
           new == [reward[w] EXCEPT !.status = "issued"]
<1>1. /\ sess[s].at = "commit" /\ reward' = [reward EXCEPT ![w] = new]
      /\ total' = sess[s].total + 1 /\ sess' = [sess EXCEPT ![s] = Rewards!Idle]
      /\ UNCHANGED <<profile, reg, pay, visits, verified>>
  BY DEF Rewards!EvaluateCommit, Rewards!To
<1>2. late' = (late \/ total # sess[s].total \/ reward[w].status # sess[s].was) BY DEF Rewards!EvaluateCommit
<1>3. sess[s] \in Evaluating BY DEF RewardInv, Rewards!TypeOK, Evaluating
<1>4. w \in Rows /\ sess[s].total \in Nat /\ sess[s].was = "tracked"
  BY <1>1, <1>3 DEF Evaluating, Rewards!Idle, RewardInv, ChoiceSound
<1>5. Chosen(w) BY <1>1 DEF Chosen, Choosing
<1>6. reward[w] \in [for : Registrations, status : {"tracked", "issued"}]
  BY <1>4, <1>5 DEF RewardInv, ChoiceSound, Rewards!TypeOK
<1>7. /\ new \in [for : Registrations, status : {"tracked", "issued"}]
      /\ new.for = reward[w].for /\ new.status = "issued" /\ new # Rewards!NoReward
  BY <1>6 DEF Rewards!NoReward
<1> HIDE DEF new, w
<1>8. \A v \in Rows : reward'[v] = IF v = w THEN new ELSE reward[v] BY <1>1, <1>4 DEF RewardInv, Rewards!TypeOK
<1>9. Rewards!Idle \in Evaluating /\ Rewards!Idle.at = "idle" BY DEF Evaluating, Rewards!Idle
<1>10. /\ sess' \in [Sessions -> Evaluating]
       /\ \A r \in Sessions : sess'[r] = IF r = s THEN Rewards!Idle ELSE sess[r]
  BY <1>1, <1>9, RewardSessions
<1>11. Rewards!TypeOK'
  <2>1. sess' \in [Sessions -> {Rewards!Idle, [at |-> "profile"]}
                   \cup [at : {"payment", "reward"}, for : Registrations]
                   \cup [at : {"referral"}, row : Rows, was : {"tracked", "issued"}]
                   \cup [at : {"commit"}, row : Rows, was : {"tracked", "issued"}, total : Nat]]
    BY <1>10 DEF Evaluating
  <2>2. total' \in Nat BY <1>1, <1>4
  <2>3. late' \in BOOLEAN BY <1>2
  <2>4. reward' \in [Rows -> [for : Registrations, status : {"tracked", "issued"}] \cup {Rewards!NoReward}]
    BY <1>1, <1>7 DEF RewardInv, Rewards!TypeOK
  <2> QED BY <2>1, <2>2, <2>3, <2>4, <1>1 DEF RewardInv, Rewards!TypeOK
<1>12. \A v \in Rows : Chosen(v)' => Chosen(v) BY <1>5, <1>8, <1>9, <1>10 DEF Chosen, Choosing
<1>13. ChoiceSound' BY <1>1, <1>7, <1>8, <1>9, <1>10, <1>12 DEF RewardInv, ChoiceSound
<1>14. ASSUME ~late' PROVE total' = Cardinality(IssuedRows')
  <2>1. ~late /\ total = sess[s].total /\ reward[w].status = "tracked" BY <1>2, <1>4, <1>14
  <2>2. w \notin IssuedRows /\ IssuedRows' = IssuedRows \cup {w}
    BY <2>1, <1>4, <1>7, <1>8 DEF IssuedRows
  <2>3. IsFiniteSet(IssuedRows) BY FS_Subset DEF IssuedRows, FiniteRows
  <2>4. Cardinality(IssuedRows \cup {w}) = Cardinality(IssuedRows) + 1 BY <2>2, <2>3, FS_AddElement
  <2>5. total = Cardinality(IssuedRows) BY <2>1 DEF RewardInv
  <2> QED BY <1>1, <2>1, <2>2, <2>4, <2>5
<1> QED BY <1>11, <1>13, <1>14 DEF RewardInv

LEMMA RewardNext == ASSUME FiniteRows, RewardInv, [Rewards!Next]_Rewards!vars PROVE RewardInv'
<1>1. CASE UNCHANGED Rewards!vars
  <2>1. UNCHANGED <<total, reward, late, sess, profile, reg, pay, visits, verified>> BY <1>1 DEF Rewards!vars
  <2>2. \A g \in Registrations : pay'[g] = "verified" => g \in verified' BY <2>1 DEF RewardInv, ChoiceSound
  <2> QED BY <2>1, <2>2, RewardsUntouched DEF RewardInv, Rewards!TypeOK
<1>2. CASE Rewards!Next
  BY <1>2, OutsideStep, TrackStep, ProfileStep, EvaluationReads, EvaluateCommitStep DEF Rewards!Next
<1> QED BY <1>1, <1>2

\* Referrals.RewardedOnce: a registration earns one reward, which was paid for
\* and admitted, and the total counts the rewards unless evaluations overlapped,
\* for any finite number of tracked rewards and any number of evaluations.
THEOREM RewardsAreSingle ==
    ASSUME FiniteRows PROVE Rewards!Spec => [](Rewards!TypeOK /\ Rewards!RewardedOnce)
<1>1. RewardInv => Rewards!TypeOK /\ Rewards!RewardedOnce BY RewardOnce DEF RewardInv
<1>2. RewardInv /\ [Rewards!Next]_Rewards!vars => RewardInv' BY RewardNext
<1> QED BY <1>1, <1>2, InitReward, PTL DEF Rewards!Spec

-----------------------------------------------------------------------------
(* Teams, their members and registrations: TeamRoster.                     *)

\* The captain has an account, and NULL is no registration.
CaptainIsUser == Captain \in Users /\ NoReg \notin Regs

\* Accounts that may take part: what was accepted stays accepted, and whoever
\* has once asked to join has asked.
MayTakePart(who, invited, asked) ==
    /\ Captain \in who /\ who \in SUBSET Users
    /\ \A u \in who \ {Captain} : invited[u] = "accepted" \/ asked[u] # "none"

\* What a request may have loaded.
Loaded ==
    {Roster!Idle}
    \cup [op : {"loaded"}, team : Roster!Team]
    \cup [op : {"submit"}, status : Roster!TeamStatus, who : SUBSET Users]
    \cup [op : {"link"}, status : Roster!TeamStatus, reg : Regs]
    \cup [op : {"approve"}, status : Roster!TeamStatus]

\* The columns, the roster's agreement, and the roster that a submission has read.
RosterInv ==
    /\ team \in Roster!Team
    /\ members \in SUBSET Users /\ Captain \in members
    /\ invite \in [Users -> Roster!Answer]
    /\ join \in [Users -> Roster!Answer]
    /\ reg \in [Regs -> Roster!Registration \cup {Roster!None}]
    /\ req \in [Requests -> Loaded]
    /\ Roster!MembersAgreed
    /\ \A q \in Requests : req[q].op = "submit" => MayTakePart(req[q].who, invite, join)
    /\ \A r \in Regs : reg[r].status # "none" /\ reg[r].by = "submit" =>
          MayTakePart(reg[r].who, invite, join) /\ Roster!Cardinality(reg[r].who) <= MaxSize

LEMMA RosterTyped == RosterInv => Roster!TypeOK /\ Roster!MembersAgreed /\ Roster!SubmittedRosterFits
<1> SUFFICES ASSUME RosterInv PROVE Roster!TypeOK /\ Roster!MembersAgreed /\ Roster!SubmittedRosterFits
  OBVIOUS
<1>1. \A q \in Requests : req[q].op = "loaded" => req[q].team \in Roster!Team
  BY DEF RosterInv, Loaded, Roster!Idle
<1>2. Roster!TypeOK BY <1>1 DEF RosterInv, Roster!TypeOK
<1>3. Roster!SubmittedRosterFits BY DEF RosterInv, MayTakePart, Roster!SubmittedRosterFits
<1> QED BY <1>2, <1>3 DEF RosterInv

LEMMA InitRoster == ASSUME CaptainIsUser, Roster!Init PROVE RosterInv
<1>1. \A q \in Requests : req[q] = Roster!Idle /\ req[q].op = "idle" BY DEF Roster!Init, Roster!Idle
<1>2. req \in [Requests -> Loaded] BY DEF Roster!Init, Loaded
<1>3. \A r \in Regs : reg[r].status = "none" BY DEF Roster!Init, Roster!None
<1>4. reg \in [Regs -> Roster!Registration \cup {Roster!None}] BY DEF Roster!Init
<1>5. team \in Roster!Team BY DEF Roster!Init, Roster!Team, Roster!TeamStatus
<1>6. invite \in [Users -> Roster!Answer] /\ join \in [Users -> Roster!Answer] BY DEF Roster!Init, Roster!Answer
<1>7. members = {Captain} BY DEF Roster!Init
<1> QED BY <1>1, <1>2, <1>3, <1>4, <1>5, <1>6, <1>7 DEF RosterInv, CaptainIsUser, Roster!MembersAgreed

\* The requests after a step of one of them.
LEMMA RequestStep ==
    ASSUME RosterInv, NEW q \in Requests, NEW x \in Loaded, req' = [req EXCEPT ![q] = x]
    PROVE  /\ req' \in [Requests -> Loaded]
           /\ \A p \in Requests : req'[p] = IF p = q THEN x ELSE req[p]
BY DEF RosterInv

\* A request that has finished has loaded nothing.
LEMMA FinishStep ==
    ASSUME RosterInv, NEW q \in Requests, Roster!Finish(q)
    PROVE  /\ req' \in [Requests -> Loaded]
           /\ \A p \in Requests : req'[p].op # "idle" => req'[p] = req[p]
<1> DEFINE x == Roster!Idle
<1>1. x \in Loaded /\ x.op = "idle" BY DEF Loaded, Roster!Idle
<1>2. req' = [req EXCEPT ![q] = x] BY DEF Roster!Finish
<1> HIDE DEF x
<1> QED BY <1>1, <1>2, RequestStep

\* The row of the team after its status has been flushed.
LEMMA TeamFlushed ==
    ASSUME RosterInv, NEW seen \in Roster!TeamStatus, NEW st \in Roster!TeamStatus
    PROVE  Roster!Flushed(seen, st) \in Roster!TeamStatus
BY DEF RosterInv, Roster!Team, Roster!Flushed

\* The roster changes: only those who agreed join it, and what was accepted or
\* asked for stays so.
LEMMA RosterChanges ==
    ASSUME RosterInv, NEW q \in Requests, Roster!Finish(q), reg' = reg,
           team' \in Roster!Team,
           members' \in SUBSET Users, Captain \in members',
           invite' \in [Users -> Roster!Answer], join' \in [Users -> Roster!Answer],
           \A u \in Users : invite[u] = "accepted" => invite'[u] = "accepted",
           \A u \in Users : join[u] # "none" => join'[u] # "none",
           \A u \in members' \ {Captain} : invite'[u] = "accepted" \/ join'[u] = "accepted"
    PROVE  RosterInv'
<1>1. /\ req' \in [Requests -> Loaded]
      /\ \A p \in Requests : req'[p].op # "idle" => req'[p] = req[p]
  BY FinishStep
<1>2. \A who : MayTakePart(who, invite, join) => MayTakePart(who, invite', join') BY DEF MayTakePart
<1>3. Roster!MembersAgreed' BY DEF Roster!MembersAgreed
<1>4. \A p \in Requests : req'[p].op = "submit" => MayTakePart(req'[p].who, invite', join') BY <1>1, <1>2 DEF RosterInv
<1>5. \A r \in Regs : reg'[r].status # "none" /\ reg'[r].by = "submit" =>
          MayTakePart(reg'[r].who, invite', join') /\ Roster!Cardinality(reg'[r].who) <= MaxSize
  BY <1>2 DEF RosterInv
<1>6. reg' \in [Regs -> Roster!Registration \cup {Roster!None}] BY DEF RosterInv
<1> QED BY <1>1, <1>3, <1>4, <1>5, <1>6 DEF RosterInv

LEMMA RosterSteps ==
    ASSUME RosterInv, NEW q \in Requests, Roster!RosterStep(q)
    PROVE  RosterInv'
<1> USE DEF RosterInv
<1>0. /\ Captain \in Users /\ "pending" \in Roster!Answer /\ "accepted" \in Roster!Answer /\ "rejected" \in Roster!Answer
      /\ \A u \in members \ {Captain} : invite[u] = "accepted" \/ join[u] = "accepted"
  BY DEF Roster!Answer, Roster!MembersAgreed
<1>1. ASSUME NEW u \in Users, Roster!Invite(q, u) PROVE RosterInv'
  <2>1. /\ Roster!Finish(q) /\ UNCHANGED <<members, join, reg>> /\ invite[u] = "none"
        /\ invite' = [invite EXCEPT ![u] = "pending"] /\ req[q].op = "loaded"
        /\ team' = [team EXCEPT !.status = Roster!Flushed(req[q].team.status, "inviting")]
    BY <1>1 DEF Roster!Invite
  <2>2. req[q].team \in Roster!Team BY <2>1 DEF Loaded, Roster!Idle
  <2>3. req[q].team.status \in Roster!TeamStatus /\ "inviting" \in Roster!TeamStatus
    BY <2>2 DEF Roster!Team, Roster!TeamStatus
  <2>4. Roster!Flushed(req[q].team.status, "inviting") \in Roster!TeamStatus BY <2>3, TeamFlushed
  <2>5. team' \in Roster!Team BY <2>1, <2>4 DEF Roster!Team
  <2>6. /\ invite' \in [Users -> Roster!Answer]
        /\ \A v \in Users : invite[v] = "accepted" => invite'[v] = "accepted"
    BY <2>1, <1>0
  <2> QED BY <1>0, <2>1, <2>5, <2>6, RosterChanges
<1>2. ASSUME NEW u \in Users, Roster!RequestToJoin(q, u) PROVE RosterInv'
  <2>1. /\ Roster!Finish(q) /\ UNCHANGED <<team, members, invite, reg>>
        /\ u \notin members /\ join' = [join EXCEPT ![u] = "pending"]
    BY <1>2 DEF Roster!RequestToJoin, Roster!MayRequest
  <2>2. /\ join' \in [Users -> Roster!Answer]
        /\ \A v \in Users : join'[v] = IF v = u THEN "pending" ELSE join[v]
    BY <2>1, <1>0
  <2> QED BY <1>0, <2>1, <2>2, RosterChanges
<1>3. ASSUME NEW u \in Users, Roster!RemoveMember(q, u) \/ Roster!Leave(q, u) PROVE RosterInv'
  <2>1. /\ Roster!Finish(q) /\ UNCHANGED <<team, invite, join, reg>>
        /\ u # Captain /\ members' = members \ {u}
    BY <1>3 DEF Roster!RemoveMember, Roster!Leave
  <2> QED BY <1>0, <2>1, RosterChanges
<1>4. ASSUME NEW u \in Users, NEW yes \in BOOLEAN, Roster!AnswerInvitation(q, u, yes) PROVE RosterInv'
  <2>1. /\ Roster!Finish(q) /\ UNCHANGED <<team, join, reg>> /\ invite[u] = "pending"
        /\ invite' = [invite EXCEPT ![u] = IF yes THEN "accepted" ELSE "rejected"]
        /\ members' = IF yes THEN members \cup {u} ELSE members
    BY <1>4 DEF Roster!AnswerInvitation
  <2>2. /\ invite' \in [Users -> Roster!Answer]
        /\ \A v \in Users : invite'[v] = IF v = u THEN IF yes THEN "accepted" ELSE "rejected" ELSE invite[v]
    BY <2>1, <1>0
  <2> QED BY <1>0, <2>1, <2>2, RosterChanges
<1>5. ASSUME NEW u \in Users, NEW yes \in BOOLEAN, Roster!AnswerJoin(q, u, yes) PROVE RosterInv'
  <2>1. /\ Roster!Finish(q) /\ UNCHANGED <<team, invite, reg>> /\ join[u] = "pending"
        /\ join' = [join EXCEPT ![u] = IF yes THEN "accepted" ELSE "rejected"]
        /\ members' = IF yes THEN members \cup {u} ELSE members
    BY <1>5 DEF Roster!AnswerJoin
  <2>2. /\ join' \in [Users -> Roster!Answer]
        /\ \A v \in Users : join'[v] = IF v = u THEN IF yes THEN "accepted" ELSE "rejected" ELSE join[v]
    BY <2>1, <1>0
  <2> QED BY <1>0, <2>1, <2>2, RosterChanges
<1> QED BY <1>1, <1>2, <1>3, <1>4, <1>5 DEF Roster!RosterStep

\* Registrations and requests change while the roster rests.
LEMMA RosterRests ==
    ASSUME RosterInv, UNCHANGED <<members, invite, join>>, team' \in Roster!Team,
           req' \in [Requests -> Loaded],
           \A q \in Requests : req'[q].op = "submit" => MayTakePart(req'[q].who, invite, join),
           reg' \in [Regs -> Roster!Registration \cup {Roster!None}],
           \A r \in Regs : reg'[r].status # "none" /\ reg'[r].by = "submit" =>
              MayTakePart(reg'[r].who, invite, join) /\ Roster!Cardinality(reg'[r].who) <= MaxSize
    PROVE  RosterInv'
<1>1. \A who : MayTakePart(who, invite', join') = MayTakePart(who, invite, join) BY DEF MayTakePart
<1>2. Roster!MembersAgreed' BY DEF RosterInv, Roster!MembersAgreed
<1> QED BY <1>1, <1>2 DEF RosterInv

\* Of the registrations one changes, to one that may be.
LEMMA RegistrationWritten ==
    ASSUME RosterInv, NEW r \in Regs, NEW x \in Roster!Registration, reg' = [reg EXCEPT ![r] = x],
           x.by = "submit" => MayTakePart(x.who, invite, join) /\ Roster!Cardinality(x.who) <= MaxSize
    PROVE  /\ reg' \in [Regs -> Roster!Registration \cup {Roster!None}]
           /\ \A p \in Regs : reg'[p].status # "none" /\ reg'[p].by = "submit" =>
                 MayTakePart(reg'[p].who, invite, join) /\ Roster!Cardinality(reg'[p].who) <= MaxSize
BY DEF RosterInv

\* The decision on a registration leaves its participants alone.
LEMMA RegistrationDecided ==
    ASSUME RosterInv, NEW r \in Regs, reg[r].status # "none", NEW st \in Roster!Live \cup {"rejected", "cancelled"},
           reg' = [reg EXCEPT ![r].status = st]
    PROVE  /\ reg' \in [Regs -> Roster!Registration \cup {Roster!None}]
           /\ \A p \in Regs : reg'[p].status # "none" /\ reg'[p].by = "submit" =>
                 MayTakePart(reg'[p].who, invite, join) /\ Roster!Cardinality(reg'[p].who) <= MaxSize
<1> DEFINE x == [reg[r] EXCEPT !.status = st]
<1>1. reg[r] \in Roster!Registration BY DEF RosterInv, Roster!None
<1>2. x \in Roster!Registration /\ x.by = reg[r].by /\ x.who = reg[r].who BY <1>1 DEF Roster!Registration
<1>3. reg' = [reg EXCEPT ![r] = x] OBVIOUS
<1>4. x.by = "submit" => MayTakePart(x.who, invite, join) /\ Roster!Cardinality(x.who) <= MaxSize BY <1>2 DEF RosterInv
<1> HIDE DEF x
<1> QED BY <1>2, <1>3, <1>4, RegistrationWritten

\* A request goes on without changing the team or a registration.
LEMMA RequestGoesOn ==
    ASSUME RosterInv, NEW q \in Requests, NEW x \in Loaded, req' = [req EXCEPT ![q] = x],
           x.op = "submit" => MayTakePart(x.who, invite, join),
           UNCHANGED <<team, members, invite, join, reg>>
    PROVE  RosterInv'
<1>1. /\ req' \in [Requests -> Loaded]
      /\ \A p \in Requests : req'[p] = IF p = q THEN x ELSE req[p]
  BY RequestStep
<1>2. \A p \in Requests : req'[p].op = "submit" => MayTakePart(req'[p].who, invite, join)
  BY <1>1 DEF RosterInv
<1>3. team' \in Roster!Team /\ reg' \in [Regs -> Roster!Registration \cup {Roster!None}] BY DEF RosterInv
<1>4. \A r \in Regs : reg'[r].status # "none" /\ reg'[r].by = "submit" =>
          MayTakePart(reg'[r].who, invite, join) /\ Roster!Cardinality(reg'[r].who) <= MaxSize
  BY DEF RosterInv
<1> QED BY <1>1, <1>2, <1>3, <1>4, RosterRests

\* The roster that a submission reads may take part.
LEMMA LoadStep ==
    ASSUME RosterInv, NEW q \in Requests, Roster!Load(q) \/ Roster!Abort(q) \/ Roster!SubmitRead(q)
    PROVE  RosterInv'
<1>1. CASE Roster!Load(q)
  <2> DEFINE x == [op |-> "loaded", team |-> team]
  <2>1. /\ x \in Loaded /\ x.op = "loaded" /\ req' = [req EXCEPT ![q] = x]
        /\ UNCHANGED <<team, members, invite, join, reg>>
    BY <1>1 DEF Roster!Load, RosterInv, Loaded
  <2> HIDE DEF x
  <2> QED BY <2>1, RequestGoesOn
<1>2. CASE Roster!Abort(q)
  <2> DEFINE x == Roster!Idle
  <2>1. /\ x \in Loaded /\ x.op = "idle" /\ req' = [req EXCEPT ![q] = x]
        /\ UNCHANGED <<team, members, invite, join, reg>>
    BY <1>2 DEF Roster!Abort, Roster!Finish, Loaded, Roster!Idle
  <2> HIDE DEF x
  <2> QED BY <2>1, RequestGoesOn
<1>3. CASE Roster!SubmitRead(q)
  <2> DEFINE x == [op |-> "submit", status |-> req[q].team.status, who |-> members]
  <2>1. req[q].op = "loaded" /\ req[q] \in Loaded BY <1>3 DEF Roster!SubmitRead, RosterInv
  <2>2. req[q].team.status \in Roster!TeamStatus BY <2>1 DEF Loaded, Roster!Idle, Roster!Team
  <2>3. members \in SUBSET Users BY DEF RosterInv
  <2>4. /\ x \in Loaded /\ x.op = "submit" /\ x.who = members /\ req' = [req EXCEPT ![q] = x]
        /\ UNCHANGED <<team, members, invite, join, reg>>
    BY <1>3, <2>2, <2>3 DEF Roster!SubmitRead, Loaded
  <2>5. MayTakePart(members, invite, join) BY DEF RosterInv, Roster!MembersAgreed, MayTakePart
  <2> HIDE DEF x
  <2> QED BY <2>4, <2>5, RequestGoesOn
<1> QED BY <1>1, <1>2, <1>3

\* The registration is created for the roster that was read, if its size is allowed.
LEMMA SubmitCreateStep ==
    ASSUME RosterInv, NEW q \in Requests, NEW r \in Regs, NEW st \in Roster!Live, Roster!SubmitCreate(q, r, st)
    PROVE  RosterInv'
<1> DEFINE x == [status |-> st, who |-> req[q].who, by |-> "submit"]
           y == [op |-> "link", status |-> req[q].status, reg |-> r]
<1>1. /\ req[q].op = "submit" /\ req[q] \in Loaded /\ UNCHANGED <<team, members, invite, join>>
      /\ reg' = [reg EXCEPT ![r] = x] /\ req' = [req EXCEPT ![q] = y]
      /\ Roster!Cardinality(req[q].who) <= MaxSize
  BY DEF Roster!SubmitCreate, Roster!SizeAllowed, RosterInv
<1>2. req[q].status \in Roster!TeamStatus /\ req[q].who \in SUBSET Users
  BY <1>1 DEF Loaded, Roster!Idle
<1>3. x \in Roster!Registration /\ x.who = req[q].who BY <1>2 DEF Roster!Registration
<1>4. y \in Loaded /\ y.op = "link" BY <1>2 DEF Loaded
<1>5. MayTakePart(req[q].who, invite, join) BY <1>1 DEF RosterInv
<1> HIDE DEF x, y
<1>6. /\ reg' \in [Regs -> Roster!Registration \cup {Roster!None}]
      /\ \A p \in Regs : reg'[p].status # "none" /\ reg'[p].by = "submit" =>
            MayTakePart(reg'[p].who, invite, join) /\ Roster!Cardinality(reg'[p].who) <= MaxSize
  BY <1>1, <1>3, <1>5, RegistrationWritten
<1>7. /\ req' \in [Requests -> Loaded]
      /\ \A p \in Requests : req'[p] = IF p = q THEN y ELSE req[p]
  BY <1>1, <1>4, RequestStep
<1>8. \A p \in Requests : req'[p].op = "submit" => MayTakePart(req'[p].who, invite, join)
  BY <1>4, <1>7 DEF RosterInv
<1>9. team' \in Roster!Team BY <1>1 DEF RosterInv
<1> QED BY <1>1, <1>6, <1>7, <1>8, <1>9, RosterRests

\* The team's own row is written last.
LEMMA TeamWritten ==
    ASSUME RosterInv, NEW q \in Requests, Roster!SubmitLink(q) \/ Roster!ApproveCommit(q)
    PROVE  RosterInv'
<1>1. Roster!Finish(q) /\ UNCHANGED <<members, invite, join, reg>>
  BY DEF Roster!SubmitLink, Roster!ApproveCommit
<1>2. /\ req' \in [Requests -> Loaded]
      /\ \A p \in Requests : req'[p].op # "idle" => req'[p] = req[p]
  BY <1>1, FinishStep
<1>3. \A p \in Requests : req'[p].op = "submit" => MayTakePart(req'[p].who, invite, join)
  BY <1>2 DEF RosterInv
<1>4. team' \in Roster!Team
  <2>1. req[q] \in Loaded /\ team \in Roster!Team BY DEF RosterInv
  <2>2. "submitted" \in Roster!TeamStatus /\ "approved" \in Roster!TeamStatus BY DEF Roster!TeamStatus
  <2>3. CASE Roster!SubmitLink(q)
    <3>1. /\ req[q].op = "link"
          /\ team' = [team EXCEPT !.reg = req[q].reg, !.status = Roster!Flushed(req[q].status, "submitted")]
      BY <2>3 DEF Roster!SubmitLink
    <3>2. req[q].status \in Roster!TeamStatus /\ req[q].reg \in Regs BY <2>1, <3>1 DEF Loaded, Roster!Idle
    <3>3. Roster!Flushed(req[q].status, "submitted") \in Roster!TeamStatus BY <2>2, <3>2, TeamFlushed
    <3> QED BY <2>1, <3>1, <3>2, <3>3 DEF Roster!Team
  <2>4. CASE Roster!ApproveCommit(q)
    <3>1. /\ req[q].op = "approve"
          /\ team' = [team EXCEPT !.status = Roster!Flushed(req[q].status, "approved")]
      BY <2>4 DEF Roster!ApproveCommit
    <3>2. req[q].status \in Roster!TeamStatus BY <2>1, <3>1 DEF Loaded, Roster!Idle
    <3>3. Roster!Flushed(req[q].status, "approved") \in Roster!TeamStatus BY <2>2, <3>2, TeamFlushed
    <3> QED BY <2>1, <3>1, <3>3 DEF Roster!Team
  <2> QED BY <2>3, <2>4
<1>5. reg' \in [Regs -> Roster!Registration \cup {Roster!None}] BY <1>1 DEF RosterInv
<1>6. \A r \in Regs : reg'[r].status # "none" /\ reg'[r].by = "submit" =>
          MayTakePart(reg'[r].who, invite, join) /\ Roster!Cardinality(reg'[r].who) <= MaxSize
  BY <1>1 DEF RosterInv
<1> QED BY <1>1, <1>2, <1>3, <1>4, <1>5, <1>6, RosterRests

\* Approving a team approves its registration, if that awaits a decision.
LEMMA ApproveDecideStep ==
    ASSUME CaptainIsUser, RosterInv, NEW q \in Requests, Roster!ApproveDecide(q)
    PROVE  RosterInv'
<1> DEFINE r == req[q].team.reg
           y == [op |-> "approve", status |-> req[q].team.status]
<1>1. /\ req[q].op = "loaded" /\ req[q] \in Loaded /\ r # NoReg /\ UNCHANGED <<team, members, invite, join>>
      /\ reg' = IF reg[r].status = "pending" THEN [reg EXCEPT ![r].status = "approved"] ELSE reg
      /\ req' = [req EXCEPT ![q] = y]
  BY DEF Roster!ApproveDecide, RosterInv
<1>2. req[q].team \in Roster!Team BY <1>1 DEF Loaded, Roster!Idle
<1>3. r \in Regs /\ req[q].team.status \in Roster!TeamStatus BY <1>1, <1>2 DEF Roster!Team
<1>4. y \in Loaded /\ y.op = "approve" BY <1>3 DEF Loaded
<1> HIDE DEF r, y
<1>5. /\ reg' \in [Regs -> Roster!Registration \cup {Roster!None}]
      /\ \A p \in Regs : reg'[p].status # "none" /\ reg'[p].by = "submit" =>
            MayTakePart(reg'[p].who, invite, join) /\ Roster!Cardinality(reg'[p].who) <= MaxSize
  <2>1. CASE reg[r].status = "pending"
    BY <1>1, <1>3, <2>1, RegistrationDecided DEF Roster!Live
  <2>2. CASE reg[r].status # "pending" BY <1>1, <2>2 DEF RosterInv
  <2> QED BY <2>1, <2>2
<1>6. /\ req' \in [Requests -> Loaded]
      /\ \A p \in Requests : req'[p] = IF p = q THEN y ELSE req[p]
  BY <1>1, <1>4, RequestStep
<1>7. \A p \in Requests : req'[p].op = "submit" => MayTakePart(req'[p].who, invite, join)
  BY <1>4, <1>6 DEF RosterInv
<1>8. team' \in Roster!Team BY <1>1 DEF RosterInv
<1> QED BY <1>1, <1>5, <1>6, <1>7, <1>8, RosterRests

\* The captain registers without the team, and registrations end.
LEMMA RegistrationStep ==
    ASSUME RosterInv, NEW r \in Regs,
           \/ \E st \in Roster!Live : Roster!RegisterDirectly(r, st)
           \/ \E st \in {"approved", "rejected", "cancelled"} : Roster!EndRegistration(r, st)
    PROVE  RosterInv'
<1>1. UNCHANGED <<team, members, invite, join, req>> BY DEF Roster!RegisterDirectly, Roster!EndRegistration
<1> DEFINE Kept ==
        /\ reg' \in [Regs -> Roster!Registration \cup {Roster!None}]
        /\ \A p \in Regs : reg'[p].status # "none" /\ reg'[p].by = "submit" =>
              MayTakePart(reg'[p].who, invite, join) /\ Roster!Cardinality(reg'[p].who) <= MaxSize
<1>2. Kept
  <2>1. ASSUME NEW st \in Roster!Live, Roster!RegisterDirectly(r, st) PROVE Kept
    <3> DEFINE x == [status |-> st, who |-> {}, by |-> "direct"]
    <3>1. x \in Roster!Registration /\ x.by = "direct" BY DEF Roster!Registration
    <3>2. reg' = [reg EXCEPT ![r] = x] BY <2>1 DEF Roster!RegisterDirectly
    <3> HIDE DEF x
    <3> QED BY <3>1, <3>2, RegistrationWritten
  <2>2. ASSUME NEW st \in {"approved", "rejected", "cancelled"}, Roster!EndRegistration(r, st) PROVE Kept
    <3>1. reg[r].status # "none" /\ reg' = [reg EXCEPT ![r].status = st] BY <2>2 DEF Roster!EndRegistration
    <3>2. st \in Roster!Live \cup {"rejected", "cancelled"} BY DEF Roster!Live
    <3> QED BY <3>1, <3>2, RegistrationDecided
  <2> QED BY <2>1, <2>2
<1>3. team' \in Roster!Team /\ req' \in [Requests -> Loaded] BY <1>1 DEF RosterInv
<1>4. \A p \in Requests : req'[p].op = "submit" => MayTakePart(req'[p].who, invite, join) BY <1>1 DEF RosterInv
<1> QED BY <1>1, <1>2, <1>3, <1>4, RosterRests

LEMMA RosterNext == ASSUME CaptainIsUser, RosterInv, [Roster!Next]_Roster!vars PROVE RosterInv'
<1>1. CASE UNCHANGED Roster!vars
  BY <1>1 DEF Roster!vars, RosterInv, Roster!MembersAgreed
<1>2. CASE Roster!Next
  BY <1>2, LoadStep, RosterSteps, SubmitCreateStep, TeamWritten, ApproveDecideStep, RegistrationStep
     DEF Roster!Next, Roster!SubmitStep
<1> QED BY <1>1, <1>2

\* TeamRoster.MembersAgreed and SubmittedRosterFits: nobody is in a team, or in
\* what it submits, without having agreed, and what it submits has an allowed
\* size, for any number of accounts and of requests on old copies of the team.
THEOREM RostersAgree ==
    ASSUME CaptainIsUser
    PROVE  Roster!Spec => [](Roster!TypeOK /\ Roster!MembersAgreed /\ Roster!SubmittedRosterFits)
<1>1. Roster!Init => RosterInv BY InitRoster
<1>2. RosterInv /\ [Roster!Next]_Roster!vars => RosterInv' BY RosterNext
<1> QED BY <1>1, <1>2, RosterTyped, PTL DEF Roster!Spec

-----------------------------------------------------------------------------
(* Categories of events: Catalog.                                          *)

\* The event is where it should be.
InPlace(e) ==
    LET u == sub[event[e].sub]
    IN  Shelf!Exists(u.state) /\ Shelf!Exists(main[event[e].main]) /\ u.main = event[e].main

\* A sub category that does not exist yet has no events, and none is about to
\* be filed under it; so whoever creates or moves one has found it without.
NewIsUnused ==
    /\ \A u \in Subs : sub[u].state = "absent" =>
          /\ \A e \in Events : event[e] # Shelf!NoEvent => event[e].sub # u
          /\ \A s \in Sessions : sess[s].at = "file" => sess[s].sub # u
    /\ \A s \in Sessions : sess[s].at = "sub" => ~sess[s].used

\* An event that is there and not deleted.
Kept(e) == event[e] # Shelf!NoEvent /\ ~event[e].deleted

ShelfInv ==
    /\ Shelf!TypeOK
    /\ NewIsUnused
    /\ ~late => \A e \in Events : Kept(e) => InPlace(e)
    /\ \A e \in Events : event[e].deleted => event[e].status = "archived"

LEMMA ShelfFiled == ShelfInv => Shelf!Filed
BY DEF ShelfInv, Shelf!Filed, Shelf!Undeleted, Kept, InPlace

LEMMA InitShelf == Shelf!Init => ShelfInv
<1> SUFFICES ASSUME Shelf!Init PROVE ShelfInv OBVIOUS
<1>1. \A s \in Sessions : sess[s] = Shelf!Idle /\ sess[s].at = "idle" BY DEF Shelf!Init, Shelf!Idle
<1>2. \A e \in Events : event[e] = Shelf!NoEvent /\ ~event[e].deleted BY DEF Shelf!Init, Shelf!NoEvent
<1>3. Shelf!TypeOK
  <2>1. sub \in [Subs -> [state : Shelf!States, main : Mains]] BY DEF Shelf!Init, Shelf!States
  <2>2. late \in BOOLEAN BY DEF Shelf!Init
  <2> QED BY <2>1, <2>2 DEF Shelf!Init, Shelf!TypeOK, Shelf!States
<1> QED BY <1>1, <1>2, <1>3 DEF ShelfInv, NewIsUnused, Kept

\* What a request may be about to write.
Shelving ==
    {Shelf!Idle} \cup [at : {"file"}, event : Events, main : Mains, sub : Subs]
    \cup [at : {"sub"}, sub : Subs, main : Mains, used : BOOLEAN]

\* A request reads, and writes nothing.
LEMMA ShelfReads ==
    ASSUME ShelfInv, NEW s \in Sessions, NEW x \in Shelving, sess' = [sess EXCEPT ![s] = x],
           UNCHANGED <<main, sub, event, late>>,
           x.at = "file" => sub[x.sub].state # "absent",
           x.at = "sub" => ~x.used
    PROVE  ShelfInv'
<1>1. \A r \in Sessions : sess'[r] = IF r = s THEN x ELSE sess[r] BY DEF ShelfInv, Shelf!TypeOK
<1>2. Shelf!TypeOK' BY DEF ShelfInv, Shelf!TypeOK, Shelving
<1>3. NewIsUnused' BY <1>1 DEF ShelfInv, NewIsUnused
<1>4. \A e \in Events : Kept(e)' = Kept(e) /\ InPlace(e)' = InPlace(e) BY DEF Kept, InPlace
<1> QED BY <1>2, <1>3, <1>4 DEF ShelfInv

LEMMA SubReadStep ==
    ASSUME ShelfInv, NEW s \in Sessions, NEW u \in Subs, NEW m \in Mains, Shelf!SubRead(s, u, m)
    PROVE  ShelfInv'
<1> DEFINE x == [at |-> "sub", sub |-> u, main |-> m, used |-> Shelf!Under(u) # {}]
<1>1. Shelf!Under(u) = {} BY DEF Shelf!SubRead, Shelf!InUse, Shelf!Under, ShelfInv, NewIsUnused
<1>2. x.at = "sub" /\ ~x.used /\ x \in Shelving BY <1>1 DEF Shelving
<1>3. sess' = [sess EXCEPT ![s] = x] /\ UNCHANGED <<main, sub, event, late>> BY DEF Shelf!SubRead, Shelf!To
<1> HIDE DEF x
<1> QED BY <1>2, <1>3, ShelfReads

LEMMA FileReadStep ==
    ASSUME ShelfInv, NEW s \in Sessions, NEW e \in Events, NEW u \in Subs, Shelf!FileRead(s, e, u)
    PROVE  ShelfInv'
<1> DEFINE x == [at |-> "file", event |-> e, main |-> sub[u].main, sub |-> u]
<1>1. sub[u].main \in Mains BY DEF ShelfInv, Shelf!TypeOK
<1>2. x.at = "file" /\ x.sub = u /\ x \in Shelving BY <1>1 DEF Shelving
<1>3. /\ sess' = [sess EXCEPT ![s] = x] /\ UNCHANGED <<main, sub, event, late>>
      /\ sub[u].state = "active"
  BY DEF Shelf!FileRead, Shelf!To
<1> HIDE DEF x
<1> QED BY <1>2, <1>3, ShelfReads

\* The sessions when one of them has finished.
LEMMA ShelfFinish ==
    ASSUME ShelfInv, NEW s \in Sessions, sess' = [sess EXCEPT ![s] = Shelf!Idle]
    PROVE  /\ sess' \in [Sessions -> Shelving]
           /\ \A r \in Sessions : sess'[r].at # "idle" => sess'[r] = sess[r]
<1>1. Shelf!Idle.at = "idle" /\ Shelf!Idle \in Shelving BY DEF Shelf!Idle, Shelving
<1>2. sess \in [Sessions -> Shelving] BY DEF ShelfInv, Shelf!TypeOK, Shelving
<1>3. \A r \in Sessions : sess'[r] = IF r = s THEN Shelf!Idle ELSE sess[r] BY <1>2
<1> QED BY <1>1, <1>2, <1>3

LEMMA SubCommitStep ==
    ASSUME ShelfInv, NEW s \in Sessions, Shelf!SubCommit(s)
    PROVE  ShelfInv'
<1> DEFINE u == sess[s].sub
           m == sess[s].main
           new == [state |-> IF sub[u].state = "absent" THEN "active" ELSE sub[u].state, main |-> m]
<1>1. /\ sess[s].at = "sub" /\ sub' = [sub EXCEPT ![u] = new] /\ sess' = [sess EXCEPT ![s] = Shelf!Idle]
      /\ main' = main /\ event' = event
  BY DEF Shelf!SubCommit, Shelf!To
<1>2. late' = (late \/ ~Shelf!Exists(main[m]) \/ sub[u].state = "deleted" \/ (Shelf!Under(u) # {}) # sess[s].used)
  BY DEF Shelf!SubCommit
<1>3. sess[s] \in Shelving BY DEF ShelfInv, Shelf!TypeOK, Shelving
<1>4. u \in Subs /\ m \in Mains /\ sess[s].used \in BOOLEAN /\ ~sess[s].used
  BY <1>1, <1>3 DEF Shelving, Shelf!Idle, ShelfInv, NewIsUnused
<1>5. new \in [state : Shelf!States, main : Mains] /\ new.state # "absent"
  BY <1>4 DEF ShelfInv, Shelf!TypeOK, Shelf!States
<1>6. ~late' => ~late /\ Shelf!Under(u) = {} BY <1>2, <1>4
<1> HIDE DEF new, u, m
<1>7. \A v \in Subs : sub'[v] = IF v = u THEN new ELSE sub[v] BY <1>1, <1>4 DEF ShelfInv, Shelf!TypeOK
<1>8. /\ sess' \in [Sessions -> Shelving]
      /\ \A r \in Sessions : sess'[r].at # "idle" => sess'[r] = sess[r]
  BY <1>1, ShelfFinish
<1>9. late' \in BOOLEAN BY <1>2
<1>10. Shelf!TypeOK' BY <1>1, <1>4, <1>5, <1>8, <1>9 DEF ShelfInv, Shelf!TypeOK, Shelving
<1>11. NewIsUnused' BY <1>1, <1>5, <1>7, <1>8 DEF ShelfInv, NewIsUnused
<1>12. ASSUME ~late', NEW e \in Events, Kept(e)' PROVE InPlace(e)'
  <2>1. Kept(e) /\ ~late /\ event[e].sub # u BY <1>1, <1>6, <1>12 DEF Kept, Shelf!Under
  <2>2. InPlace(e) BY <2>1 DEF ShelfInv
  <2>3. event[e].sub \in Subs BY <2>1 DEF Kept, ShelfInv, Shelf!TypeOK, Shelf!Event
  <2>4. sub'[event[e].sub] = sub[event[e].sub] BY <2>1, <2>3, <1>7
  <2> QED BY <2>2, <2>4, <1>1 DEF InPlace
<1>13. \A e \in Events : event'[e].deleted => event'[e].status = "archived" BY <1>1 DEF ShelfInv
<1> QED BY <1>10, <1>11, <1>12, <1>13 DEF ShelfInv

LEMMA FileCommitStep ==
    ASSUME ShelfInv, NEW s \in Sessions, Shelf!FileCommit(s)
    PROVE  ShelfInv'
<1> DEFINE e == sess[s].event
           u == sess[s].sub
           m == sess[s].main
           new == IF event[e] = Shelf!NoEvent
                  THEN [status |-> "draft", main |-> m, sub |-> u, deleted |-> FALSE]
                  ELSE [event[e] EXCEPT !.main = m, !.sub = u]
<1>1. /\ sess[s].at = "file" /\ event' = [event EXCEPT ![e] = new] /\ sess' = [sess EXCEPT ![s] = Shelf!Idle]
      /\ main' = main /\ sub' = sub
  BY DEF Shelf!FileCommit, Shelf!To
<1>2. late' = (late \/ ~Shelf!Exists(sub[u].state) \/ ~Shelf!Exists(main[m]) \/ sub[u].main # m)
  BY DEF Shelf!FileCommit
<1>3. sess[s] \in Shelving BY DEF ShelfInv, Shelf!TypeOK, Shelving
<1>4. e \in Events /\ u \in Subs /\ m \in Mains BY <1>1, <1>3 DEF Shelving, Shelf!Idle
<1>5. /\ new \in Shelf!Event /\ new.main = m /\ new.sub = u
      /\ new.deleted => event[e].deleted /\ new.status = event[e].status
  <2>1. CASE event[e] = Shelf!NoEvent BY <1>4, <2>1 DEF Shelf!Event
  <2>2. CASE event[e] # Shelf!NoEvent
    <3>1. event[e] \in Shelf!Event BY <1>4, <2>2 DEF ShelfInv, Shelf!TypeOK
    <3> QED BY <1>4, <2>2, <3>1 DEF Shelf!Event
  <2> QED BY <2>1, <2>2
<1>6. sub[u].state # "absent" BY <1>1, <1>4 DEF ShelfInv, NewIsUnused
<1> HIDE DEF new, e, u, m
<1>7. \A d \in Events : event'[d] = IF d = e THEN new ELSE event[d] BY <1>1, <1>4 DEF ShelfInv, Shelf!TypeOK
<1>8. /\ sess' \in [Sessions -> Shelving]
      /\ \A r \in Sessions : sess'[r].at # "idle" => sess'[r] = sess[r]
  BY <1>1, ShelfFinish
<1>9. late' \in BOOLEAN BY <1>2
<1>10. event' \in [Events -> Shelf!Event \cup {Shelf!NoEvent}] BY <1>1, <1>4, <1>5 DEF ShelfInv, Shelf!TypeOK
<1>11. Shelf!TypeOK' BY <1>1, <1>8, <1>9, <1>10 DEF ShelfInv, Shelf!TypeOK, Shelving
<1>12. NewIsUnused' BY <1>1, <1>5, <1>6, <1>7, <1>8 DEF ShelfInv, NewIsUnused
<1>13. ASSUME ~late', NEW d \in Events, Kept(d)' PROVE InPlace(d)'
  <2>1. CASE d = e BY <2>1, <1>1, <1>2, <1>5, <1>7, <1>13 DEF InPlace
  <2>2. CASE d # e
    <3>1. ~late /\ Kept(d) BY <2>2, <1>2, <1>7, <1>13 DEF Kept
    <3> QED BY <3>1, <2>2, <1>1, <1>7 DEF ShelfInv, InPlace
  <2> QED BY <2>1, <2>2
<1>14. \A d \in Events : event'[d].deleted => event'[d].status = "archived"
  BY <1>4, <1>5, <1>7 DEF ShelfInv
<1> QED BY <1>11, <1>12, <1>13, <1>14 DEF ShelfInv

\* Events that are deleted keep their categories, and are archived.
LEMMA EventsDeleted ==
    ASSUME ShelfInv, NEW set \in SUBSET Shelf!Undeleted, event' = Shelf!Deleted(set)
    PROVE  /\ event' \in [Events -> Shelf!Event \cup {Shelf!NoEvent}]
           /\ \A e \in Events :
                 /\ event'[e] # Shelf!NoEvent => event[e] # Shelf!NoEvent /\ event'[e].sub = event[e].sub
                 /\ Kept(e)' => e \notin set /\ Kept(e) /\ event'[e] = event[e]
                 /\ event'[e].deleted => event'[e].status = "archived"
<1> SUFFICES ASSUME NEW e \in Events
             PROVE  /\ event'[e] \in Shelf!Event \cup {Shelf!NoEvent}
                    /\ event'[e] # Shelf!NoEvent => event[e] # Shelf!NoEvent /\ event'[e].sub = event[e].sub
                    /\ Kept(e)' => e \notin set /\ Kept(e) /\ event'[e] = event[e]
                    /\ event'[e].deleted => event'[e].status = "archived"
  BY DEF Shelf!Deleted
<1>1. CASE e \notin set
  <2>1. event'[e] = event[e] BY <1>1 DEF Shelf!Deleted
  <2> QED BY <1>1, <2>1 DEF Kept, ShelfInv, Shelf!TypeOK
<1>2. CASE e \in set
  <2>1. event'[e] = [event[e] EXCEPT !.status = "archived", !.deleted = TRUE] BY <1>2 DEF Shelf!Deleted
  <2>2. event[e] # Shelf!NoEvent /\ event[e] \in Shelf!Event
    BY <1>2 DEF Shelf!Undeleted, ShelfInv, Shelf!TypeOK
  <2>3. /\ event'[e] \in Shelf!Event /\ event'[e].sub = event[e].sub
        /\ event'[e].deleted /\ event'[e].status = "archived"
    BY <2>1, <2>2 DEF Shelf!Event
  <2> QED BY <2>2, <2>3 DEF Kept
<1> QED BY <1>1, <1>2

\* Categories change and events go, so that the events that remain are in place.
LEMMA CategoriesChange ==
    ASSUME ShelfInv, NEW set \in SUBSET Shelf!Undeleted, event' = Shelf!Deleted(set),
           UNCHANGED <<late, sess>>,
           main' \in [Mains -> Shelf!States], sub' \in [Subs -> [state : Shelf!States, main : Mains]],
           \A u \in Subs : sub'[u].state = "absent" => sub[u].state = "absent",
           \A e \in Events : Kept(e) /\ e \notin set /\ InPlace(e) /\ event'[e] = event[e] => InPlace(e)'
    PROVE  ShelfInv'
<1>1. /\ event' \in [Events -> Shelf!Event \cup {Shelf!NoEvent}]
      /\ \A e \in Events :
            /\ event'[e] # Shelf!NoEvent => event[e] # Shelf!NoEvent /\ event'[e].sub = event[e].sub
            /\ Kept(e)' => e \notin set /\ Kept(e) /\ event'[e] = event[e]
            /\ event'[e].deleted => event'[e].status = "archived"
  BY EventsDeleted
<1>2. Shelf!TypeOK' BY <1>1 DEF ShelfInv, Shelf!TypeOK
<1>3. NewIsUnused' BY <1>1 DEF ShelfInv, NewIsUnused
<1>4. ~late' => \A e \in Events : Kept(e)' => InPlace(e)' BY <1>1 DEF ShelfInv
<1> QED BY <1>1, <1>2, <1>3, <1>4 DEF ShelfInv

\* Deleting nothing changes nothing.
LEMMA NoneDeleted == ShelfInv => Shelf!Deleted({}) = event
BY DEF ShelfInv, Shelf!TypeOK, Shelf!Deleted

\* Who is kept has a category of each kind.
LEMMA KeptTyped ==
    ASSUME ShelfInv, NEW e \in Events, Kept(e)
    PROVE  event[e] \in Shelf!Event /\ event[e].main \in Mains /\ event[e].sub \in Subs /\ e \in Shelf!Undeleted
BY DEF ShelfInv, Shelf!TypeOK, Kept, Shelf!Event, Shelf!Undeleted

LEMMA MainStep ==
    ASSUME ShelfInv, NEW m \in Mains, Shelf!DeleteMain(m) \/ \E state \in Shelf!States : Shelf!SetActive(m, state)
    PROVE  ShelfInv'
<1>1. ASSUME NEW state \in Shelf!States, Shelf!SetActive(m, state) PROVE ShelfInv'
  <2>1. /\ Shelf!Exists(state) /\ main' = [main EXCEPT ![m] = state] /\ UNCHANGED <<sub, event, late, sess>>
    BY <1>1 DEF Shelf!SetActive, Shelf!Exists
  <2>2. main' \in [Mains -> Shelf!States] /\ \A n \in Mains : main'[n] = IF n = m THEN state ELSE main[n]
    BY <2>1 DEF ShelfInv, Shelf!TypeOK
  <2>3. sub' \in [Subs -> [state : Shelf!States, main : Mains]] BY <2>1 DEF ShelfInv, Shelf!TypeOK
  <2>4. ASSUME NEW e \in Events, Kept(e), InPlace(e) PROVE InPlace(e)'
    BY <2>1, <2>2, <2>4, KeptTyped DEF InPlace
  <2>5. event' = Shelf!Deleted({}) BY <2>1, NoneDeleted
  <2> QED BY <2>1, <2>2, <2>3, <2>4, <2>5, CategoriesChange
<1>2. CASE Shelf!DeleteMain(m)
  <2> DEFINE set == {e \in Shelf!Undeleted : event[e].main = m \/ sub[event[e].sub].main = m}
  <2>1. /\ event' = Shelf!Deleted(set) /\ main' = [main EXCEPT ![m] = "deleted"] /\ UNCHANGED <<late, sess>>
        /\ sub' = [u \in Subs |-> IF sub[u].main = m /\ Shelf!Exists(sub[u].state)
                                  THEN [sub[u] EXCEPT !.state = "deleted"] ELSE sub[u]]
    BY <1>2 DEF Shelf!DeleteMain
  <2>2. /\ main' \in [Mains -> Shelf!States]
        /\ \A n \in Mains : main'[n] = IF n = m THEN "deleted" ELSE main[n]
    BY <2>1 DEF ShelfInv, Shelf!TypeOK, Shelf!States
  <2>3. ASSUME NEW u \in Subs
        PROVE  /\ sub'[u] \in [state : Shelf!States, main : Mains]
               /\ sub'[u].state = "absent" => sub[u].state = "absent"
               /\ sub[u].main # m => sub'[u] = sub[u]
    <3>1. sub[u] \in [state : Shelf!States, main : Mains] BY DEF ShelfInv, Shelf!TypeOK
    <3>2. sub'[u] = IF sub[u].main = m /\ Shelf!Exists(sub[u].state)
                    THEN [sub[u] EXCEPT !.state = "deleted"] ELSE sub[u]
      BY <2>1
    <3> QED BY <3>1, <3>2 DEF Shelf!States
  <2>4. sub' \in [Subs -> [state : Shelf!States, main : Mains]] BY <2>1, <2>3
  <2>5. ASSUME NEW e \in Events, Kept(e), e \notin set, InPlace(e), event'[e] = event[e] PROVE InPlace(e)'
    <3>1. event[e].main \in Mains /\ event[e].sub \in Subs /\ e \in Shelf!Undeleted BY <2>5, KeptTyped
    <3>2. event[e].main # m /\ sub[event[e].sub].main # m BY <2>5, <3>1
    <3>3. main'[event[e].main] = main[event[e].main] BY <2>2, <3>1, <3>2
    <3>4. sub'[event[e].sub] = sub[event[e].sub] BY <2>3, <3>1, <3>2
    <3> QED BY <2>5, <3>3, <3>4 DEF InPlace
  <2>6. set \in SUBSET Shelf!Undeleted OBVIOUS
  <2> HIDE DEF set
  <2> QED BY <2>1, <2>2, <2>3, <2>4, <2>5, <2>6, CategoriesChange
<1> QED BY <1>1, <1>2

LEMMA DeleteSubStep == ASSUME ShelfInv, NEW u \in Subs, Shelf!DeleteSub(u) PROVE ShelfInv'
<1> DEFINE set == {e \in Shelf!Undeleted : event[e].sub = u}
           new == [sub[u] EXCEPT !.state = "deleted"]
<1>1. /\ event' = Shelf!Deleted(set) /\ sub' = [sub EXCEPT ![u] = new] /\ UNCHANGED <<main, late, sess>>
  BY DEF Shelf!DeleteSub
<1>2. sub[u] \in [state : Shelf!States, main : Mains] BY DEF ShelfInv, Shelf!TypeOK
<1>3. new \in [state : Shelf!States, main : Mains] /\ new.state = "deleted" BY <1>2 DEF Shelf!States
<1> HIDE DEF new
<1>4. /\ sub' \in [Subs -> [state : Shelf!States, main : Mains]]
      /\ \A v \in Subs : sub'[v] = IF v = u THEN new ELSE sub[v]
  BY <1>1, <1>3 DEF ShelfInv, Shelf!TypeOK
<1>5. ASSUME NEW e \in Events, Kept(e), e \notin set, InPlace(e), event'[e] = event[e] PROVE InPlace(e)'
  <2>1. event[e].sub \in Subs /\ e \in Shelf!Undeleted BY <1>5, KeptTyped
  <2>2. sub'[event[e].sub] = sub[event[e].sub] BY <1>4, <1>5, <2>1
  <2> QED BY <1>1, <1>5, <2>2 DEF InPlace
<1>6. set \in SUBSET Shelf!Undeleted OBVIOUS
<1>7. main' \in [Mains -> Shelf!States] BY <1>1 DEF ShelfInv, Shelf!TypeOK
<1>8. \A v \in Subs : sub'[v].state = "absent" => sub[v].state = "absent" BY <1>3, <1>4
<1> HIDE DEF set
<1> QED BY <1>1, <1>4, <1>5, <1>6, <1>7, <1>8, CategoriesChange

LEMMA EventStep ==
    ASSUME ShelfInv, NEW e \in Events, Shelf!Publish(e) \/ Shelf!DeleteEvent(e)
    PROVE  ShelfInv'
<1>1. CASE Shelf!DeleteEvent(e)
  <2> DEFINE set == {e}
  <2>1. event' = Shelf!Deleted(set) /\ UNCHANGED <<main, sub, late, sess>> /\ set \in SUBSET Shelf!Undeleted
    BY <1>1 DEF Shelf!DeleteEvent
  <2>2. main' \in [Mains -> Shelf!States] /\ sub' \in [Subs -> [state : Shelf!States, main : Mains]]
    BY <2>1 DEF ShelfInv, Shelf!TypeOK
  <2>3. \A d \in Events : InPlace(d) /\ event'[d] = event[d] => InPlace(d)' BY <2>1 DEF InPlace
  <2> HIDE DEF set
  <2> QED BY <2>1, <2>2, <2>3, CategoriesChange
<1>2. CASE Shelf!Publish(e)
  <2> DEFINE new == [event[e] EXCEPT !.status = "published"]
  <2>1. /\ Kept(e) /\ event' = [event EXCEPT ![e] = new] /\ UNCHANGED <<main, sub, late, sess>>
    BY <1>2 DEF Shelf!Publish, Shelf!Undeleted, Kept
  <2>2. event[e] \in Shelf!Event BY <2>1, KeptTyped
  <2>3. /\ new \in Shelf!Event /\ new.main = event[e].main /\ new.sub = event[e].sub /\ ~new.deleted
    BY <2>1, <2>2 DEF Shelf!Event, Kept
  <2> HIDE DEF new
  <2>4. /\ event' \in [Events -> Shelf!Event \cup {Shelf!NoEvent}]
        /\ \A d \in Events : event'[d] = IF d = e THEN new ELSE event[d]
    BY <2>1, <2>3 DEF ShelfInv, Shelf!TypeOK
  <2>5. Shelf!TypeOK' BY <2>1, <2>4 DEF ShelfInv, Shelf!TypeOK
  <2>6. NewIsUnused' BY <2>1, <2>3, <2>4 DEF ShelfInv, NewIsUnused, Kept
  <2>7. \A d \in Events : Kept(d)' => Kept(d) BY <2>1, <2>4 DEF Kept
  <2>8. \A d \in Events : InPlace(d) => InPlace(d)' BY <2>1, <2>3, <2>4 DEF InPlace
  <2>9. \A d \in Events : event'[d].deleted => event'[d].status = "archived" BY <2>3, <2>4 DEF ShelfInv
  <2> QED BY <2>1, <2>5, <2>6, <2>7, <2>8, <2>9 DEF ShelfInv
<1> QED BY <1>1, <1>2

LEMMA ShelfNext == ASSUME ShelfInv, [Shelf!Next]_Shelf!vars PROVE ShelfInv'
<1>1. CASE UNCHANGED Shelf!vars
  <2>1. UNCHANGED <<main, sub, event, late, sess>> BY <1>1 DEF Shelf!vars
  <2> QED BY <2>1 DEF ShelfInv, Shelf!TypeOK, NewIsUnused, Kept, InPlace
<1>2. CASE Shelf!Next
  BY <1>2, SubReadStep, SubCommitStep, FileReadStep, FileCommitStep, MainStep, DeleteSubStep, EventStep
     DEF Shelf!Next
<1> QED BY <1>1, <1>2

\* Catalog.Filed: unless a request commits across a deletion or a move, every
\* event that is not deleted is filed under categories that exist and belong
\* together, and a deleted event is archived for ever, for any number of
\* categories, events and requests.
THEOREM EventsAreFiled == Shelf!Spec => [](Shelf!TypeOK /\ Shelf!Filed)
<1>1. ShelfInv => Shelf!TypeOK /\ Shelf!Filed BY ShelfFiled DEF ShelfInv
<1>2. ShelfInv /\ [Shelf!Next]_Shelf!vars => ShelfInv' BY ShelfNext
<1> QED BY <1>1, <1>2, InitShelf, PTL DEF Shelf!Spec

-----------------------------------------------------------------------------
(* Schedule items and the places they take: VenueSchedule.                 *)

\* A slot is two times.
SlotsAreTimes == Slots \subseteq Int \X Int

\* Two rows in one place with one resource.
Together(r, q) ==
    /\ r.venue = q.venue /\ r.resource = q.resource
    /\ r.venue # Rooms!None \/ r.resource # Rooms!None

\* Rows that may both be scheduled.
Apart(r, q) == Together(r, q) => ~Rooms!Overlap(r.slot, q.slot)

\* A request that has validated its row holds the locks of its venue and its
\* resource, and the row stays apart from what separate edits have written.
VenueInv ==
    /\ Rooms!TypeOK
    /\ \A i, j \in Items \ stale : i # j /\ Rooms!Booked(i) /\ Rooms!Booked(j) => Apart(item[i], item[j])
    /\ \A s \in Sessions : sess[s].at = "checked" =>
          \A j \in Items \ stale : j # sess[s].on /\ Rooms!Booked(j) => Apart(item[j], sess[s].new)
    /\ \A s, t \in Sessions : s # t /\ sess[s].at = "checked" /\ sess[t].at = "checked" =>
          Rooms!Scope(sess[s].new) \cap Rooms!Scope(sess[t].new) = {}

\* What a request may have loaded and validated.
Editing ==
    {Rooms!Idle} \cup [at : {"loaded"}, on : Items, copy : Rooms!Row]
    \cup [at : {"checked"}, on : Items, copy : Rooms!Row \cup {Rooms!NoItem}, new : Rooms!Row]

\* Two rows that need no common lock are in different places.
LEMMA LocksKeepApart ==
    ASSUME NEW r, NEW q, Rooms!Scope(r) \cap Rooms!Scope(q) = {}
    PROVE  Apart(r, q)
<1> SUFFICES ASSUME Together(r, q) PROVE FALSE BY DEF Apart
<1>1. CASE r.venue # "none"
  <2>1. <<"venue", r.venue>> \in Rooms!Scope(r) BY <1>1 DEF Rooms!Scope, Rooms!None
  <2>2. <<"venue", r.venue>> \in Rooms!Scope(q) BY <1>1 DEF Rooms!Scope, Rooms!None, Together
  <2> QED BY <2>1, <2>2
<1>2. CASE r.resource # "none"
  <2>1. <<"resource", r.resource>> \in Rooms!Scope(r) BY <1>2 DEF Rooms!Scope, Rooms!None
  <2>2. <<"resource", r.resource>> \in Rooms!Scope(q) BY <1>2 DEF Rooms!Scope, Rooms!None, Together
  <2> QED BY <2>1, <2>2
<1> QED BY <1>1, <1>2 DEF Together, Rooms!None

\* Which of two rows comes first does not matter.
LEMMA ApartBothWays ==
    ASSUME SlotsAreTimes, NEW r \in Rooms!Row, NEW q \in Rooms!Row, Apart(r, q)
    PROVE  Apart(q, r)
<1>1. r.slot[1] \in Int /\ r.slot[2] \in Int /\ q.slot[1] \in Int /\ q.slot[2] \in Int
  BY DEF SlotsAreTimes, Rooms!Row
<1>2. Rooms!Overlap(q.slot, r.slot) => Rooms!Overlap(r.slot, q.slot) BY <1>1 DEF Rooms!Overlap
<1> QED BY <1>2 DEF Apart, Together

\* What conflicts with nothing is apart from everything that is scheduled.
LEMMA ValidatedApart ==
    ASSUME SlotsAreTimes, VenueInv, NEW i \in Items, NEW plan \in Rooms!Row, Rooms!Conflicts(i, plan) = {},
           NEW j \in Items, j # i, Rooms!Booked(j)
    PROVE  Apart(item[j], plan)
BY DEF Rooms!Conflicts, Rooms!Booked, Apart, Together

\* A row that is written over the copy it was made from is the new row.
LEMMA WrittenFresh ==
    ASSUME NEW c \in Rooms!Row, NEW n \in Rooms!Row
    PROVE  Rooms!Written(c, c, n) = n
<1> DEFINE D == {"status", "venue", "resource", "slot"}
<1>1. c = [f \in D |-> c[f]] /\ n = [f \in D |-> n[f]] /\ DOMAIN c = D BY DEF Rooms!Row
<1>2. Rooms!Written(c, c, n) = [f \in D |-> n[f]] BY <1>1 DEF Rooms!Written
<1> QED BY <1>1, <1>2

\* A row that is written over another is a row.
LEMMA WrittenRow ==
    ASSUME NEW r \in Rooms!Row, NEW c \in Rooms!Row, NEW n \in Rooms!Row
    PROVE  Rooms!Written(r, c, n) \in Rooms!Row
<1>1. Rooms!Written(r, c, n) = [status |-> IF n.status # c.status THEN n.status ELSE r.status,
                                venue |-> IF n.venue # c.venue THEN n.venue ELSE r.venue,
                                resource |-> IF n.resource # c.resource THEN n.resource ELSE r.resource,
                                slot |-> IF n.slot # c.slot THEN n.slot ELSE r.slot]
  BY DEF Rooms!Written, Rooms!Row
<1> QED BY <1>1 DEF Rooms!Row

LEMMA InitVenue == Rooms!Init => VenueInv
<1> SUFFICES ASSUME Rooms!Init PROVE VenueInv OBVIOUS
<1>1. \A s \in Sessions : sess[s] = Rooms!Idle /\ sess[s].at = "idle" BY DEF Rooms!Init, Rooms!Idle
<1>2. \A i \in Items : item[i] = Rooms!NoItem /\ item[i].status = "absent" BY DEF Rooms!Init, Rooms!NoItem
<1>3. Rooms!TypeOK BY DEF Rooms!Init, Rooms!TypeOK
<1> QED BY <1>1, <1>2, <1>3 DEF VenueInv, Rooms!Booked

\* The sessions after a step of one of them.
LEMMA EditingStep ==
    ASSUME VenueInv, NEW s \in Sessions, NEW x \in Editing, sess' = [sess EXCEPT ![s] = x]
    PROVE  /\ sess' \in [Sessions -> Editing]
           /\ \A r \in Sessions : sess'[r] = IF r = s THEN x ELSE sess[r]
<1>1. sess \in [Sessions -> Editing] BY DEF VenueInv, Rooms!TypeOK, Editing
<1> QED BY <1>1

\* A request loads, or ends: the items rest and no lock is taken.
LEMMA NoLockTaken ==
    ASSUME VenueInv, NEW s \in Sessions, NEW x \in Editing, x.at # "checked",
           sess' = [sess EXCEPT ![s] = x], UNCHANGED <<item, stale>>
    PROVE  VenueInv'
<1>1. /\ sess' \in [Sessions -> Editing]
      /\ \A r \in Sessions : sess'[r] = IF r = s THEN x ELSE sess[r]
  BY EditingStep
<1>2. Rooms!TypeOK' BY <1>1 DEF VenueInv, Rooms!TypeOK, Editing
<1>3. \A j : Rooms!Booked(j)' = Rooms!Booked(j) BY DEF Rooms!Booked
<1> QED BY <1>1, <1>2, <1>3 DEF VenueInv

LEMMA LoadEditStep ==
    ASSUME VenueInv, NEW s \in Sessions, (\E i \in Items : Rooms!LoadEdit(s, i)) \/ Rooms!Abort(s)
    PROVE  VenueInv'
<1>1. ASSUME NEW i \in Items, Rooms!LoadEdit(s, i) PROVE VenueInv'
  <2> DEFINE x == [at |-> "loaded", on |-> i, copy |-> item[i]]
  <2>1. item[i] \in Rooms!Row BY <1>1 DEF Rooms!LoadEdit, Rooms!NoItem, VenueInv, Rooms!TypeOK
  <2>2. x \in Editing /\ x.at = "loaded" BY <2>1 DEF Editing
  <2>3. sess' = [sess EXCEPT ![s] = x] /\ UNCHANGED <<item, stale>> BY <1>1 DEF Rooms!LoadEdit
  <2> HIDE DEF x
  <2> QED BY <2>2, <2>3, NoLockTaken
<1>2. CASE Rooms!Abort(s)
  <2> DEFINE x == Rooms!Idle
  <2>1. x \in Editing /\ x.at = "idle" BY DEF Editing, Rooms!Idle
  <2>2. sess' = [sess EXCEPT ![s] = x] /\ UNCHANGED <<item, stale>> BY <1>2 DEF Rooms!Abort
  <2> HIDE DEF x
  <2> QED BY <2>1, <2>2, NoLockTaken
<1> QED BY <1>1, <1>2

\* A validated row conflicts with nothing, and its locks were free.
LEMMA ValidatedStep ==
    ASSUME SlotsAreTimes, VenueInv, NEW s \in Sessions, NEW i \in Items,
           NEW old \in Rooms!Row \cup {Rooms!NoItem}, NEW plan \in Rooms!Row,
           sess[s].at # "checked", Rooms!Validated(s, i, old, plan)
    PROVE  VenueInv'
<1> DEFINE x == [at |-> "checked", on |-> i, copy |-> old, new |-> plan]
<1>1. /\ \A r \in Sessions : sess[r].at = "checked" => Rooms!Scope(sess[r].new) \cap Rooms!Scope(plan) = {}
      /\ Rooms!Conflicts(i, plan) = {}
      /\ sess' = [sess EXCEPT ![s] = x] /\ UNCHANGED <<item, stale>>
  BY DEF Rooms!Validated, Rooms!LockFree
<1>2. x \in Editing /\ x.at = "checked" /\ x.on = i /\ x.new = plan BY DEF Editing
<1> HIDE DEF x
<1>3. /\ sess' \in [Sessions -> Editing]
      /\ \A r \in Sessions : sess'[r] = IF r = s THEN x ELSE sess[r]
  BY <1>1, <1>2, EditingStep
<1>4. Rooms!TypeOK' BY <1>1, <1>3 DEF VenueInv, Rooms!TypeOK, Editing
<1>5. \A j : Rooms!Booked(j)' = Rooms!Booked(j) BY <1>1 DEF Rooms!Booked
<1>6. \A j \in Items : j # i /\ Rooms!Booked(j) => Apart(item[j], plan) BY <1>1, ValidatedApart
<1>7. \A r \in Sessions : sess'[r].at = "checked" =>
          \A j \in Items \ stale' : j # sess'[r].on /\ Rooms!Booked(j)' => Apart(item'[j], sess'[r].new)
  BY <1>1, <1>2, <1>3, <1>5, <1>6 DEF VenueInv
<1>8. \A r, t \in Sessions : r # t /\ sess'[r].at = "checked" /\ sess'[t].at = "checked" =>
          Rooms!Scope(sess'[r].new) \cap Rooms!Scope(sess'[t].new) = {}
  BY <1>1, <1>2, <1>3 DEF VenueInv
<1> QED BY <1>1, <1>4, <1>5, <1>7, <1>8 DEF VenueInv

LEMMA CheckStep ==
    ASSUME SlotsAreTimes, VenueInv, NEW s \in Sessions, NEW plan \in Rooms!Row,
           (\E i \in Items : Rooms!Add(s, i, plan)) \/ Rooms!CheckEdit(s, plan)
    PROVE  VenueInv'
<1>1. ASSUME NEW i \in Items, Rooms!Add(s, i, plan) PROVE VenueInv'
  <2>1. sess[s].at # "checked" /\ Rooms!Validated(s, i, Rooms!NoItem, plan) BY <1>1 DEF Rooms!Add, Rooms!Idle
  <2> QED BY <2>1, ValidatedStep
<1>2. CASE Rooms!CheckEdit(s, plan)
  <2>1. /\ sess[s].at = "loaded" /\ Rooms!Validated(s, sess[s].on, sess[s].copy, plan)
        /\ sess[s] \in Editing
    BY <1>2 DEF Rooms!CheckEdit, VenueInv, Rooms!TypeOK, Editing
  <2>2. sess[s].on \in Items /\ sess[s].copy \in Rooms!Row BY <2>1 DEF Editing, Rooms!Idle
  <2> QED BY <2>1, <2>2, ValidatedStep
<1> QED BY <1>1, <1>2

\* A row is written: the one its writer has validated, or the item is stale.
LEMMA RowWritten ==
    ASSUME SlotsAreTimes, VenueInv, NEW s \in Sessions, sess[s].at = "checked", NEW i \in Items, i = sess[s].on,
           NEW plan \in Rooms!Row, item' = [item EXCEPT ![i] = plan],
           sess' = [sess EXCEPT ![s] = Rooms!Idle], stale' \in SUBSET Items,
           stale \subseteq stale', i \in stale' \/ plan = sess[s].new
    PROVE  VenueInv'
<1>1. Rooms!Idle \in Editing /\ Rooms!Idle.at = "idle" BY DEF Editing, Rooms!Idle
<1>2. /\ sess' \in [Sessions -> Editing]
      /\ \A r \in Sessions : sess'[r] = IF r = s THEN Rooms!Idle ELSE sess[r]
  BY <1>1, EditingStep
<1>3. \A j \in Items : item'[j] = IF j = i THEN plan ELSE item[j] BY DEF VenueInv, Rooms!TypeOK
<1>4. Rooms!TypeOK' BY <1>2 DEF VenueInv, Rooms!TypeOK, Editing
<1>5. \A j \in Items : j # i => (Rooms!Booked(j)' <=> Rooms!Booked(j)) BY <1>3 DEF Rooms!Booked
<1>6. ASSUME NEW j \in Items \ stale', j # i, Rooms!Booked(j), i \notin stale' PROVE Apart(item[j], plan) /\ Apart(plan, item[j])
  <2>1. Apart(item[j], plan) BY <1>6 DEF VenueInv
  <2>2. item[j] \in Rooms!Row BY <1>6 DEF Rooms!Booked, VenueInv, Rooms!TypeOK, Rooms!NoItem
  <2> QED BY <2>1, <2>2, ApartBothWays
<1>7. \A j, k \in Items \ stale' : j # k /\ Rooms!Booked(j)' /\ Rooms!Booked(k)' => Apart(item'[j], item'[k])
  BY <1>3, <1>5, <1>6 DEF VenueInv
<1>8. ASSUME NEW r \in Sessions, sess'[r].at = "checked", NEW j \in Items \ stale', j # sess'[r].on, Rooms!Booked(j)'
      PROVE  Apart(item'[j], sess'[r].new)
  <2>1. r # s /\ sess'[r] = sess[r] BY <1>1, <1>2, <1>8
  <2>2. CASE j = i
    <3>1. Rooms!Scope(sess[s].new) \cap Rooms!Scope(sess[r].new) = {} BY <1>8, <2>1 DEF VenueInv
    <3>2. Apart(sess[s].new, sess[r].new) BY <3>1, LocksKeepApart
    <3> QED BY <3>2, <2>1, <2>2, <1>3, <1>8
  <2>3. CASE j # i BY <2>1, <2>3, <1>3, <1>5, <1>8 DEF VenueInv
  <2> QED BY <2>2, <2>3
<1>9. \A r, t \in Sessions : r # t /\ sess'[r].at = "checked" /\ sess'[t].at = "checked" =>
          Rooms!Scope(sess'[r].new) \cap Rooms!Scope(sess'[t].new) = {}
  BY <1>1, <1>2 DEF VenueInv
<1> QED BY <1>4, <1>7, <1>8, <1>9 DEF VenueInv

LEMMA WriteStep ==
    ASSUME SlotsAreTimes, VenueInv, NEW s \in Sessions, Rooms!Insert(s) \/ Rooms!WriteEdit(s)
    PROVE  VenueInv'
<1>1. sess[s].at = "checked" /\ sess[s] \in Editing /\ stale \in SUBSET Items
  BY DEF Rooms!Insert, Rooms!WriteEdit, VenueInv, Rooms!TypeOK, Editing
<1>2. /\ sess[s].on \in Items /\ sess[s].new \in Rooms!Row
      /\ sess[s].copy \in Rooms!Row \cup {Rooms!NoItem}
  BY <1>1 DEF Editing, Rooms!Idle
<1>3. CASE Rooms!Insert(s)
  BY <1>1, <1>2, <1>3, RowWritten DEF Rooms!Insert
<1>4. CASE Rooms!WriteEdit(s)
  <2> DEFINE i == sess[s].on
             plan == Rooms!Written(item[i], sess[s].copy, sess[s].new)
  <2>1. /\ sess[s].copy # Rooms!NoItem /\ item[i] # Rooms!NoItem /\ item' = [item EXCEPT ![i] = plan]
        /\ stale' = IF item[i] = sess[s].copy THEN stale ELSE stale \cup {i}
        /\ sess' = [sess EXCEPT ![s] = Rooms!Idle]
    BY <1>4 DEF Rooms!WriteEdit
  <2>2. sess[s].copy \in Rooms!Row /\ item[i] \in Rooms!Row BY <2>1, <1>2 DEF VenueInv, Rooms!TypeOK
  <2>3. plan \in Rooms!Row BY <1>2, <2>2, WrittenRow
  <2>4. item[i] = sess[s].copy => plan = sess[s].new BY <1>2, <2>2, WrittenFresh
  <2>5. stale' \in SUBSET Items /\ stale \subseteq stale' /\ (i \in stale' \/ plan = sess[s].new)
    BY <1>1, <1>2, <2>1, <2>4
  <2> HIDE DEF plan
  <2> QED BY <1>1, <1>2, <2>1, <2>3, <2>5, RowWritten
<1> QED BY <1>3, <1>4

\* Less is scheduled after a cancellation or a deletion.
LEMMA LessBooked ==
    ASSUME VenueInv, NEW i \in Items, Rooms!Cancel(i) \/ Rooms!Delete(i)
    PROVE  VenueInv'
<1>1. PICK plan : /\ item' = [item EXCEPT ![i] = plan] /\ plan.status # "scheduled"
                 /\ plan \in Rooms!Row \cup {Rooms!NoItem}
  <2>1. CASE Rooms!Cancel(i)
    <3> DEFINE plan == [item[i] EXCEPT !.status = "cancelled"]
    <3>1. item[i] \in Rooms!Row BY <2>1 DEF Rooms!Cancel, VenueInv, Rooms!TypeOK
    <3>2. plan \in Rooms!Row /\ plan.status = "cancelled" BY <3>1 DEF Rooms!Row
    <3>3. item' = [item EXCEPT ![i] = plan] BY <2>1 DEF Rooms!Cancel
    <3> HIDE DEF plan
    <3> QED BY <3>2, <3>3
  <2>2. CASE Rooms!Delete(i)
    BY <2>2 DEF Rooms!Delete, Rooms!NoItem
  <2> QED BY <2>1, <2>2
<1>2. sess' = sess /\ stale \ {i} \subseteq stale' /\ stale' \in SUBSET Items
  BY DEF Rooms!Cancel, Rooms!Delete, VenueInv, Rooms!TypeOK
<1>3. \A j \in Items : item'[j] = IF j = i THEN plan ELSE item[j] BY <1>1 DEF VenueInv, Rooms!TypeOK
<1>4. Rooms!TypeOK' BY <1>1, <1>2 DEF VenueInv, Rooms!TypeOK
<1>5. \A j \in Items : Rooms!Booked(j)' => Rooms!Booked(j) /\ j # i /\ item'[j] = item[j]
  BY <1>1, <1>3 DEF Rooms!Booked
<1>6. \A j \in Items \ stale' : Rooms!Booked(j)' => j \in Items \ stale BY <1>2, <1>5
<1> QED BY <1>2, <1>4, <1>5, <1>6 DEF VenueInv

LEMMA VenueNext == ASSUME SlotsAreTimes, VenueInv, [Rooms!Next]_Rooms!vars PROVE VenueInv'
<1>1. CASE UNCHANGED Rooms!vars
  <2>1. UNCHANGED <<item, sess, stale>> BY <1>1 DEF Rooms!vars
  <2> QED BY <2>1 DEF VenueInv, Rooms!TypeOK, Rooms!Booked
<1>2. CASE Rooms!Next
  BY <1>2, LoadEditStep, CheckStep, WriteStep, LessBooked DEF Rooms!Next
<1> QED BY <1>1, <1>2

\* VenueSchedule.SeparateEditsKeepApart: two items whose overlap nobody has
\* edited away do not share a venue and a resource, for any number of items,
\* venues, resources and requests.
THEOREM VenuesKeepApart ==
    ASSUME SlotsAreTimes PROVE Rooms!Spec => [](Rooms!TypeOK /\ Rooms!SeparateEditsKeepApart)
<1>1. VenueInv => Rooms!TypeOK /\ Rooms!SeparateEditsKeepApart
  BY DEF VenueInv, Rooms!SeparateEditsKeepApart, Apart, Together
<1>2. VenueInv /\ [Rooms!Next]_Rooms!vars => VenueInv' BY VenueNext
<1> QED BY <1>1, <1>2, InitVenue, PTL DEF Rooms!Spec

-----------------------------------------------------------------------------
(* Sponsors, deliverables and leads: Sponsorship.                          *)

\* A lead that has been captured.
Captured == [kind : Kinds, status : Sponsors!LeadStatus, consent : Sponsors!Consent]

\* What a request may have read.
Reading ==
    {Sponsors!Idle}
    \cup [op : {"inquiry"}, copy : Sponsors!InquiryStatus]
    \cup [op : {"sponsor"}, on : Events, copy : Sponsors!SponsorStatus]
    \cup [op : {"deliverable"}, copy : Sponsors!Deliverable]
    \cup [op : {"lead"}, copy : Captured]

\* The columns; a row that a request has read stays there.
SponsorShape ==
    /\ inquiry \in Sponsors!InquiryStatus
    /\ sponsor \in [Events -> Sponsors!SponsorStatus]
    /\ deliverable \in Sponsors!Deliverable
    /\ lead \in Captured \cup {Sponsors!NoLead}
    /\ late \in SUBSET {"inquiry", "sponsor", "deliverable", "lead"}
    /\ sess \in [Sessions -> Reading]
    /\ \A s \in Sessions :
          /\ sess[s].op = "sponsor" => sponsor[sess[s].on] # "none"
          /\ sess[s].op = "lead" => lead # Sponsors!NoLead

SponsorInv == SponsorShape /\ Sponsors!SponsorshipAgrees

LEMMA SponsorTyped == SponsorInv => Sponsors!TypeOK
<1> SUFFICES ASSUME SponsorInv PROVE Sponsors!TypeOK OBVIOUS
<1>1. \A s \in Sessions :
          \/ sess[s] = Sponsors!Idle
          \/ sess[s].op = "inquiry" /\ sess[s] \in [op : {"inquiry"}, copy : Sponsors!InquiryStatus]
          \/ sess[s].op = "sponsor" /\ sess[s] \in [op : {"sponsor"}, on : Events, copy : Sponsors!SponsorStatus]
          \/ sess[s].op = "deliverable" /\ sess[s] \in [op : {"deliverable"}, copy : Sponsors!Deliverable]
          \/ sess[s].op = "lead" /\ sess[s] \in [op : {"lead"}, copy : Sponsors!Lead]
  BY DEF SponsorInv, SponsorShape, Reading, Captured, Sponsors!Lead
<1> QED BY <1>1 DEF SponsorInv, SponsorShape, Sponsors!TypeOK, Captured, Sponsors!Lead

LEMMA InitSponsor == Sponsors!Init => SponsorInv
<1> SUFFICES ASSUME Sponsors!Init PROVE SponsorInv OBVIOUS
<1>1. \A s \in Sessions : sess[s] = Sponsors!Idle /\ sess[s].op = "idle" BY DEF Sponsors!Init, Sponsors!Idle
<1>2. sess \in [Sessions -> Reading] BY DEF Sponsors!Init, Reading
<1>3. inquiry \in Sponsors!InquiryStatus BY DEF Sponsors!Init, Sponsors!InquiryStatus
<1>4. sponsor \in [Events -> Sponsors!SponsorStatus] /\ \A e \in Events : sponsor[e] = "none"
  BY DEF Sponsors!Init, Sponsors!SponsorStatus
<1>5. deliverable \in Sponsors!Deliverable /\ deliverable.status = "none" /\ ~deliverable.dated
  BY DEF Sponsors!Init, Sponsors!Deliverable, Sponsors!DeliverableStatus
<1>6. lead = Sponsors!NoLead /\ late = {} BY DEF Sponsors!Init
<1>7. SponsorShape BY <1>1, <1>2, <1>3, <1>4, <1>5, <1>6 DEF SponsorShape
<1>8. Sponsors!SponsoredOnce BY <1>4 DEF Sponsors!SponsoredOnce
<1>9. Sponsors!ConsentRespected BY <1>6 DEF Sponsors!ConsentRespected, Sponsors!NoLead
<1>10. Sponsors!CompletionDated BY <1>5 DEF Sponsors!CompletionDated
<1> QED BY <1>7, <1>8, <1>9, <1>10 DEF SponsorInv, Sponsors!SponsorshipAgrees

\* The sessions after a step of one of them.
LEMMA SponsorSession ==
    ASSUME SponsorInv, NEW s \in Sessions, NEW x \in Reading, sess' = [sess EXCEPT ![s] = x]
    PROVE  /\ sess' \in [Sessions -> Reading]
           /\ \A r \in Sessions : sess'[r] = IF r = s THEN x ELSE sess[r]
BY DEF SponsorInv, SponsorShape

\* A request reads a row that is there.
LEMMA BeginStep ==
    ASSUME SponsorInv, NEW s \in Sessions, NEW x \in Reading, sess' = [sess EXCEPT ![s] = x],
           UNCHANGED <<inquiry, sponsor, deliverable, lead, late>>,
           x.op = "sponsor" => sponsor[x.on] # "none",
           x.op = "lead" => lead # Sponsors!NoLead
    PROVE  SponsorInv'
<1>1. /\ sess' \in [Sessions -> Reading]
      /\ \A r \in Sessions : sess'[r] = IF r = s THEN x ELSE sess[r]
  BY SponsorSession
<1>2. SponsorShape' BY <1>1 DEF SponsorInv, SponsorShape
<1>3. Sponsors!SponsorshipAgrees'
  BY DEF SponsorInv, Sponsors!SponsorshipAgrees, Sponsors!SponsoredOnce, Sponsors!ConsentRespected,
         Sponsors!CompletionDated
<1> QED BY <1>2, <1>3 DEF SponsorInv

LEMMA SponsorReads ==
    ASSUME SponsorInv, NEW s \in Sessions,
           \/ Sponsors!LoadInquiry(s) \/ Sponsors!LoadDeliverable(s) \/ Sponsors!LoadLead(s)
           \/ \E e \in Events : Sponsors!LoadSponsor(s, e)
           \/ Sponsors!Abort(s)
    PROVE  SponsorInv'
<1> USE DEF Sponsors!Begin
<1>1. CASE Sponsors!LoadInquiry(s)
  <2> DEFINE x == [op |-> "inquiry", copy |-> inquiry]
  <2>1. x \in Reading /\ x.op = "inquiry" BY DEF SponsorInv, SponsorShape, Reading
  <2>2. sess' = [sess EXCEPT ![s] = x] /\ UNCHANGED <<inquiry, sponsor, deliverable, lead, late>>
    BY <1>1 DEF Sponsors!LoadInquiry
  <2> HIDE DEF x
  <2> QED BY <2>1, <2>2, BeginStep
<1>2. CASE Sponsors!LoadDeliverable(s)
  <2> DEFINE x == [op |-> "deliverable", copy |-> deliverable]
  <2>1. x \in Reading /\ x.op = "deliverable" BY DEF SponsorInv, SponsorShape, Reading
  <2>2. sess' = [sess EXCEPT ![s] = x] /\ UNCHANGED <<inquiry, sponsor, deliverable, lead, late>>
    BY <1>2 DEF Sponsors!LoadDeliverable
  <2> HIDE DEF x
  <2> QED BY <2>1, <2>2, BeginStep
<1>3. CASE Sponsors!LoadLead(s)
  <2> DEFINE x == [op |-> "lead", copy |-> lead]
  <2>1. lead # Sponsors!NoLead BY <1>3 DEF Sponsors!LoadLead
  <2>2. x \in Reading /\ x.op = "lead" BY <2>1 DEF SponsorInv, SponsorShape, Reading
  <2>3. sess' = [sess EXCEPT ![s] = x] /\ UNCHANGED <<inquiry, sponsor, deliverable, lead, late>>
    BY <1>3 DEF Sponsors!LoadLead
  <2> HIDE DEF x
  <2> QED BY <2>1, <2>2, <2>3, BeginStep
<1>4. ASSUME NEW e \in Events, Sponsors!LoadSponsor(s, e) PROVE SponsorInv'
  <2> DEFINE x == [op |-> "sponsor", on |-> e, copy |-> sponsor[e]]
  <2>1. sponsor[e] # "none" /\ sponsor[e] \in Sponsors!SponsorStatus
    BY <1>4 DEF Sponsors!LoadSponsor, SponsorInv, SponsorShape
  <2>2. x \in Reading /\ x.op = "sponsor" /\ x.on = e BY <2>1 DEF Reading
  <2>3. sess' = [sess EXCEPT ![s] = x] /\ UNCHANGED <<inquiry, sponsor, deliverable, lead, late>>
    BY <1>4 DEF Sponsors!LoadSponsor
  <2> HIDE DEF x
  <2> QED BY <2>1, <2>2, <2>3, BeginStep
<1>5. CASE Sponsors!Abort(s)
  <2> DEFINE x == Sponsors!Idle
  <2>1. x \in Reading /\ x.op = "idle" BY DEF Reading, Sponsors!Idle
  <2>2. sess' = [sess EXCEPT ![s] = x] /\ UNCHANGED <<inquiry, sponsor, deliverable, lead, late>>
    BY <1>5 DEF Sponsors!Abort
  <2> HIDE DEF x
  <2> QED BY <2>1, <2>2, BeginStep
<1> QED BY <1>1, <1>2, <1>3, <1>4, <1>5

\* A request ends; rows stay, and what was written over is known.
LEMMA SponsorFinish ==
    ASSUME SponsorInv, NEW s \in Sessions, NEW kept, Sponsors!Finish(s, kept),
           sess[s].op \in {"inquiry", "sponsor", "deliverable", "lead"}
    PROVE  /\ sess' \in [Sessions -> Reading]
           /\ \A r \in Sessions : sess'[r].op # "idle" => sess'[r] = sess[r]
           /\ late' \in SUBSET {"inquiry", "sponsor", "deliverable", "lead"}
           /\ late \subseteq late'
           /\ sess[s].op \notin late' => sess[s].copy = kept
<1>1. Sponsors!Idle \in Reading /\ Sponsors!Idle.op = "idle" BY DEF Reading, Sponsors!Idle
<1>2. sess' = [sess EXCEPT ![s] = Sponsors!Idle] BY DEF Sponsors!Finish
<1>3. /\ sess' \in [Sessions -> Reading]
      /\ \A r \in Sessions : sess'[r] = IF r = s THEN Sponsors!Idle ELSE sess[r]
  BY <1>1, <1>2, SponsorSession
<1>4. /\ late' \in SUBSET {"inquiry", "sponsor", "deliverable", "lead"} /\ late \subseteq late'
      /\ sess[s].op \notin late' => sess[s].copy = kept
  BY DEF Sponsors!Finish, SponsorInv, SponsorShape
<1> QED BY <1>1, <1>3, <1>4

LEMMA ReviewStep ==
    ASSUME SponsorInv, NEW s \in Sessions, NEW to \in Sponsors!InquiryStatus, Sponsors!Review(s, to)
    PROVE  SponsorInv'
<1>1. /\ sess[s].op = "inquiry" /\ inquiry' = to /\ Sponsors!Finish(s, inquiry)
      /\ <<sess[s].copy, to>> \in Sponsors!InquiryMoves
      /\ UNCHANGED <<sponsor, deliverable, lead>>
  BY DEF Sponsors!Review
<1>2. /\ sess' \in [Sessions -> Reading]
      /\ \A r \in Sessions : sess'[r].op # "idle" => sess'[r] = sess[r]
      /\ late' \in SUBSET {"inquiry", "sponsor", "deliverable", "lead"}
      /\ late \subseteq late'
      /\ "inquiry" \notin late' => sess[s].copy = inquiry
  BY <1>1, SponsorFinish
<1>3. SponsorShape' BY <1>1, <1>2 DEF SponsorInv, SponsorShape
<1>4. <<"confirmed", to>> \in Sponsors!InquiryMoves => to = "closed" BY DEF Sponsors!InquiryMoves
<1>5. <<"closed", to>> \notin Sponsors!InquiryMoves BY DEF Sponsors!InquiryMoves
<1>6. Sponsors!SponsoredOnce'
  BY <1>1, <1>2, <1>4, <1>5 DEF SponsorInv, Sponsors!SponsorshipAgrees, Sponsors!SponsoredOnce
<1>7. Sponsors!ConsentRespected' /\ Sponsors!CompletionDated'
  BY <1>1, <1>2 DEF SponsorInv, Sponsors!SponsorshipAgrees, Sponsors!ConsentRespected, Sponsors!CompletionDated
<1> QED BY <1>3, <1>6, <1>7 DEF SponsorInv, Sponsors!SponsorshipAgrees

LEMMA AssignSponsorStep ==
    ASSUME SponsorInv, NEW s \in Sessions, NEW e \in Events, Sponsors!AssignSponsor(s, e)
    PROVE  SponsorInv'
<1>1. /\ sess[s].op = "inquiry" /\ inquiry' = "confirmed" /\ Sponsors!Finish(s, inquiry)
      /\ sess[s].copy = "approved" /\ sponsor' = [sponsor EXCEPT ![e] = "confirmed"]
      /\ UNCHANGED <<deliverable, lead>>
  BY DEF Sponsors!AssignSponsor, Sponsors!MayAssign
<1>2. /\ sess' \in [Sessions -> Reading]
      /\ \A r \in Sessions : sess'[r].op # "idle" => sess'[r] = sess[r]
      /\ late' \in SUBSET {"inquiry", "sponsor", "deliverable", "lead"}
      /\ late \subseteq late'
      /\ "inquiry" \notin late' => sess[s].copy = inquiry
  BY <1>1, SponsorFinish
<1>3. /\ sponsor' \in [Events -> Sponsors!SponsorStatus]
      /\ \A f \in Events : sponsor'[f] = IF f = e THEN "confirmed" ELSE sponsor[f]
  BY <1>1 DEF SponsorInv, SponsorShape, Sponsors!SponsorStatus
<1>4. \A r \in Sessions : sess[r].op = "sponsor" => sess[r].on \in Events
  BY DEF SponsorInv, SponsorShape, Reading, Sponsors!Idle
<1>5. "confirmed" \in Sponsors!InquiryStatus BY DEF Sponsors!InquiryStatus
<1>6. SponsorShape' BY <1>1, <1>2, <1>3, <1>4, <1>5 DEF SponsorInv, SponsorShape
<1>7. Sponsors!SponsoredOnce'
  BY <1>1, <1>2, <1>3 DEF SponsorInv, Sponsors!SponsorshipAgrees, Sponsors!SponsoredOnce
<1>8. Sponsors!ConsentRespected' /\ Sponsors!CompletionDated'
  BY <1>1, <1>2 DEF SponsorInv, Sponsors!SponsorshipAgrees, Sponsors!ConsentRespected, Sponsors!CompletionDated
<1> QED BY <1>6, <1>7, <1>8 DEF SponsorInv, Sponsors!SponsorshipAgrees

LEMMA UpdateSponsorStep ==
    ASSUME SponsorInv, NEW s \in Sessions, NEW to \in Sponsors!SponsorStatus, Sponsors!UpdateSponsor(s, to)
    PROVE  SponsorInv'
<1> DEFINE e == sess[s].on
<1>1. /\ sess[s].op = "sponsor" /\ Sponsors!Finish(s, sponsor[e])
      /\ <<sess[s].copy, to>> \in Sponsors!SponsorMoves /\ sponsor' = [sponsor EXCEPT ![e] = to]
      /\ UNCHANGED <<inquiry, deliverable, lead>>
  BY DEF Sponsors!UpdateSponsor
<1>2. /\ sess' \in [Sessions -> Reading]
      /\ \A r \in Sessions : sess'[r].op # "idle" => sess'[r] = sess[r]
      /\ late' \in SUBSET {"inquiry", "sponsor", "deliverable", "lead"}
      /\ late \subseteq late'
  BY <1>1, SponsorFinish
<1>3. to # "none" BY <1>1 DEF Sponsors!SponsorMoves
<1>4. \A r \in Sessions : sess[r].op = "sponsor" => sess[r].on \in Events
  BY DEF SponsorInv, SponsorShape, Reading, Sponsors!Idle
<1>5. e \in Events /\ sponsor[e] # "none" BY <1>1, <1>4 DEF SponsorInv, SponsorShape
<1> HIDE DEF e
<1>6. /\ sponsor' \in [Events -> Sponsors!SponsorStatus]
      /\ \A f \in Events : sponsor'[f] = IF f = e THEN to ELSE sponsor[f]
  BY <1>1 DEF SponsorInv, SponsorShape
<1>7. SponsorShape' BY <1>1, <1>2, <1>3, <1>4, <1>6 DEF SponsorInv, SponsorShape
<1>8. Sponsors!SponsoredOnce'
  BY <1>1, <1>2, <1>5, <1>6 DEF SponsorInv, Sponsors!SponsorshipAgrees, Sponsors!SponsoredOnce
<1>9. Sponsors!ConsentRespected' /\ Sponsors!CompletionDated'
  BY <1>1, <1>2 DEF SponsorInv, Sponsors!SponsorshipAgrees, Sponsors!ConsentRespected, Sponsors!CompletionDated
<1> QED BY <1>7, <1>8, <1>9 DEF SponsorInv, Sponsors!SponsorshipAgrees

\* What is written of a deliverable.
LEMMA DeliverableWritten ==
    ASSUME NEW r \in Sponsors!Deliverable, NEW c \in Sponsors!Deliverable, NEW n \in Sponsors!Deliverable
    PROVE  /\ Sponsors!Written(r, c, n) \in Sponsors!Deliverable
           /\ r = c => Sponsors!Written(r, c, n) = n
<1>1. Sponsors!Written(r, c, n) = [status |-> IF n.status # c.status THEN n.status ELSE r.status,
                                   dated |-> IF n.dated # c.dated THEN n.dated ELSE r.dated]
  BY DEF Sponsors!Written, Sponsors!Deliverable
<1>2. n = [status |-> n.status, dated |-> n.dated] BY DEF Sponsors!Deliverable
<1> QED BY <1>1, <1>2 DEF Sponsors!Deliverable

LEMMA DeliverableStep ==
    ASSUME SponsorInv,
           \/ \E e \in Events : Sponsors!CreateDeliverable(e)
           \/ \E s \in Sessions, to \in Sponsors!DeliverableStatus : Sponsors!UpdateDeliverable(s, to)
    PROVE  SponsorInv'
<1>1. ASSUME NEW e \in Events, Sponsors!CreateDeliverable(e) PROVE SponsorInv'
  <2>1. deliverable' = [status |-> "pending", dated |-> FALSE] /\ UNCHANGED <<inquiry, sponsor, lead, late, sess>>
    BY <1>1 DEF Sponsors!CreateDeliverable
  <2>2. deliverable' \in Sponsors!Deliverable /\ deliverable'.status = "pending" /\ ~deliverable'.dated
    BY <2>1 DEF Sponsors!Deliverable, Sponsors!DeliverableStatus
  <2>3. SponsorShape' BY <2>1, <2>2 DEF SponsorInv, SponsorShape
  <2>4. Sponsors!SponsoredOnce' /\ Sponsors!ConsentRespected'
    BY <2>1 DEF SponsorInv, Sponsors!SponsorshipAgrees, Sponsors!SponsoredOnce, Sponsors!ConsentRespected
  <2>5. Sponsors!CompletionDated' BY <2>2 DEF Sponsors!CompletionDated
  <2> QED BY <2>3, <2>4, <2>5 DEF SponsorInv, Sponsors!SponsorshipAgrees
<1>2. ASSUME NEW s \in Sessions, NEW to \in Sponsors!DeliverableStatus, Sponsors!UpdateDeliverable(s, to)
      PROVE  SponsorInv'
  <2> DEFINE n == [status |-> to, dated |-> to = "completed"]
  <2>1. /\ sess[s].op = "deliverable" /\ Sponsors!Finish(s, deliverable)
        /\ deliverable' = Sponsors!Written(deliverable, sess[s].copy, n)
        /\ UNCHANGED <<inquiry, sponsor, lead>>
    BY <1>2 DEF Sponsors!UpdateDeliverable
  <2>2. /\ sess' \in [Sessions -> Reading]
        /\ \A r \in Sessions : sess'[r].op # "idle" => sess'[r] = sess[r]
        /\ late' \in SUBSET {"inquiry", "sponsor", "deliverable", "lead"}
        /\ late \subseteq late'
        /\ "deliverable" \notin late' => sess[s].copy = deliverable
    BY <2>1, SponsorFinish
  <2>3. n \in Sponsors!Deliverable /\ (n.dated <=> n.status = "completed") BY DEF Sponsors!Deliverable
  <2>4. sess[s] \in Reading /\ deliverable \in Sponsors!Deliverable BY DEF SponsorInv, SponsorShape
  <2>5. sess[s].copy \in Sponsors!Deliverable BY <2>1, <2>4 DEF Reading, Sponsors!Idle
  <2> HIDE DEF n
  <2>6. /\ deliverable' \in Sponsors!Deliverable
        /\ "deliverable" \notin late' => deliverable' = n
    BY <2>1, <2>2, <2>3, <2>4, <2>5, DeliverableWritten
  <2>7. SponsorShape' BY <2>1, <2>2, <2>6 DEF SponsorInv, SponsorShape
  <2>8. Sponsors!SponsoredOnce' /\ Sponsors!ConsentRespected'
    BY <2>1, <2>2 DEF SponsorInv, Sponsors!SponsorshipAgrees, Sponsors!SponsoredOnce, Sponsors!ConsentRespected
  <2>9. Sponsors!CompletionDated' BY <2>3, <2>6 DEF Sponsors!CompletionDated
  <2> QED BY <2>7, <2>8, <2>9 DEF SponsorInv, Sponsors!SponsorshipAgrees
<1> QED BY <1>1, <1>2

\* What is written of a lead.
LEMMA LeadWritten ==
    ASSUME NEW r \in Captured, NEW c \in Captured, NEW n \in Captured
    PROVE  /\ Sponsors!Written(r, c, n) \in Captured
           /\ r = c => Sponsors!Written(r, c, n) = n
<1>1. Sponsors!Written(r, c, n) = [kind |-> IF n.kind # c.kind THEN n.kind ELSE r.kind,
                                   status |-> IF n.status # c.status THEN n.status ELSE r.status,
                                   consent |-> IF n.consent # c.consent THEN n.consent ELSE r.consent]
  BY DEF Sponsors!Written, Captured
<1>2. n = [kind |-> n.kind, status |-> n.status, consent |-> n.consent] BY DEF Captured
<1> QED BY <1>1, <1>2 DEF Captured

\* Consent is respected in a lead.
Respected(kept) ==
    /\ kept.consent = "withdrawn" => kept.status = "unsubscribed"
    /\ kept.kind = "lead_capture" /\ kept.status # "unsubscribed" => kept.consent = "given"

LEMMA CaptureStep ==
    ASSUME SponsorInv, NEW k \in Kinds, NEW c \in Sponsors!Consent, Sponsors!Capture(k, c)
    PROVE  SponsorInv'
<1> DEFINE n == [kind |-> k, status |-> "captured", consent |-> c]
<1>1. /\ lead' = n /\ UNCHANGED <<inquiry, sponsor, deliverable, late, sess>>
      /\ c # "withdrawn" /\ (k = "lead_capture" => c = "given")
  BY DEF Sponsors!Capture, Sponsors!MayCapture
<1>2. n \in Captured BY DEF Captured, Sponsors!LeadStatus, Sponsors!Working
<1>3. Respected(n) BY <1>1 DEF Respected
<1>4. n # Sponsors!NoLead BY DEF Sponsors!NoLead
<1> HIDE DEF n
<1>5. SponsorShape' BY <1>1, <1>2, <1>4 DEF SponsorInv, SponsorShape
<1>6. Sponsors!SponsoredOnce' /\ Sponsors!CompletionDated'
  BY <1>1 DEF SponsorInv, Sponsors!SponsorshipAgrees, Sponsors!SponsoredOnce, Sponsors!CompletionDated
<1>7. Sponsors!ConsentRespected' BY <1>1, <1>3 DEF Respected, Sponsors!ConsentRespected
<1> QED BY <1>5, <1>6, <1>7 DEF SponsorInv, Sponsors!SponsorshipAgrees

\* A lead is written from a copy: it respects consent if the copy's new columns do.
LEMMA WriteLeadStep ==
    ASSUME SponsorInv, NEW s \in Sessions, sess[s].op = "lead", NEW n \in Captured, Sponsors!WriteLead(s, n),
           Respected(sess[s].copy) => Respected(n)
    PROVE  SponsorInv'
<1>1. /\ lead' = Sponsors!Written(lead, sess[s].copy, n) /\ Sponsors!Finish(s, lead)
      /\ UNCHANGED <<inquiry, sponsor, deliverable>>
  BY DEF Sponsors!WriteLead
<1>2. /\ sess' \in [Sessions -> Reading]
      /\ \A r \in Sessions : sess'[r].op # "idle" => sess'[r] = sess[r]
      /\ late' \in SUBSET {"inquiry", "sponsor", "deliverable", "lead"}
      /\ late \subseteq late'
      /\ "lead" \notin late' => sess[s].copy = lead
  BY <1>1, SponsorFinish
<1>3. sess[s] \in Reading /\ lead \in Captured BY DEF SponsorInv, SponsorShape
<1>4. sess[s].copy \in Captured BY <1>3 DEF Reading, Sponsors!Idle
<1>5. /\ lead' \in Captured
      /\ "lead" \notin late' => lead' = n
  BY <1>1, <1>2, <1>3, <1>4, LeadWritten
<1>6. Sponsors!NoLead \notin Captured
  BY DEF Captured, Sponsors!NoLead, Sponsors!LeadStatus, Sponsors!Working
<1>7. SponsorShape' BY <1>1, <1>2, <1>5, <1>6 DEF SponsorInv, SponsorShape
<1>8. Sponsors!SponsoredOnce' /\ Sponsors!CompletionDated'
  BY <1>1, <1>2 DEF SponsorInv, Sponsors!SponsorshipAgrees, Sponsors!SponsoredOnce, Sponsors!CompletionDated
<1>9. ASSUME "lead" \notin late' PROVE Respected(n)
  <2>1. Respected(lead)
    BY <1>2, <1>9 DEF SponsorInv, Sponsors!SponsorshipAgrees, Sponsors!ConsentRespected, Respected
  <2> QED BY <1>2, <1>9, <2>1
<1>10. Sponsors!ConsentRespected' BY <1>5, <1>9 DEF Respected, Sponsors!ConsentRespected
<1> QED BY <1>7, <1>8, <1>10 DEF SponsorInv, Sponsors!SponsorshipAgrees

LEMMA LeadStep ==
    ASSUME SponsorInv, NEW s \in Sessions,
           \/ \E to \in Sponsors!LeadStatus : Sponsors!UpdateLeadStatus(s, to)
           \/ Sponsors!GiveConsent(s) \/ Sponsors!WithdrawConsent(s)
    PROVE  SponsorInv'
<1> DEFINE c == sess[s].copy
<1>1. sess[s].op = "lead" /\ sess[s] \in Reading
  BY DEF Sponsors!UpdateLeadStatus, Sponsors!GiveConsent, Sponsors!WithdrawConsent, SponsorInv, SponsorShape
<1>2. c \in Captured BY <1>1 DEF Reading, Sponsors!Idle
<1>3. ASSUME NEW to \in Sponsors!LeadStatus, Sponsors!UpdateLeadStatus(s, to) PROVE SponsorInv'
  <2> DEFINE n == [c EXCEPT !.status = to, !.consent = IF to = "unsubscribed" THEN "withdrawn" ELSE @]
  <2>1. Sponsors!WriteLead(s, n) /\ <<c.status, to>> \in Sponsors!LeadMoves BY <1>3 DEF Sponsors!UpdateLeadStatus
  <2>2. c.status # "unsubscribed" BY <2>1 DEF Sponsors!LeadMoves, Sponsors!Working
  <2>3. /\ n \in Captured /\ n.kind = c.kind /\ n.status = to
        /\ n.consent = IF to = "unsubscribed" THEN "withdrawn" ELSE c.consent
    BY <1>2 DEF Captured, Sponsors!Consent
  <2>4. Respected(c) => Respected(n) BY <2>2, <2>3 DEF Respected
  <2> HIDE DEF n
  <2> QED BY <1>1, <2>1, <2>3, <2>4, WriteLeadStep
<1>4. CASE Sponsors!GiveConsent(s)
  <2> DEFINE n == [c EXCEPT !.consent = "given"]
  <2>1. Sponsors!WriteLead(s, n) BY <1>4 DEF Sponsors!GiveConsent
  <2>2. n \in Captured /\ n.consent = "given" BY <1>2 DEF Captured, Sponsors!Consent
  <2>3. Respected(n) BY <2>2 DEF Respected
  <2> HIDE DEF n
  <2> QED BY <1>1, <2>1, <2>2, <2>3, WriteLeadStep
<1>5. CASE Sponsors!WithdrawConsent(s)
  <2> DEFINE n == [c EXCEPT !.consent = "withdrawn", !.status = "unsubscribed"]
  <2>1. Sponsors!WriteLead(s, n) BY <1>5 DEF Sponsors!WithdrawConsent
  <2>2. n \in Captured /\ n.status = "unsubscribed" BY <1>2 DEF Captured, Sponsors!Consent, Sponsors!LeadStatus
  <2>3. Respected(n) BY <2>2 DEF Respected
  <2> HIDE DEF n
  <2> QED BY <1>1, <2>1, <2>2, <2>3, WriteLeadStep
<1> QED BY <1>3, <1>4, <1>5

LEMMA SponsorNext == ASSUME SponsorInv, [Sponsors!Next]_Sponsors!vars PROVE SponsorInv'
<1>1. CASE UNCHANGED Sponsors!vars
  <2>1. UNCHANGED <<inquiry, sponsor, deliverable, lead, late, sess>> BY <1>1 DEF Sponsors!vars
  <2>2. SponsorShape' BY <2>1 DEF SponsorInv, SponsorShape
  <2>3. Sponsors!SponsorshipAgrees'
    BY <2>1 DEF SponsorInv, Sponsors!SponsorshipAgrees, Sponsors!SponsoredOnce, Sponsors!ConsentRespected,
                Sponsors!CompletionDated
  <2> QED BY <2>2, <2>3 DEF SponsorInv
<1>2. CASE Sponsors!Next
  BY <1>2, SponsorReads, ReviewStep, AssignSponsorStep, UpdateSponsorStep, DeliverableStep, CaptureStep, LeadStep
     DEF Sponsors!Next
<1> QED BY <1>1, <1>2

\* Sponsorship.SponsorshipAgrees: of the rows that no request wrote from an old
\* copy, an inquiry has one sponsor and then only closes, a lead respects the
\* participant's consent, and a deliverable is dated while it is completed, for
\* any number of events, engagement types and requests.
THEOREM SponsorshipHolds == Sponsors!Spec => [](Sponsors!TypeOK /\ Sponsors!SponsorshipAgrees)
<1>1. SponsorInv => Sponsors!TypeOK /\ Sponsors!SponsorshipAgrees BY SponsorTyped DEF SponsorInv
<1>2. SponsorInv /\ [Sponsors!Next]_Sponsors!vars => SponsorInv' BY SponsorNext
<1> QED BY <1>1, <1>2, InitSponsor, PTL DEF Sponsors!Spec

-----------------------------------------------------------------------------
(* Delivery of push notifications: NotificationDelivery.                   *)

\* A message is tried at least once, and NULL is no dedupe key.
Attempts == MaxAttempts \in Nat \ {0} /\ MaxLosses \in Nat /\ NoKey \notin Keys

\* The rows of a batch that are still to be read have been committed.
Committed(rows) == rows \in Seq(Rows) /\ \A i \in 1 .. Len(rows) : note[rows[i]].status # "none"

\* A message that nobody has tried has no attempts.
Seen == {msg \in Pushes!Note : msg.status = "queued" => msg.attempts = 0}

\* What a worker may be doing.
Working ==
    {Pushes!Idle}
    \cup [op : {"schedule"}, key : Keys]
    \cup [op : {"walk"}, rest : Seq(Rows)]
    \cup [op : {"read"}, on : Rows, seen : Seen, rest : Seq(Rows), for : {"batch", "schedule"}]
    \cup [op : {"send"}, on : Rows, seen : Seen, rest : Seq(Rows), for : {"batch", "schedule"},
          to : SUBSET Devices, taken : BOOLEAN, dead : SUBSET Devices]

\* The batch has rows from its commit on.
BatchOK ==
    /\ batch.status \in {"none", "unsent", "waiting", "running", "done", "dropped"}
    /\ batch.status # "none" => DOMAIN batch = {"status", "rows", "left"} /\ Committed(batch.rows)

\* A worker goes on with rows that have been committed, of a batch that there
\* is; a row that nobody has tried it has seen so; it has counted as taken what
\* a device has received, and sends nothing that it has seen sent or given up.
WorkerOK(x) ==
    /\ x.op = "walk" => batch.status # "none" /\ Committed(x.rest)
    /\ x.op \in {"read", "send"} =>
          /\ note[x.on].status # "none"
          /\ note[x.on].status = "queued" => x.seen.status = "queued"
          /\ Committed(x.rest)
          /\ x.for = "batch" => batch.status # "none"
    /\ x.op = "send" => (x.taken => got[x.on] # {}) /\ ~Pushes!GivesUp(x.seen)

DeliveryShape ==
    /\ note \in [Rows -> Seen \cup {Pushes!None}]
    /\ due \in SUBSET Keys /\ active \in SUBSET Devices
    /\ wanted \in BOOLEAN
    /\ got \in [Rows -> SUBSET Devices]
    /\ worker \in [Workers -> Working]
    /\ losses \in 0 .. MaxLosses

DeliveryInv ==
    /\ DeliveryShape
    /\ BatchOK
    /\ \A w \in Workers : WorkerOK(worker[w])
    /\ Pushes!OncePerKey /\ Pushes!SentIsReceived

LEMMA DeliveryTyped == DeliveryInv => Pushes!TypeOK
<1> SUFFICES ASSUME DeliveryInv PROVE Pushes!TypeOK OBVIOUS
<1>1. note \in [Rows -> Pushes!Note \cup {Pushes!None}] BY DEF DeliveryInv, DeliveryShape, Seen
<1>2. wanted \in BOOLEAN BY DEF DeliveryInv, DeliveryShape
<1> QED BY <1>1, <1>2 DEF DeliveryInv, DeliveryShape, BatchOK, Pushes!TypeOK

LEMMA InitDelivery == ASSUME Attempts, Pushes!Init PROVE DeliveryInv
<1>1. \A w \in Workers : worker[w] = Pushes!Idle /\ worker[w].op = "idle" BY DEF Pushes!Init, Pushes!Idle
<1>2. \A n \in Rows : note[n].status = "none" BY DEF Pushes!Init, Pushes!None
<1>3. DeliveryShape
  <2>1. losses \in 0 .. MaxLosses BY DEF Pushes!Init, Attempts
  <2>2. wanted \in BOOLEAN BY DEF Pushes!Init
  <2>3. worker \in [Workers -> Working] BY DEF Pushes!Init, Working
  <2> QED BY <2>1, <2>2, <2>3 DEF Pushes!Init, DeliveryShape
<1>4. BatchOK BY DEF Pushes!Init, BatchOK
<1>5. \A w \in Workers : WorkerOK(worker[w]) BY <1>1 DEF WorkerOK
<1>6. Pushes!OncePerKey BY <1>2 DEF Pushes!OncePerKey, Pushes!RowsWith
<1>7. Pushes!SentIsReceived BY <1>2 DEF Pushes!SentIsReceived
<1> QED BY <1>3, <1>4, <1>5, <1>6, <1>7 DEF DeliveryInv

\* The workers after a step of one of them.
LEMMA WorkerSteps ==
    ASSUME DeliveryInv, NEW w \in Workers, NEW x \in Working, worker' = [worker EXCEPT ![w] = x]
    PROVE  /\ worker' \in [Workers -> Working]
           /\ \A v \in Workers : worker'[v] = IF v = w THEN x ELSE worker[v]
BY DEF DeliveryInv, DeliveryShape

\* Rows stay committed, and what has been received stays received.
LEMMA WorkersKeep ==
    ASSUME DeliveryInv, NEW x \in Working, WorkerOK(x),
           \A n \in Rows : note[n].status # "none" =>
              note'[n].status # "none" /\ (note'[n].status = "queued" => note[n].status = "queued"),
           \A n \in Rows : got[n] # {} => got'[n] # {},
           batch.status # "none" => batch'.status # "none"
    PROVE  WorkerOK(x)'
<1>1. \A rows : Committed(rows) => Committed(rows)' BY DEF Committed
<1>2. x.op \in {"read", "send"} => x.on \in Rows BY DEF Working, Pushes!Idle
<1> QED BY <1>1, <1>2 DEF WorkerOK, Pushes!GivesUp

\* A worker goes on, and the messages rest.
LEMMA WorkerGoesOn ==
    ASSUME DeliveryInv, NEW w \in Workers, NEW x \in Working, WorkerOK(x), worker' = [worker EXCEPT ![w] = x],
           UNCHANGED <<note, got>>, due' \in SUBSET Keys, active' \in SUBSET Devices, wanted' \in BOOLEAN,
           losses' \in 0 .. MaxLosses, BatchOK', batch.status # "none" => batch'.status # "none"
    PROVE  DeliveryInv'
<1>1. /\ worker' \in [Workers -> Working]
      /\ \A v \in Workers : worker'[v] = IF v = w THEN x ELSE worker[v]
  BY WorkerSteps
<1>2. DeliveryShape' BY <1>1 DEF DeliveryInv, DeliveryShape
<1>3. \A v \in Workers : WorkerOK(worker'[v]) BY <1>1 DEF DeliveryInv
<1>4. \A y \in Working : WorkerOK(y) => WorkerOK(y)' BY WorkersKeep
<1>5. \A v \in Workers : WorkerOK(worker[v])' BY <1>1, <1>3, <1>4 DEF WorkerOK, Committed
<1>6. Pushes!OncePerKey' /\ Pushes!SentIsReceived'
  BY DEF DeliveryInv, Pushes!OncePerKey, Pushes!RowsWith, Pushes!SentIsReceived
<1> QED BY <1>2, <1>5, <1>6 DEF DeliveryInv

\* Windows, preferences and devices change.
LEMMA RecipientStep ==
    ASSUME DeliveryInv,
           \/ \E k \in Keys : Pushes!Window(k)
           \/ Pushes!UpdatePreferences
           \/ \E d \in Devices : Pushes!RegisterDevice(d) \/ Pushes!RemoveDevice(d)
    PROVE  DeliveryInv'
<1>1. /\ UNCHANGED <<note, got, batch, worker, losses>>
      /\ due' \in SUBSET Keys /\ active' \in SUBSET Devices
  BY DEF Pushes!Window, Pushes!UpdatePreferences, Pushes!RegisterDevice, Pushes!RemoveDevice,
         DeliveryInv, DeliveryShape
<1>2. wanted' \in BOOLEAN
  BY DEF Pushes!Window, Pushes!UpdatePreferences, Pushes!RegisterDevice, Pushes!RemoveDevice,
         DeliveryInv, DeliveryShape
<1>3. DeliveryShape' BY <1>1, <1>2 DEF DeliveryInv, DeliveryShape
<1>4. BatchOK' BY <1>1 DEF DeliveryInv, BatchOK, Committed
<1>5. \A w \in Workers : WorkerOK(worker[w])' BY <1>1 DEF DeliveryInv, WorkerOK, Committed, Pushes!GivesUp
<1>6. Pushes!OncePerKey' /\ Pushes!SentIsReceived'
  BY <1>1 DEF DeliveryInv, Pushes!OncePerKey, Pushes!RowsWith, Pushes!SentIsReceived
<1> QED BY <1>3, <1>4, <1>5, <1>6 DEF DeliveryInv

\* What of the state a worker leaves alone.
LEMMA Resting ==
    ASSUME DeliveryInv, UNCHANGED <<note, due, wanted, active, losses>>
    PROVE  /\ due' \in SUBSET Keys /\ active' \in SUBSET Devices /\ wanted' \in BOOLEAN
           /\ losses' \in 0 .. MaxLosses
<1>1. due' \in SUBSET Keys /\ active' \in SUBSET Devices /\ losses' \in 0 .. MaxLosses
  BY DEF DeliveryInv, DeliveryShape
<1>2. wanted' \in BOOLEAN BY DEF DeliveryInv, DeliveryShape
<1> QED BY <1>1, <1>2

\* A batch that rests, and whose rows rest, is as it was.
LEMMA BatchRests == ASSUME DeliveryInv, UNCHANGED <<note, batch>> PROVE BatchOK'
BY DEF DeliveryInv, BatchOK, Committed

\* The batch gets another status.
LEMMA BatchMoves ==
    ASSUME DeliveryInv, NEW st \in {"unsent", "waiting", "running", "done", "dropped"},
           batch.status # "none",
           \A n \in Rows : note[n].status # "none" => note'[n].status # "none",
           \/ batch' = [batch EXCEPT !.status = st]
           \/ batch' = [batch EXCEPT !.status = st, !.left = batch.left - 1]
    PROVE  BatchOK' /\ batch'.status # "none"
<1>1. DOMAIN batch = {"status", "rows", "left"} /\ Committed(batch.rows) BY DEF DeliveryInv, BatchOK
<1>2. DOMAIN batch' = {"status", "rows", "left"} /\ batch'.status = st /\ batch'.rows = batch.rows BY <1>1
<1>3. Committed(batch.rows)' BY <1>1, <1>2 DEF Committed
<1> QED BY <1>2, <1>3 DEF BatchOK

LEMMA NoneCommitted == Committed(<<>>)
BY DEF Committed

\* The first of the rows that are left, and the others.
LEMMA CommittedRest ==
    ASSUME NEW rows, Committed(rows), rows # <<>>
    PROVE  Head(rows) \in Rows /\ note[Head(rows)].status # "none" /\ Committed(Tail(rows))
<1>1. rows \in Seq(Rows) /\ Len(rows) \in Nat /\ Len(rows) > 0 BY DEF Committed
<1>2. Head(rows) = rows[1] /\ 1 \in 1 .. Len(rows) BY <1>1
<1>3. Tail(rows) \in Seq(Rows) /\ Len(Tail(rows)) = Len(rows) - 1 BY <1>1
<1>4. \A i \in 1 .. Len(Tail(rows)) : Tail(rows)[i] = rows[i + 1] /\ i + 1 \in 1 .. Len(rows) BY <1>1, <1>3
<1> QED BY <1>1, <1>2, <1>3, <1>4 DEF Committed

\* Runs and batches begin and go on to the next row.
LEMMA ReadSteps ==
    ASSUME DeliveryInv, NEW w \in Workers,
           \/ \E k \in Keys : Pushes!ScheduleRead(w, k)
           \/ Pushes!TakeBatch(w) \/ Pushes!ReadNext(w) \/ Pushes!BatchDone(w)
    PROVE  DeliveryInv'
<1>0. worker[w] \in Working /\ WorkerOK(worker[w]) BY DEF DeliveryInv, DeliveryShape
<1>1. ASSUME NEW k \in Keys, Pushes!ScheduleRead(w, k) PROVE DeliveryInv'
  <2> DEFINE x == [op |-> "schedule", key |-> k]
  <2>1. x \in Working /\ x.op = "schedule" BY DEF Working
  <2>2. worker' = [worker EXCEPT ![w] = x] /\ UNCHANGED <<note, due, wanted, active, got, batch, losses>>
    BY <1>1 DEF Pushes!ScheduleRead
  <2> HIDE DEF x
  <2>3. WorkerOK(x) BY <2>1 DEF WorkerOK
  <2> QED BY <2>1, <2>2, <2>3, Resting, BatchRests, WorkerGoesOn
<1>2. CASE Pushes!TakeBatch(w)
  <2> DEFINE x == [op |-> "walk", rest |-> batch.rows]
  <2>1. /\ batch.status = "waiting" /\ batch' = [batch EXCEPT !.status = "running"]
        /\ worker' = [worker EXCEPT ![w] = x] /\ UNCHANGED <<note, due, wanted, active, got, losses>>
    BY <1>2 DEF Pushes!TakeBatch, Pushes!Walk
  <2>2. Committed(batch.rows) BY <2>1 DEF DeliveryInv, BatchOK
  <2>3. x \in Working /\ x.op = "walk" /\ x.rest = batch.rows BY <2>2 DEF Working, Committed
  <2> HIDE DEF x
  <2>4. WorkerOK(x) BY <2>1, <2>2, <2>3 DEF WorkerOK
  <2>5. BatchOK' /\ batch'.status # "none" BY <2>1, BatchMoves
  <2> QED BY <2>1, <2>3, <2>4, <2>5, Resting, WorkerGoesOn
<1>3. CASE Pushes!ReadNext(w)
  <2> DEFINE rest == worker[w].rest
             n == Head(rest)
             x == [op |-> "read", on |-> n, seen |-> note[n], rest |-> Tail(rest), for |-> "batch"]
  <2>1. /\ worker[w].op = "walk" /\ rest # <<>>
        /\ worker' = [worker EXCEPT ![w] = x] /\ UNCHANGED <<note, due, wanted, active, got, batch, losses>>
    BY <1>3 DEF Pushes!ReadNext, Pushes!Read
  <2>2. batch.status # "none" /\ Committed(rest) BY <1>0, <2>1 DEF WorkerOK
  <2>3. n \in Rows /\ note[n].status # "none" /\ Committed(Tail(rest)) BY <2>1, <2>2, CommittedRest
  <2>4. note[n] \in Seen BY <2>3 DEF DeliveryInv, DeliveryShape, Pushes!None
  <2>5. /\ x \in Working /\ x.op = "read" /\ x.on = n /\ x.rest = Tail(rest) /\ x.for = "batch"
        /\ x.seen = note[n]
    BY <2>3, <2>4 DEF Working, Committed
  <2> HIDE DEF x, n, rest
  <2>6. WorkerOK(x) BY <2>2, <2>3, <2>5 DEF WorkerOK
  <2> QED BY <2>1, <2>5, <2>6, Resting, BatchRests, WorkerGoesOn
<1>4. CASE Pushes!BatchDone(w)
  <2> DEFINE x == Pushes!Idle
  <2>1. /\ worker[w].op = "walk" /\ batch' = [batch EXCEPT !.status = "done"]
        /\ worker' = [worker EXCEPT ![w] = x] /\ UNCHANGED <<note, due, wanted, active, got, losses>>
    BY <1>4 DEF Pushes!BatchDone, Pushes!Walk
  <2>2. batch.status # "none" BY <1>0, <2>1 DEF WorkerOK
  <2>3. x \in Working /\ x.op = "idle" BY DEF Working, Pushes!Idle
  <2> HIDE DEF x
  <2>4. WorkerOK(x) BY <2>3 DEF WorkerOK
  <2>5. BatchOK' /\ batch'.status # "none" BY <2>1, <2>2, BatchMoves
  <2> QED BY <2>1, <2>3, <2>4, <2>5, Resting, WorkerGoesOn
<1> QED BY <1>1, <1>2, <1>3, <1>4

\* Where a worker goes after a row.
LEMMA AfterwardsOK ==
    ASSUME DeliveryInv, NEW w \in Workers, worker[w].op \in {"read", "send"}
    PROVE  Pushes!Afterwards(w) \in Working /\ WorkerOK(Pushes!Afterwards(w))
<1> DEFINE x == Pushes!Afterwards(w)
<1>1. worker[w] \in Working /\ WorkerOK(worker[w]) BY DEF DeliveryInv, DeliveryShape
<1>2. /\ worker[w].rest \in Seq(Rows) /\ Committed(worker[w].rest)
      /\ worker[w].for = "batch" => batch.status # "none"
  BY <1>1 DEF WorkerOK, Committed
<1>3. CASE worker[w].for = "batch"
  <2>1. x = [op |-> "walk", rest |-> worker[w].rest] BY <1>3 DEF Pushes!Afterwards, Pushes!Walk
  <2>2. x \in Working /\ x.op = "walk" /\ x.rest = worker[w].rest BY <1>2, <2>1 DEF Working
  <2> QED BY <1>2, <1>3, <2>2 DEF WorkerOK
<1>4. CASE worker[w].for # "batch"
  <2>1. x = Pushes!Idle BY <1>4 DEF Pushes!Afterwards
  <2>2. x \in Working /\ x.op = "idle" BY <2>1 DEF Working, Pushes!Idle
  <2> QED BY <2>2 DEF WorkerOK
<1> QED BY <1>3, <1>4

\* A worker skips a row, or counts an attempt for it.
LEMMA SkipOrAttempt ==
    ASSUME DeliveryInv, NEW w \in Workers, Pushes!Skip(w) \/ Pushes!Attempt(w)
    PROVE  DeliveryInv'
<1>1. CASE Pushes!Skip(w)
  <2> DEFINE x == Pushes!Afterwards(w)
  <2>1. /\ worker[w].op = "read" /\ worker' = [worker EXCEPT ![w] = x]
        /\ UNCHANGED <<note, due, wanted, active, got, batch, losses>>
    BY <1>1 DEF Pushes!Skip
  <2>2. x \in Working /\ WorkerOK(x) BY <2>1, AfterwardsOK
  <2> HIDE DEF x
  <2> QED BY <2>1, <2>2, Resting, BatchRests, WorkerGoesOn
<1>2. CASE Pushes!Attempt(w)
  <2> DEFINE y == worker[w]
             x == [op |-> "send", on |-> y.on, seen |-> y.seen, rest |-> y.rest, for |-> y.for,
                   to |-> active, taken |-> FALSE, dead |-> {}]
  <2>1. /\ y.op = "read" /\ y \in Working /\ WorkerOK(y) /\ ~Pushes!GivesUp(y.seen)
        /\ worker' = [worker EXCEPT ![w] = x] /\ active \in SUBSET Devices
        /\ UNCHANGED <<note, due, wanted, active, got, batch, losses>>
    BY <1>2 DEF Pushes!Attempt, DeliveryInv, DeliveryShape
  <2>2. y \in [op : {"read"}, on : Rows, seen : Seen, rest : Seq(Rows), for : {"batch", "schedule"}]
    BY <2>1 DEF Working, Pushes!Idle
  <2> HIDE DEF y
  <2>3. /\ x \in Working /\ x.op = "send" /\ x.on = y.on /\ x.rest = y.rest /\ x.for = y.for /\ x.seen = y.seen
        /\ ~x.taken
    BY <2>1, <2>2 DEF Working
  <2> HIDE DEF x
  <2>4. WorkerOK(x) BY <2>1, <2>3 DEF WorkerOK
  <2> QED BY <2>1, <2>3, <2>4, Resting, BatchRests, WorkerGoesOn
<1> QED BY <1>1, <1>2

\* A message changes: rows that were committed stay, and those of a key stay alone.
LEMMA MessageStep ==
    ASSUME DeliveryInv, NEW w \in Workers, NEW x \in Working, worker' = [worker EXCEPT ![w] = x], WorkerOK(x)',
           note' \in [Rows -> Seen \cup {Pushes!None}], got' \in [Rows -> SUBSET Devices],
           due' = due, wanted' = wanted, active' \in SUBSET Devices, losses' = losses,
           \A n \in Rows : note[n].status # "none" =>
              note'[n].status # "none" /\ (note'[n].status = "queued" => note[n].status = "queued"),
           \A n \in Rows : got[n] # {} => got'[n] # {},
           batch.status # "none" => batch'.status # "none", BatchOK',
           Pushes!OncePerKey', Pushes!SentIsReceived'
    PROVE  DeliveryInv'
<1>1. /\ worker' \in [Workers -> Working]
      /\ \A v \in Workers : worker'[v] = IF v = w THEN x ELSE worker[v]
  BY WorkerSteps
<1>2. wanted' \in BOOLEAN BY DEF DeliveryInv, DeliveryShape
<1>3. DeliveryShape' BY <1>1, <1>2 DEF DeliveryInv, DeliveryShape
<1>4. ASSUME NEW v \in Workers PROVE WorkerOK(worker[v])'
  <2>1. PICK y : y = worker'[v] OBVIOUS
  <2>2. CASE v = w
    <3>1. y = x BY <2>1, <2>2, <1>1
    <3>2. WorkerOK(y)' BY <3>1
    <3> QED BY <2>1, <3>2 DEF WorkerOK, Committed
  <2>3. CASE v # w
    <3>1. y = worker[v] BY <2>1, <2>3, <1>1
    <3>2. y \in Working /\ WorkerOK(y) BY <3>1 DEF DeliveryInv, DeliveryShape
    <3>3. WorkerOK(y)' BY <3>2, WorkersKeep
    <3> QED BY <2>1, <3>3 DEF WorkerOK, Committed
  <2> QED BY <2>2, <2>3
<1> QED BY <1>3, <1>4 DEF DeliveryInv

\* A device takes the message, or rejects its token.
LEMMA PushStep ==
    ASSUME DeliveryInv, NEW w \in Workers, NEW d \in Devices, Pushes!PushTaken(w, d) \/ Pushes!PushRejected(w, d)
    PROVE  DeliveryInv'
<1>1. PICK y : y = worker[w] OBVIOUS
<1>2. y.op = "send" /\ y \in Working /\ WorkerOK(y)
  BY <1>1 DEF Pushes!PushTaken, Pushes!PushRejected, DeliveryInv, DeliveryShape
<1>3. y \in [op : {"send"}, on : Rows, seen : Seen, rest : Seq(Rows), for : {"batch", "schedule"},
             to : SUBSET Devices, taken : BOOLEAN, dead : SUBSET Devices]
  BY <1>2 DEF Working, Pushes!Idle
<1>4. BatchOK' /\ batch' = batch BY BatchRests DEF Pushes!PushTaken, Pushes!PushRejected
<1>5. /\ UNCHANGED <<note, due, wanted, active, losses>>
      /\ note \in [Rows -> Seen \cup {Pushes!None}] /\ active \in SUBSET Devices
      /\ got \in [Rows -> SUBSET Devices] /\ y.on \in Rows
  BY <1>3 DEF Pushes!PushTaken, Pushes!PushRejected, DeliveryInv, DeliveryShape
<1>6. Pushes!OncePerKey' BY <1>5 DEF DeliveryInv, Pushes!OncePerKey, Pushes!RowsWith
<1>7. CASE Pushes!PushTaken(w, d)
  <2>1. PICK x : x = [y EXCEPT !.to = @ \ {d}, !.taken = TRUE] OBVIOUS
  <2>2. worker' = [worker EXCEPT ![w] = x] /\ got' = [got EXCEPT ![y.on] = @ \cup {d}]
    BY <1>1, <1>7, <2>1 DEF Pushes!PushTaken, DeliveryInv, DeliveryShape
  <2>3. /\ x \in Working /\ x.op = "send" /\ x.on = y.on /\ x.seen = y.seen /\ x.rest = y.rest /\ x.for = y.for
    BY <1>3, <2>1 DEF Working
  <2>4. /\ got' \in [Rows -> SUBSET Devices] /\ got'[y.on] # {}
        /\ \A n \in Rows : got[n] # {} => got'[n] # {}
    BY <1>5, <2>2
  <2>5. WorkerOK(x)' BY <1>2, <1>4, <1>5, <2>3, <2>4 DEF WorkerOK, Committed, Pushes!GivesUp
  <2>6. Pushes!SentIsReceived' BY <1>5, <2>4 DEF DeliveryInv, Pushes!SentIsReceived
  <2> QED BY <1>4, <1>5, <1>6, <2>2, <2>3, <2>4, <2>5, <2>6, MessageStep
<1>8. CASE Pushes!PushRejected(w, d)
  <2>1. PICK x : x = [y EXCEPT !.to = @ \ {d}, !.dead = @ \cup {d}] OBVIOUS
  <2>2. worker' = [worker EXCEPT ![w] = x] /\ got' = got
    BY <1>1, <1>8, <2>1 DEF Pushes!PushRejected, DeliveryInv, DeliveryShape
  <2>3. /\ x \in Working /\ x.op = "send" /\ x.on = y.on /\ x.seen = y.seen /\ x.rest = y.rest /\ x.for = y.for
    BY <1>3, <2>1 DEF Working
  <2>4. x.taken = y.taken BY <1>3, <2>1
  <2>5. WorkerOK(x)' BY <1>2, <1>4, <1>5, <2>2, <2>3, <2>4 DEF WorkerOK, Committed, Pushes!GivesUp
  <2>6. Pushes!SentIsReceived' BY <1>5, <2>2 DEF DeliveryInv, Pushes!SentIsReceived
  <2> QED BY <1>4, <1>5, <1>6, <2>2, <2>3, <2>5, <2>6, MessageStep
<1> QED BY <1>7, <1>8

\* The outcome of an attempt: of the same key, tried, and sent only if it was
\* sent now or before.
LEMMA OutcomeOK ==
    ASSUME Attempts, NEW seen \in Seen, ~Pushes!GivesUp(seen), NEW msg \in Seen, NEW st \in {"sent", "failed"},
           msg.status = "queued" => seen.status = "queued"
    PROVE  LET o == Pushes!Outcome(seen, msg, st)
           IN  /\ o \in Seen /\ o.key = msg.key /\ o.status # "none" /\ o.status # "queued"
               /\ o.status = "sent" => st = "sent" \/ msg.status = "sent"
<1> DEFINE outcome == IF seen.status = st THEN msg.status ELSE st
           o == [status |-> outcome, attempts |-> seen.attempts + 1, key |-> msg.key]
<1>1. msg \in Pushes!Note /\ seen \in Pushes!Note BY DEF Seen
<1>2. Pushes!Outcome(seen, msg, st) = o
  <2> DEFINE D == {"status", "attempts", "key"}
             e == Pushes!Outcome(seen, msg, st)
  <2>1. msg = [f \in D |-> msg[f]] /\ DOMAIN msg = D BY <1>1 DEF Pushes!Note
  <2>2. e = [f \in D |-> e[f]] BY <2>1 DEF Pushes!Outcome
  <2>3. e.status = outcome BY <2>1 DEF Pushes!Outcome
  <2>4. e.attempts = seen.attempts + 1 BY <2>1 DEF Pushes!Outcome
  <2>5. e.key = msg.key BY <2>1 DEF Pushes!Outcome
  <2> SUFFICES e = o OBVIOUS
  <2> HIDE DEF e, outcome
  <2> SUFFICES ASSUME NEW x, x = e PROVE x = o BY Zenon
  <2>6. x = [f \in D |-> x[f]] BY <2>2, Zenon
  <2>7. x.status = outcome /\ x.attempts = seen.attempts + 1 /\ x.key = msg.key BY <2>3, <2>4, <2>5, Zenon
  <2> QED BY <2>6, <2>7
<1>3. seen.attempts \in 0 .. MaxAttempts /\ MaxAttempts \in Nat \ {0} BY <1>1 DEF Pushes!Note, Attempts
<1>4. seen.status \in {"queued", "sent", "failed"} BY <1>1 DEF Pushes!Note
<1>5. seen.attempts < MaxAttempts
  <2>1. CASE seen.status = "queued" BY <2>1, <1>3 DEF Seen
  <2>2. CASE seen.status = "failed" BY <2>2, <1>3 DEF Pushes!GivesUp
  <2> QED BY <1>4, <2>1, <2>2 DEF Pushes!GivesUp
<1>6. seen.attempts + 1 \in 0 .. MaxAttempts BY <1>3, <1>5
<1>7. outcome \in {"sent", "failed"} BY <1>1, <1>4 DEF Pushes!Note
<1>8. outcome = "sent" => st = "sent" \/ msg.status = "sent" OBVIOUS
<1> HIDE DEF outcome
<1>9. o \in Pushes!Note BY <1>1, <1>6, <1>7 DEF Pushes!Note
<1> QED BY <1>2, <1>7, <1>8, <1>9 DEF Seen

\* A message that is written keeps its key, so no key gets a second message.
LEMMA OutcomeWritten ==
    ASSUME DeliveryInv, NEW n \in Rows, note[n].status # "none", NEW o \in Seen, note' = [note EXCEPT ![n] = o],
           o.key = note[n].key, o.status # "none", o.status # "queued", got' = got,
           o.status = "sent" => got[n] # {}
    PROVE  /\ note' \in [Rows -> Seen \cup {Pushes!None}]
           /\ \A m \in Rows : note[m].status # "none" =>
                 note'[m].status # "none" /\ (note'[m].status = "queued" => note[m].status = "queued")
           /\ Pushes!OncePerKey' /\ Pushes!SentIsReceived'
<1>1. /\ note' \in [Rows -> Seen \cup {Pushes!None}]
      /\ \A m \in Rows : note'[m] = IF m = n THEN o ELSE note[m]
  BY DEF DeliveryInv, DeliveryShape
<1>2. \A k \in Keys : Pushes!RowsWith(k)' = Pushes!RowsWith(k) BY <1>1 DEF Pushes!RowsWith
<1>3. Pushes!OncePerKey' BY <1>2 DEF DeliveryInv, Pushes!OncePerKey
<1>4. Pushes!SentIsReceived' BY <1>1 DEF DeliveryInv, Pushes!SentIsReceived
<1> QED BY <1>1, <1>3, <1>4

\* An attempt ends, with every device asked or with an exception.
LEMMA AttemptEnds ==
    ASSUME Attempts, DeliveryInv, NEW w \in Workers,
           \/ \E d \in Devices : Pushes!PushFailed(w, d)
           \/ Pushes!Sent(w) \/ Pushes!Unsent(w)
    PROVE  DeliveryInv'
<1>1. PICK y : y = worker[w] OBVIOUS
<1>2. y.op = "send" /\ y \in Working /\ WorkerOK(y)
  BY <1>1 DEF Pushes!PushFailed, Pushes!Sent, Pushes!Unsent, DeliveryInv, DeliveryShape
<1>3. y \in [op : {"send"}, on : Rows, seen : Seen, rest : Seq(Rows), for : {"batch", "schedule"},
             to : SUBSET Devices, taken : BOOLEAN, dead : SUBSET Devices]
  BY <1>2 DEF Working, Pushes!Idle
<1>4. /\ y.on \in Rows /\ note[y.on].status # "none" /\ note[y.on] \in Seen /\ y.seen \in Seen
      /\ ~Pushes!GivesUp(y.seen) /\ (note[y.on].status = "queued" => y.seen.status = "queued")
      /\ y.for = "batch" => batch.status # "none"
  BY <1>2, <1>3 DEF WorkerOK, DeliveryInv, DeliveryShape, Pushes!None
<1>5. active \in SUBSET Devices BY DEF DeliveryInv, DeliveryShape
<1>6. ASSUME NEW st \in {"sent", "failed"}, st = "sent" => y.taken,
             note' = [note EXCEPT ![y.on] = Pushes!Outcome(y.seen, note[y.on], st)], got' = got
      PROVE  /\ note' \in [Rows -> Seen \cup {Pushes!None}]
             /\ \A m \in Rows : note[m].status # "none" =>
                   note'[m].status # "none" /\ (note'[m].status = "queued" => note[m].status = "queued")
             /\ Pushes!OncePerKey' /\ Pushes!SentIsReceived'
  <2> DEFINE o == Pushes!Outcome(y.seen, note[y.on], st)
  <2>1. /\ o \in Seen /\ o.key = note[y.on].key /\ o.status # "none" /\ o.status # "queued"
        /\ o.status = "sent" => st = "sent" \/ note[y.on].status = "sent"
    BY <1>4, OutcomeOK
  <2>2. o.status = "sent" => got[y.on] # {}
    BY <1>2, <1>4, <1>6, <2>1 DEF WorkerOK, DeliveryInv, Pushes!SentIsReceived
  <2>3. note' = [note EXCEPT ![y.on] = o] BY <1>6
  <2> HIDE DEF o
  <2> QED BY <1>4, <1>6, <2>1, <2>2, <2>3, OutcomeWritten
<1>7. ASSUME NEW dead \in SUBSET Devices, Pushes!Fail(w, dead), UNCHANGED <<due, wanted, got, losses>>
      PROVE  DeliveryInv'
  <2>1. /\ note' = [note EXCEPT ![y.on] = Pushes!Outcome(y.seen, note[y.on], "failed")]
        /\ active' = active \ dead /\ worker' = [worker EXCEPT ![w] = Pushes!Idle]
        /\ batch' = IF y.for # "batch" THEN batch
                    ELSE IF batch.left > 0 THEN [batch EXCEPT !.status = "waiting", !.left = batch.left - 1]
                    ELSE [batch EXCEPT !.status = "dropped"]
    BY <1>1, <1>7 DEF Pushes!Fail
  <2>2. /\ note' \in [Rows -> Seen \cup {Pushes!None}]
        /\ \A m \in Rows : note[m].status # "none" =>
              note'[m].status # "none" /\ (note'[m].status = "queued" => note[m].status = "queued")
        /\ Pushes!OncePerKey' /\ Pushes!SentIsReceived'
    BY <1>6, <1>7, <2>1
  <2>3. BatchOK' /\ (batch.status # "none" => batch'.status # "none")
    <3>1. CASE y.for # "batch"
      <4>1. batch' = batch BY <2>1, <3>1
      <4> QED BY <2>2, <4>1 DEF DeliveryInv, BatchOK, Committed
    <3>2. CASE y.for = "batch"
      <4>1. \/ batch' = [batch EXCEPT !.status = "waiting", !.left = batch.left - 1]
            \/ batch' = [batch EXCEPT !.status = "dropped"]
        BY <2>1, <3>2
      <4> QED BY <1>4, <2>2, <3>2, <4>1, BatchMoves
    <3> QED BY <3>1, <3>2
  <2>4. PICK x : x = Pushes!Idle OBVIOUS
  <2>5. x \in Working /\ x.op = "idle" BY <2>4 DEF Working, Pushes!Idle
  <2>6. WorkerOK(x)' BY <2>5 DEF WorkerOK
  <2>7. got' \in [Rows -> SUBSET Devices] /\ active' \in SUBSET Devices
    BY <1>7, <2>1 DEF DeliveryInv, DeliveryShape
  <2> QED BY <1>7, <2>1, <2>2, <2>3, <2>4, <2>5, <2>6, <2>7, MessageStep
<1>8. ASSUME NEW d \in Devices, Pushes!PushFailed(w, d) PROVE DeliveryInv'
  <2>1. PICK more \in {{}, {d}} : Pushes!Fail(w, worker[w].dead \cup more) BY <1>8 DEF Pushes!PushFailed
  <2>2. y.dead \cup more \in SUBSET Devices BY <1>3
  <2>3. UNCHANGED <<due, wanted, got, losses>> BY <1>8 DEF Pushes!PushFailed
  <2> QED BY <1>1, <1>7, <2>1, <2>2, <2>3
<1>9. CASE Pushes!Unsent(w)
  <2>1. y.dead \in SUBSET Devices BY <1>3
  <2> QED BY <1>1, <1>7, <1>9, <2>1 DEF Pushes!Unsent
<1>10. CASE Pushes!Sent(w)
  <2>1. PICK x : x = Pushes!Afterwards(w) OBVIOUS
  <2>2. /\ note' = [note EXCEPT ![y.on] = Pushes!Outcome(y.seen, note[y.on], "sent")]
        /\ y.taken /\ active' = active \ y.dead /\ worker' = [worker EXCEPT ![w] = x]
        /\ UNCHANGED <<due, wanted, got, batch, losses>>
    BY <1>1, <1>10, <2>1 DEF Pushes!Sent, Pushes!Delivered
  <2>3. /\ note' \in [Rows -> Seen \cup {Pushes!None}]
        /\ \A m \in Rows : note[m].status # "none" =>
              note'[m].status # "none" /\ (note'[m].status = "queued" => note[m].status = "queued")
        /\ Pushes!OncePerKey' /\ Pushes!SentIsReceived'
    BY <1>6, <2>2
  <2>4. x \in Working /\ WorkerOK(x) BY <1>1, <1>2, <2>1, AfterwardsOK
  <2>5. WorkerOK(x)' BY <2>2, <2>3, <2>4, WorkersKeep
  <2>6. BatchOK' BY <2>2, <2>3 DEF DeliveryInv, BatchOK, Committed
  <2>7. got' \in [Rows -> SUBSET Devices] /\ active' \in SUBSET Devices
    BY <2>2 DEF DeliveryInv, DeliveryShape
  <2> QED BY <2>2, <2>3, <2>4, <2>5, <2>6, <2>7, MessageStep
<1> QED BY <1>8, <1>9, <1>10

\* A worker is lost: its batch waits again.
LEMMA LoseStep ==
    ASSUME Attempts, DeliveryInv, NEW w \in Workers, Pushes!LoseWorker(w)
    PROVE  DeliveryInv'
<1>1. /\ worker' = [worker EXCEPT ![w] = Pushes!Idle] /\ losses < MaxLosses /\ losses' = losses + 1
      /\ UNCHANGED <<note, due, wanted, active, got>>
      /\ worker[w] \in Working /\ WorkerOK(worker[w]) /\ worker[w] # Pushes!Idle
  BY DEF Pushes!LoseWorker, DeliveryInv, DeliveryShape
<1>2. BatchOK' /\ (batch.status # "none" => batch'.status # "none")
  <2>1. CASE worker[w].op = "walk" \/ (worker[w].op # "schedule" /\ worker[w].for = "batch")
    <3>1. batch' = [batch EXCEPT !.status = "waiting"] BY <2>1 DEF Pushes!LoseWorker
    <3>2. worker[w].op \in {"schedule", "walk", "read", "send"} BY <1>1 DEF Working, Pushes!Idle
    <3>3. batch.status # "none" BY <1>1, <2>1, <3>2 DEF WorkerOK
    <3> QED BY <1>1, <3>1, <3>3, BatchMoves
  <2>2. CASE ~(worker[w].op = "walk" \/ (worker[w].op # "schedule" /\ worker[w].for = "batch"))
    <3>1. batch' = batch BY <2>2 DEF Pushes!LoseWorker
    <3> QED BY <1>1, <3>1, BatchRests
  <2> QED BY <2>1, <2>2
<1>3. PICK x : x = Pushes!Idle OBVIOUS
<1>4. x \in Working /\ x.op = "idle" BY <1>3 DEF Working, Pushes!Idle
<1>5. WorkerOK(x) BY <1>4 DEF WorkerOK
<1>6. losses' \in 0 .. MaxLosses
  <2>1. losses \in 0 .. MaxLosses /\ MaxLosses \in Nat BY DEF DeliveryInv, DeliveryShape, Attempts
  <2> QED BY <1>1, <2>1
<1>7. due' \in SUBSET Keys /\ active' \in SUBSET Devices BY <1>1 DEF DeliveryInv, DeliveryShape
<1>8. wanted' \in BOOLEAN BY <1>1 DEF DeliveryInv, DeliveryShape
<1> QED BY <1>1, <1>2, <1>3, <1>4, <1>5, <1>6, <1>7, <1>8, WorkerGoesOn

\* A scheduled run creates its row, unless another run has done so.
LEMMA CreateStep ==
    ASSUME Attempts, DeliveryInv, NEW w \in Workers, NEW n \in Rows, Pushes!ScheduleCreate(w, n)
    PROVE  DeliveryInv'
<1>1. PICK k : k = worker[w].key OBVIOUS
<1>2. k \in Keys
  <2>1. worker[w].op = "schedule" /\ worker[w] \in Working
    BY DEF Pushes!ScheduleCreate, DeliveryInv, DeliveryShape
  <2> QED BY <1>1, <2>1 DEF Working, Pushes!Idle
<1>3. UNCHANGED <<due, wanted, active, got, batch, losses>> /\ active' \in SUBSET Devices
  BY DEF Pushes!ScheduleCreate, DeliveryInv, DeliveryShape
<1>4. CASE Pushes!Existing(k) = {}
  <2>1. PICK o : o = Pushes!Queued(k) OBVIOUS
  <2>2. /\ o \in Seen /\ o.status = "queued" /\ o.key = k
    <3>1. 0 \in 0 .. MaxAttempts BY DEF Attempts
    <3> QED BY <1>2, <2>1, <3>1 DEF Pushes!Queued, Seen, Pushes!Note
  <2>3. PICK x : x = Pushes!Read(n, o, <<>>, "schedule") OBVIOUS
  <2>4. /\ note[n] = Pushes!None /\ note' = [note EXCEPT ![n] = o]
        /\ worker' = [worker EXCEPT ![w] = x]
    BY <1>1, <1>4, <2>1, <2>3 DEF Pushes!ScheduleCreate
  <2>5. /\ note' \in [Rows -> Seen \cup {Pushes!None}]
        /\ \A m \in Rows : note'[m] = IF m = n THEN o ELSE note[m]
    BY <2>2, <2>4 DEF DeliveryInv, DeliveryShape
  <2>6. note[n].status = "none" BY <2>4 DEF Pushes!None
  <2>7. Pushes!OncePerKey'
    <3>1. Pushes!RowsWith(k) = {} BY <1>4 DEF Pushes!Existing
    <3>2. \A j \in Keys : j # k => Pushes!RowsWith(j)' \subseteq Pushes!RowsWith(j)
      BY <2>2, <2>5 DEF Pushes!RowsWith
    <3>3. Pushes!RowsWith(k)' \subseteq {n} BY <2>5, <3>1 DEF Pushes!RowsWith
    <3> QED BY <3>2, <3>3 DEF DeliveryInv, Pushes!OncePerKey
  <2>8. Pushes!SentIsReceived' BY <1>3, <2>2, <2>5 DEF DeliveryInv, Pushes!SentIsReceived
  <2>9. /\ x \in Working /\ x.op = "read" /\ x.on = n /\ x.seen = o /\ x.rest = <<>> /\ x.for = "schedule"
    BY <2>2, <2>3 DEF Working, Pushes!Read
  <2>10. note'[n].status # "none" /\ Committed(x.rest)'
    BY <2>2, <2>5, <2>9 DEF Committed
  <2>11. WorkerOK(x)' BY <2>2, <2>9, <2>10 DEF WorkerOK
  <2>12. \A m \in Rows : note[m].status # "none" =>
            note'[m].status # "none" /\ (note'[m].status = "queued" => note[m].status = "queued")
    BY <2>5, <2>6
  <2>13. BatchOK' BY <1>3, <2>12 DEF DeliveryInv, BatchOK, Committed
  <2>14. got' \in [Rows -> SUBSET Devices] BY <1>3 DEF DeliveryInv, DeliveryShape
  <2> QED BY <1>3, <2>4, <2>5, <2>7, <2>8, <2>9, <2>11, <2>12, <2>13, <2>14, MessageStep
<1>5. CASE Pushes!Existing(k) # {}
  <2>1. PICK x : x = Pushes!Read(n, note[n], <<>>, "schedule") OBVIOUS
  <2>2. /\ n \in Pushes!Existing(k) /\ note' = note /\ worker' = [worker EXCEPT ![w] = x]
    BY <1>1, <1>5, <2>1 DEF Pushes!ScheduleCreate
  <2>3. note[n].status # "none" /\ note[n] \in Seen
    BY <2>2 DEF Pushes!Existing, Pushes!RowsWith, DeliveryInv, DeliveryShape, Pushes!None
  <2>4. /\ x \in Working /\ x.op = "read" /\ x.on = n /\ x.seen = note[n] /\ x.rest = <<>> /\ x.for = "schedule"
    BY <2>1, <2>3 DEF Working, Pushes!Read
  <2>5. WorkerOK(x) BY <2>3, <2>4, NoneCommitted DEF WorkerOK
  <2> QED BY <1>3, <2>2, <2>4, <2>5, Resting, BatchRests, WorkerGoesOn
<1> QED BY <1>4, <1>5

\* A manager's messages are committed together, none of them under a key.
LEMMA SendStep ==
    ASSUME Attempts, DeliveryInv, NEW n \in Rows, NEW m \in Rows, Pushes!SendCommit(<<n, m>>)
    PROVE  DeliveryInv'
<1> DEFINE rows == <<n, m>>
<1>1. /\ DOMAIN rows = {1, 2} /\ rows \in Seq(Rows) /\ Len(rows) = 2 /\ rows[1] = n /\ rows[2] = m
  OBVIOUS
<1>2. PICK o : o = Pushes!Queued(NoKey) OBVIOUS
<1>3. o \in Seen /\ o.status = "queued" /\ o.key = NoKey
  <2>1. 0 \in 0 .. MaxAttempts BY DEF Attempts
  <2> QED BY <1>2, <2>1 DEF Pushes!Queued, Seen, Pushes!Note
<1>4. /\ batch.status = "none" /\ note[n] = Pushes!None /\ note[m] = Pushes!None
      /\ note' = [i \in Rows |-> IF i = n \/ i = m THEN o ELSE note[i]]
      /\ batch' = [status |-> "unsent", rows |-> rows, left |-> MaxRetries]
      /\ UNCHANGED <<due, wanted, active, got, worker, losses>>
  BY <1>1, <1>2 DEF Pushes!SendCommit
<1> HIDE DEF rows
<1>5. /\ note' \in [Rows -> Seen \cup {Pushes!None}]
      /\ \A i \in Rows : note'[i] = IF i = n \/ i = m THEN o ELSE note[i]
  BY <1>3, <1>4 DEF DeliveryInv, DeliveryShape
<1>6. note[n].status = "none" /\ note[m].status = "none" BY <1>4 DEF Pushes!None
<1>7. \A i \in Rows : note[i].status # "none" => note'[i] = note[i] BY <1>5, <1>6
<1>8. Pushes!OncePerKey'
  <2>1. \A k \in Keys : Pushes!RowsWith(k)' \subseteq Pushes!RowsWith(k)
    BY <1>3, <1>5 DEF Pushes!RowsWith, Attempts
  <2> QED BY <2>1 DEF DeliveryInv, Pushes!OncePerKey
<1>9. Pushes!SentIsReceived' BY <1>3, <1>4, <1>5 DEF DeliveryInv, Pushes!SentIsReceived
<1>10. BatchOK'
  <2>1. /\ batch'.status = "unsent" /\ batch'.rows = rows /\ DOMAIN batch' = {"status", "rows", "left"}
    BY <1>4
  <2>2. \A i \in 1 .. Len(rows) : rows[i] = n \/ rows[i] = m BY <1>1
  <2>3. \A i \in 1 .. Len(rows) : note'[rows[i]].status = "queued" BY <1>3, <1>5, <2>2
  <2>4. rows \in Seq(Rows) /\ \A i \in 1 .. Len(rows) : note'[rows[i]].status # "none" BY <1>1, <2>3
  <2>5. Committed(batch.rows)' BY <2>1, <2>4 DEF Committed
  <2> QED BY <2>1, <2>5 DEF BatchOK
<1>11. ASSUME NEW w \in Workers PROVE WorkerOK(worker[w])'
  <2>1. PICK x : x = worker[w] OBVIOUS
  <2>2. x \in Working /\ WorkerOK(x) BY <2>1 DEF DeliveryInv, DeliveryShape
  <2>3. WorkerOK(x)' BY <1>4, <1>7, <2>2, WorkersKeep
  <2>4. x = worker'[w] BY <1>4, <2>1
  <2> QED BY <2>3, <2>4 DEF WorkerOK, Committed
<1>12. wanted' \in BOOLEAN BY <1>4 DEF DeliveryInv, DeliveryShape
<1>13. DeliveryShape' BY <1>4, <1>5, <1>12 DEF DeliveryInv, DeliveryShape
<1> QED BY <1>8, <1>9, <1>10, <1>11, <1>13 DEF DeliveryInv

\* The batch task reaches the queue.
LEMMA EnqueueStep == ASSUME DeliveryInv, Pushes!SendEnqueue PROVE DeliveryInv'
<1>1. /\ batch.status = "unsent" /\ batch' = [batch EXCEPT !.status = "waiting"]
      /\ UNCHANGED <<note, due, wanted, active, got, worker, losses>>
  BY DEF Pushes!SendEnqueue
<1>2. BatchOK' /\ batch'.status # "none" BY <1>1, BatchMoves
<1>3. DeliveryShape'
  <2>1. wanted' \in BOOLEAN BY <1>1 DEF DeliveryInv, DeliveryShape
  <2> QED BY <1>1, <2>1 DEF DeliveryInv, DeliveryShape
<1>4. ASSUME NEW w \in Workers PROVE WorkerOK(worker[w])'
  <2>1. PICK x : x = worker[w] OBVIOUS
  <2>2. x \in Working /\ WorkerOK(x) BY <2>1 DEF DeliveryInv, DeliveryShape
  <2>3. WorkerOK(x)' BY <1>1, <1>2, <2>2, WorkersKeep
  <2>4. x = worker'[w] BY <1>1, <2>1
  <2> QED BY <2>3, <2>4 DEF WorkerOK, Committed
<1>5. Pushes!OncePerKey' /\ Pushes!SentIsReceived'
  BY <1>1 DEF DeliveryInv, Pushes!OncePerKey, Pushes!RowsWith, Pushes!SentIsReceived
<1> QED BY <1>2, <1>3, <1>4, <1>5 DEF DeliveryInv

LEMMA DeliveryNext == ASSUME Attempts, DeliveryInv, [Pushes!Next]_Pushes!vars PROVE DeliveryInv'
<1>1. CASE UNCHANGED Pushes!vars
  <2>1. UNCHANGED <<note, due, wanted, active, got, batch, worker, losses>> BY <1>1 DEF Pushes!vars
  <2>2. wanted' \in BOOLEAN BY <2>1 DEF DeliveryInv, DeliveryShape
  <2>3. DeliveryShape' BY <2>1, <2>2 DEF DeliveryInv, DeliveryShape
  <2>4. BatchOK' BY <2>1, BatchRests
  <2>5. \A w \in Workers : WorkerOK(worker[w])' BY <2>1 DEF DeliveryInv, WorkerOK, Committed, Pushes!GivesUp
  <2>6. Pushes!OncePerKey' /\ Pushes!SentIsReceived'
    BY <2>1 DEF DeliveryInv, Pushes!OncePerKey, Pushes!RowsWith, Pushes!SentIsReceived
  <2> QED BY <2>3, <2>4, <2>5, <2>6 DEF DeliveryInv
<1>2. CASE \/ \E k \in Keys : Pushes!Window(k)
           \/ Pushes!UpdatePreferences
           \/ \E d \in Devices : Pushes!RegisterDevice(d) \/ Pushes!RemoveDevice(d)
  BY <1>2, RecipientStep
<1>3. CASE Pushes!Tick BY <1>3, ReadSteps DEF Pushes!Tick
<1>4. ASSUME NEW n \in Rows, NEW m \in Rows, Pushes!SendCommit(<<n, m>>) PROVE DeliveryInv'
  BY <1>4, SendStep
<1>5. CASE Pushes!SendEnqueue BY <1>5, EnqueueStep
<1>6. ASSUME NEW w \in Workers, Pushes!Proceed(w) PROVE DeliveryInv'
  <2>1. CASE \E n \in Rows : Pushes!ScheduleCreate(w, n) BY <2>1, CreateStep
  <2>2. CASE Pushes!TakeBatch(w) \/ Pushes!ReadNext(w) \/ Pushes!BatchDone(w) BY <2>2, ReadSteps
  <2>3. CASE Pushes!Skip(w) \/ Pushes!Attempt(w) BY <2>3, SkipOrAttempt
  <2>4. CASE \E d \in Devices : Pushes!PushTaken(w, d) \/ Pushes!PushRejected(w, d) BY <2>4, PushStep
  <2>5. CASE (\E d \in Devices : Pushes!PushFailed(w, d)) \/ Pushes!Sent(w) \/ Pushes!Unsent(w)
    BY <2>5, AttemptEnds
  <2> QED BY <1>6, <2>1, <2>2, <2>3, <2>4, <2>5 DEF Pushes!Proceed
<1>7. ASSUME NEW w \in Workers, Pushes!LoseWorker(w) PROVE DeliveryInv'
  BY <1>7, LoseStep
<1> QED BY <1>1, <1>2, <1>3, <1>4, <1>5, <1>6, <1>7 DEF Pushes!Next

\* Runs of the scheduler that overlap, deliveries of one message that follow
\* each other and workers that are lost between them: there is one message per
\* dedupe key, and none is called sent that no device has been sent.
THEOREM DeliveriesHold ==
    Attempts => (Pushes!Spec => [](Pushes!TypeOK /\ Pushes!OncePerKey /\ Pushes!SentIsReceived))
<1> SUFFICES ASSUME Attempts
             PROVE  Pushes!Spec => [](Pushes!TypeOK /\ Pushes!OncePerKey /\ Pushes!SentIsReceived)
  OBVIOUS
<1>1. Pushes!Init => DeliveryInv BY InitDelivery
<1>2. DeliveryInv /\ [Pushes!Next]_Pushes!vars => DeliveryInv' BY DeliveryNext
<1>3. DeliveryInv => Pushes!TypeOK /\ Pushes!OncePerKey /\ Pushes!SentIsReceived
  BY DeliveryTyped DEF DeliveryInv
<1> QED BY <1>1, <1>2, <1>3, PTL DEF Pushes!Spec
=============================================================================
