------------------------------ MODULE StoredFiles ------------------------------
(***************************************************************************)
(* The files of an event: its cover image and an item of its gallery.  The *)
(* object store is outside the transaction: an object is written before    *)
(* the row that refers to it is committed, and the old one is removed      *)
(* after the commit, so that a failure leaves an object too many and never *)
(* one too few.                                                            *)
(***************************************************************************)
EXTENDS StaleCopy

CONSTANTS
    Keys,     \* storage keys, a fresh one for every upload
    NoKey,
    Managers, \* who may publish
    Nobody,
    Sessions  \* requests that run at the same time

NoItem == [key |-> NoKey, published |-> FALSE, by |-> Nobody]
Item == [key : Keys \cup {NoKey}, published : BOOLEAN, by : Managers \cup {Nobody}]
Idle == [op |-> "idle"]

VARIABLES
    image,  \* events.image_storage_key
    item,   \* the row of the gallery
    object, \* "unused", "stored" or "removed", of every key
    sess    \* the requests

vars == <<image, item, object, sess>>

TypeOK ==
    /\ image \in Keys \cup {NoKey}
    /\ item \in Item
    /\ object \in [Keys -> {"unused", "stored", "removed"}]
    /\ sess \in [Sessions ->
                    {Idle}
                    \cup [op : {"set", "remove", "clean"}, old : Keys \cup {NoKey}]
                    \cup [op : {"uploaded"}, old : Keys \cup {NoKey}, key : Keys]
                    \cup [op : {"filed"}, key : Keys]
                    \cup [op : {"publish"}, copy : Item]]

Init ==
    /\ image = NoKey
    /\ item = NoItem
    /\ object = [k \in Keys |-> "unused"]
    /\ sess = [s \in Sessions |-> Idle]
----------------------------------------------------------------------------
Go(s, next) == sess' = [sess EXCEPT ![s] = next]

Store(k) == object[k] = "unused" /\ object' = [object EXCEPT ![k] = "stored"]
Delete(k) == object' = [object EXCEPT ![k] = "removed"]

\* A request that fails before its commit: what it has stored stays.
Fails(s) == sess[s] # Idle /\ Go(s, Idle) /\ UNCHANGED <<image, item, object>>
----------------------------------------------------------------------------
(* The cover image.                                                        *)

BeginImage(s, op) ==
    /\ sess[s] = Idle
    /\ op = "remove" => image # NoKey
    /\ Go(s, [op |-> op, old |-> image])
    /\ UNCHANGED <<image, item, object>>

UploadImage(s, k) ==
    /\ sess[s].op = "set"
    /\ Store(k)
    /\ Go(s, [op |-> "uploaded", old |-> sess[s].old, key |-> k])
    /\ UNCHANGED <<image, item>>

AfterCommit(s) == IF sess[s].old = NoKey THEN Idle ELSE [op |-> "clean", old |-> sess[s].old]

CommitImage(s) ==
    /\ sess[s].op = "uploaded"
    /\ image' = sess[s].key
    /\ Go(s, AfterCommit(s))
    /\ UNCHANGED <<item, object>>

CommitRemoval(s) ==
    /\ sess[s].op = "remove"
    /\ image' = NoKey
    /\ Go(s, AfterCommit(s))
    /\ UNCHANGED <<item, object>>

\* Best effort: a failure (Fails) is ignored.
RemoveOld(s) ==
    /\ sess[s].op = "clean"
    /\ Delete(sess[s].old)
    /\ Go(s, Idle)
    /\ UNCHANGED <<image, item>>
----------------------------------------------------------------------------
(* The gallery.                                                            *)

UploadItem(s, k) ==
    /\ sess[s] = Idle
    /\ item = NoItem
    /\ Store(k)
    /\ Go(s, [op |-> "filed", key |-> k])
    /\ UNCHANGED <<image, item>>

CommitItem(s) ==
    /\ sess[s].op = "filed"
    /\ item = NoItem
    /\ item' = [NoItem EXCEPT !.key = sess[s].key]
    /\ Go(s, Idle)
    /\ UNCHANGED <<image, object>>

BeginPublish(s) ==
    /\ sess[s] = Idle
    /\ item # NoItem
    /\ Go(s, [op |-> "publish", copy |-> item])
    /\ UNCHANGED <<image, item, object>>

\* Only what differs from the copy is written: of two managers who publish and
\* withdraw at once, one may leave the flag and the other the signature.
CommitPublish(s, m, published) ==
    /\ sess[s].op = "publish"
    /\ item' = Written(item, sess[s].copy,
                       [sess[s].copy EXCEPT !.published = published,
                                            !.by = IF published THEN m ELSE Nobody])
    /\ Go(s, Idle)
    /\ UNCHANGED <<image, object>>

Next == \E s \in Sessions :
    \/ Fails(s)
    \/ \E op \in {"set", "remove"} : BeginImage(s, op)
    \/ \E k \in Keys : UploadImage(s, k) \/ UploadItem(s, k)
    \/ CommitImage(s) \/ CommitRemoval(s) \/ RemoveOld(s)
    \/ CommitItem(s) \/ BeginPublish(s)
    \/ \E m \in Managers, published \in BOOLEAN : CommitPublish(s, m, published)

Spec == Init /\ [][Next]_vars
----------------------------------------------------------------------------
(* Properties.                                                             *)

\* What an event shows is there: its cover image and its gallery refer to
\* stored objects, while images are replaced and removed by requests that
\* overlap and fail between the object store and the database.
ShownIsStored ==
    /\ image # NoKey => object[image] = "stored"
    /\ item.key # NoKey => object[item.key] = "stored"
=============================================================================
