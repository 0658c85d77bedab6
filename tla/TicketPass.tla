----------------------------- MODULE TicketPass -----------------------------
(***************************************************************************)
(* The life of the issued tickets of an event: admission at the gate,      *)
(* online and from offline batches, transfer between users, and the        *)
(* console's revoke, reassign, replace and access-type operations.         *)
(*                                                                         *)
(* Every operation locks the ticket's row (SELECT ... FOR UPDATE) up to    *)
(* its commit, and is one action from there on.  The lock does not refresh *)
(* a ticket that is already in the request's session: the console's        *)
(* endpoints and the offline synchronisation read the ticket before, so    *)
(* they are a Load, which keeps the ticket as it was seen, and a commit,   *)
(* which tests and changes that copy.  The gate and the transfers read the *)
(* ticket under the lock only.                                             *)
(***************************************************************************)
EXTENDS Integers, FiniteSets

CONSTANTS
    Tickets,      \* issued tickets
    Users,        \* possible owners
    Buyer,        \* the owner of each ticket when it is issued
    Types,        \* access types, each with a policy
    General,      \* the access type a ticket is issued with
    Limits,       \* values a policy's number of entries may have; 1: no re-entry
    Transfers,    \* rows of ticket_transfers that may be created
    Keys,         \* offline_batch_id values
    NoKey,        \* offline_batch_id IS NULL
    Sessions,     \* console requests and offline batches that run concurrently
    MaxCodes      \* bound: how often the tickets may be replaced

ASSUME TicketConstants ==
    /\ Buyer \in [Tickets -> Users]
    /\ General \in Types
    /\ Limits \subseteq Nat \ {0}
    /\ NoKey \notin Keys
    /\ MaxCodes \in Nat

\* No code writes "expired".
Unused == {"issued", "active"}
Used == {"checked_in", "used"}
Ended == {"cancelled", "revoked"}
TicketStatus == Unused \cup Used \cup Ended
TransferStatus == {"none", "pending", "accepted", "rejected", "cancelled"}

\* The columns of a ticket that the operations read; code stands for the
\* ticket code, and counts the replacements.
Ticket == [status : TicketStatus, count : Nat, owner : Users, type : Types, code : Nat]

VARIABLES
    tk,       \* tickets
    valid,    \* the registration is confirmed and its payment verified
    limit,    \* access_policies: entries allowed per access type
    rows,     \* check_ins
    xf,       \* ticket_transfers
    sess      \* what each running request has seen

vars == <<tk, valid, limit, rows, xf, sess>>

Idle == [op |-> "idle"]
SessionState ==
    {Idle}
    \cup [op : {"revoke", "replace", "offline"}, on : Tickets, seen : Ticket]
    \cup [op : {"reassign"}, on : Tickets, seen : Ticket, to : Users]
    \cup [op : {"retype"}, on : Tickets, seen : Ticket, to : Types]

TypeOK ==
    /\ tk \in [Tickets -> Ticket]
    /\ valid \in [Tickets -> BOOLEAN]
    /\ limit \in [Types -> Limits]
    /\ rows \subseteq [on : Tickets, n : Nat, key : Keys \cup {NoKey}]
    /\ xf \in [Transfers -> {[status |-> "none"]} \cup
                  [status : TransferStatus, on : Tickets, from : Users, to : Users]]
    /\ sess \in [Sessions -> SessionState]

Init ==
    /\ tk = [t \in Tickets |-> [status |-> "issued", count |-> 0, owner |-> Buyer[t],
                                type |-> General, code |-> 0]]
    /\ valid = [t \in Tickets |-> TRUE]
    /\ limit \in [Types -> Limits]
    /\ rows = {}
    /\ xf = [x \in Transfers |-> [status |-> "none"]]
    /\ sess = [s \in Sessions |-> Idle]
----------------------------------------------------------------------------
\* Only the attributes whose new value differs from the one seen are written.
Flush(seen, new, row) == IF new = seen THEN row ELSE new
Written(seen, new, row) ==
    [status |-> Flush(seen.status, new.status, row.status),
     count |-> Flush(seen.count, new.count, row.count),
     owner |-> Flush(seen.owner, new.owner, row.owner),
     type |-> Flush(seen.type, new.type, row.type),
     code |-> Flush(seen.code, new.code, row.code)]

Write(t, seen, new) == tk' = [tk EXCEPT ![t] = Written(seen, new, @)]

Finish(s) == sess' = [sess EXCEPT ![s] = Idle]

\* A request that is refused, or whose process dies, rolls back.
Abort(s) ==
    /\ sess[s] # Idle
    /\ Finish(s)
    /\ UNCHANGED <<tk, valid, limit, rows, xf>>
----------------------------------------------------------------------------
(* The gate.                                                               *)

\* Mutant: a used ticket is admitted without regard to the policy.
AdmittedAgain(seen) == seen.status \in Unused \cup Used
Admissible(seen) ==
    \/ seen.status \in Unused
    \/ seen.status \in Used /\ seen.count < limit[seen.type]

\* The unique constraints of check_ins.
\* Mutants: without the one on the entry, without the one on the batch key.
NeverTaken(t, n) == FALSE
EntryTaken(t, n) == \E row \in rows : row.on = t /\ row.n = n
KeyForgotten(k) == FALSE
KeyUsed(k) == k # NoKey /\ \E row \in rows : row.key = k

Admitted(seen) ==
    [seen EXCEPT !.count = @ + 1, !.status = IF seen.count = 0 THEN "checked_in" ELSE "used"]

\* check_in, with the ticket as the session sees it.
Admit(t, seen, k) ==
    /\ ~KeyUsed(k)
    /\ Admissible(seen)
    /\ valid[t]
    /\ ~EntryTaken(t, seen.count + 1)
    /\ rows' = rows \cup {[on |-> t, n |-> seen.count + 1, key |-> k]}
    /\ Write(t, seen, Admitted(seen))
    /\ UNCHANGED <<valid, limit, xf>>

\* POST /tickets/{id}/check-in: the ticket is read under the row's lock.
CheckIn(t, k) ==
    /\ Admit(t, tk[t], k)
    /\ UNCHANGED sess

\* sync_offline_checkins resolves the barcode first, which loads the ticket.
OfflineResolve(s, t) ==
    /\ sess[s] = Idle
    /\ sess' = [sess EXCEPT ![s] = [op |-> "offline", on |-> t, seen |-> tk[t]]]
    /\ UNCHANGED <<tk, valid, limit, rows, xf>>

\* The batch may go on with another scan of the same ticket, which is still
\* in the session.  A scan that is refused ends the batch (Abort); one that is
\* already recorded is skipped.
OfflineCommit(s, k) ==
    /\ sess[s].op = "offline"
    /\ Admit(sess[s].on, sess[s].seen, k)
    /\ sess' = [sess EXCEPT ![s].seen = Admitted(@)]
----------------------------------------------------------------------------
(* The console.                                                            *)

\* The endpoint loads the ticket to compare its event with the URL's.
ConsoleLoad(s, t, x) ==
    /\ sess[s] = Idle
    /\ sess' = [sess EXCEPT ![s] = x]
    /\ UNCHANGED <<tk, valid, limit, rows, xf>>

RevokeLoad(s, t) == ConsoleLoad(s, t, [op |-> "revoke", on |-> t, seen |-> tk[t]])
ReplaceLoad(s, t) == ConsoleLoad(s, t, [op |-> "replace", on |-> t, seen |-> tk[t]])
ReassignLoad(s, t, u) ==
    ConsoleLoad(s, t, [op |-> "reassign", on |-> t, seen |-> tk[t], to |-> u])
RetypeLoad(s, t, a) ==
    ConsoleLoad(s, t, [op |-> "retype", on |-> t, seen |-> tk[t], to |-> a])

ConsoleCommit(s, new) ==
    /\ Write(sess[s].on, sess[s].seen, new)
    /\ Finish(s)
    /\ UNCHANGED <<valid, limit, rows, xf>>

\* Mutant: revocation is recorded as expiry.
Expire(s) ==
    /\ sess[s].op = "revoke"
    /\ ConsoleCommit(s, [sess[s].seen EXCEPT !.status = "expired"])

Revoke(s) ==
    /\ sess[s].op = "revoke"
    /\ ConsoleCommit(s, [sess[s].seen EXCEPT !.status = "revoked"])

Replace(s) ==
    /\ sess[s].op = "replace"
    /\ LET seen == sess[s].seen
           fresh == tk[sess[s].on].code + 1 IN
       /\ seen.status \notin Ended
       /\ seen.count = 0
       /\ fresh <= MaxCodes
       /\ ConsoleCommit(s, [seen EXCEPT !.code = fresh, !.status = "active"])

Transferable(seen) == seen.status \in Unused /\ seen.count = 0

Reassign(s) ==
    /\ sess[s].op = "reassign"
    /\ Transferable(sess[s].seen)
    /\ ConsoleCommit(s, [sess[s].seen EXCEPT !.owner = sess[s].to])

\* assign_access_type looks at no status.
Retype(s) ==
    /\ sess[s].op = "retype"
    /\ ConsoleCommit(s, [sess[s].seen EXCEPT !.type = sess[s].to])

UpsertPolicy(a, n) ==
    /\ limit[a] # n
    /\ limit' = [limit EXCEPT ![a] = n]
    /\ UNCHANGED <<tk, valid, rows, xf, sess>>
----------------------------------------------------------------------------
(* Transfers.                                                              *)

Pending(x) == xf[x].status = "pending"

\* A partial unique index allows one pending transfer of a ticket as well.
HasPending(t) == \E x \in Transfers : Pending(x) /\ xf[x].on = t

Initiate(x, t, u) ==
    /\ xf[x].status = "none"
    /\ u # tk[t].owner
    /\ Transferable(tk[t])
    /\ ~HasPending(t)
    /\ xf' = [xf EXCEPT ![x] = [status |-> "pending", on |-> t, from |-> tk[t].owner, to |-> u]]
    /\ UNCHANGED <<tk, valid, limit, rows, sess>>

\* Mutant: the ticket's owner is not compared with the initiator.
AnswerableByAnyone(x) == Pending(x) /\ Transferable(tk[xf[x].on])
Answerable(x) ==
    /\ Pending(x)
    /\ tk[xf[x].on].owner = xf[x].from
    /\ Transferable(tk[xf[x].on])

Accept(x) ==
    /\ Answerable(x)
    /\ xf' = [xf EXCEPT ![x].status = "accepted"]
    /\ tk' = [tk EXCEPT ![xf[x].on].owner = xf[x].to]
    /\ UNCHANGED <<valid, limit, rows, sess>>

Reject(x) ==
    /\ Answerable(x)
    /\ xf' = [xf EXCEPT ![x].status = "rejected"]
    /\ UNCHANGED <<tk, valid, limit, rows, sess>>

\* By the initiator, or by staff of the event.
CancelTransfer(x) ==
    /\ Pending(x)
    /\ xf' = [xf EXCEPT ![x].status = "cancelled"]
    /\ UNCHANGED <<tk, valid, limit, rows, sess>>
----------------------------------------------------------------------------
(* The registration and its payment (RegistrationSeats).                   *)

\* A refund is asked for, or fails, or the registration's status is lost.
SetValid(t) ==
    /\ tk[t].status # "cancelled"
    /\ valid' = [valid EXCEPT ![t] = ~@]
    /\ UNCHANGED <<tk, limit, rows, xf, sess>>

\* A cancellation or a full refund cancels the ticket.
EndRegistration(t) ==
    /\ tk[t].status \notin Ended
    /\ tk' = [tk EXCEPT ![t].status = "cancelled"]
    /\ valid' = [valid EXCEPT ![t] = FALSE]
    /\ UNCHANGED <<limit, rows, xf, sess>>
----------------------------------------------------------------------------
GateStep ==
    \/ \E t \in Tickets, k \in Keys \cup {NoKey} : CheckIn(t, k)
    \/ \E s \in Sessions, t \in Tickets : OfflineResolve(s, t)
    \/ \E s \in Sessions, k \in Keys : OfflineCommit(s, k)

ConsoleStep ==
    \/ \E s \in Sessions :
          \/ \E t \in Tickets : RevokeLoad(s, t) \/ ReplaceLoad(s, t)
          \/ \E t \in Tickets, u \in Users : ReassignLoad(s, t, u)
          \/ \E t \in Tickets, a \in Types : RetypeLoad(s, t, a)
          \/ Revoke(s)
          \/ Replace(s)
          \/ Reassign(s)
          \/ Retype(s)
          \/ Abort(s)
    \/ \E a \in Types, n \in Limits : UpsertPolicy(a, n)

TransferStep ==
    \/ \E x \in Transfers, t \in Tickets, u \in Users : Initiate(x, t, u)
    \/ \E x \in Transfers : Accept(x) \/ Reject(x) \/ CancelTransfer(x)

RegistrationStep == \E t \in Tickets : SetValid(t) \/ EndRegistration(t)

Next == GateStep \/ ConsoleStep \/ TransferStep \/ RegistrationStep

Spec == Init /\ [][Next]_vars
----------------------------------------------------------------------------
(* Properties.                                                             *)

EntriesOf(t) == {row \in rows : row.on = t}

\* Whatever stale copies the offline batches worked on, the entries of a
\* ticket are numbered 1, 2, ... without gap or repetition, and entry_count is
\* their number.
EntriesNumbered ==
    \A t \in Tickets :
        /\ {row.n : row \in EntriesOf(t)} = 1 .. tk[t].count
        /\ \A p, q \in EntriesOf(t) : p.n = q.n => p = q

\* A ticket that was never replaced admits no more often than the most
\* generous policy ever allowed.
EntryLimit ==
    \A row \in rows : tk[row.on].code = 0 => \E m \in Limits : row.n <= m

\* A scan that a device sends again is not counted again, be it for the same
\* or for another ticket.
ScanCountedOnce ==
    \A p, q \in rows : p.key = q.key /\ p.key # NoKey => p = q

\* A transfer takes the ticket from the one who offered it, and only while
\* nobody has entered with it, whatever the console did in the meantime.
TransferIsOwners ==
    \A x \in Transfers :
        Pending(x) /\ xf'[x].status = "accepted" =>
            /\ tk[xf[x].on].owner = xf[x].from
            /\ EntriesOf(xf[x].on) = {}

\* The largest number of entries of a ticket is the largest limit of a policy.
AdmittedWithinLimit == \A row \in rows : \E m \in Limits : row.n <= m
============================================================================
