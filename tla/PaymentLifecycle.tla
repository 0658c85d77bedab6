-------------------------- MODULE PaymentLifecycle --------------------------
(***************************************************************************)
(* The payment of one registration: its orders at the provider, checkout   *)
(* verification, the webhook inbox, reconciliation, and its refunds, whole *)
(* or in parts.                                                            *)
(*                                                                         *)
(* A handler is split where it waits for an advisory lock or for the       *)
(* provider; what it read before is kept in the session's record, and only *)
(* the columns it changes are written (SQLAlchemy's unit of work).  The    *)
(* locks: payment_initiation, payment_verification, payment_reconciliation,*)
(* refund, refund_reconciliation (per row) and the event's capacity lock.  *)
(* All of them end with the transaction.                                   *)
(***************************************************************************)
EXTENDS Integers, FiniteSets, FiniteSetsExt

CONSTANTS
    Orders,      \* orders the provider may create
    NoOrder,     \* NULL order or payment id
    MaxRefunds,  \* bound: rows of refunds, created in the order 1, 2, ...
    Gids,        \* refunds the provider may create
    NoGid,       \* gateway_refund_id IS NULL
    Amount,      \* the fee
    Parts,       \* the amounts refunds are asked for
    Kinds,       \* webhook events the provider sends
    Sessions     \* requests and jobs that run concurrently

Refs == 1 .. MaxRefunds
PaymentKinds == {"payment.authorized", "payment.captured"}
RefundKinds == {"refund.created", "refund.processed", "refund.failed"}

ASSUME PaymentConstants ==
    /\ NoOrder \notin Orders /\ NoGid \notin Gids
    /\ MaxRefunds \in Nat
    /\ Amount \in Nat \ {0} /\ Parts \subseteq 1 .. Amount
    /\ Kinds \subseteq PaymentKinds \cup RefundKinds

PaymentStatus == {"none", "initiated", "verified", "failed", "refunded"}
RefundStatus == {"none", "pending", "processing", "processed", "failed"}
InboxStatus == {"none", "received", "processing", "processed", "failed"}
RegStatus == {"payable", "confirmed", "checked_in", "refund_pending", "refund_failed", "cancelled"}
TicketStatus == {"none", "issued", "checked_in", "cancelled"}

\* paid stands for gateway_payment_id: the order that the payment belongs to.
Payment == [status : PaymentStatus, order : Orders \cup {NoOrder}, paid : Orders \cup {NoOrder}]
Refund == [status : RefundStatus, amount : 0 .. Amount, gid : Gids \cup {NoGid}]
PaymentEvent == [kind : Kinds \cap PaymentKinds, of : Orders]
RefundEvent == [kind : Kinds \cap RefundKinds, of : Gids]
Event == PaymentEvent \cup RefundEvent

VARIABLES
    pay,     \* payments: the one row of the registration
    reg,     \* registrations.status; pending_payment and approved are "payable"
    ticket,  \* its ticket
    rf,      \* refunds
    inbox,   \* payment_webhook_inbox
    order,   \* provider: the latest payment of each order
    back,    \* provider: refunds
    sess     \* what each running request or job has read

local == <<pay, reg, ticket, rf, inbox>>
provider == <<order, back>>
vars == <<pay, reg, ticket, rf, inbox, order, back, sess>>

OrderStatus == {"unused", "created", "failed", "authorized", "captured"}
ProviderRefund == [status : {"none", "pending", "processed", "failed"},
                   amount : 0 .. Amount, of : Orders \cup {NoOrder}]

\* A verification comes from the checkout, a webhook or the reconciliation
\* job; order names the order its payment id belongs to.
Via == {"checkout", "job"} \cup (Kinds \cap PaymentKinds)
Idle == [op |-> "idle"]
SessionState ==
    {Idle}
    \cup [op : {"initiate", "reconcile"}, seen : Payment]
    \cup [op : {"mark", "hook"}, on : Event]
    \cup [op : {"found"}, via : Via, order : Orders]
    \cup [op : {"verify"}, via : Via, order : Orders, seen : Payment]
    \cup [op : {"answered"}, via : Via, order : Orders, seen : Payment, ok : BOOLEAN, reg : RegStatus]
    \cup [op : {"release", "cancel"}, seen : Payment, reg : RegStatus]
    \cup [op : {"checkin"}, reg : RegStatus]
    \cup [op : {"matched"}, on : RefundEvent, ref : Refs, row : Refund, seen : Payment, reg : RegStatus]
    \cup [op : {"approve"}, ref : Refs, row : Refund, seen : Payment, reg : RegStatus]
    \cup [op : {"asked"}, ref : Refs, row : Refund, seen : Payment, reg : RegStatus, gid : Gids]
    \cup [op : {"settle"}, ref : Refs, row : Refund, seen : Payment]

TypeOK ==
    /\ pay \in Payment
    /\ reg \in RegStatus
    /\ ticket \in TicketStatus
    /\ rf \in [Refs -> Refund]
    /\ inbox \in [Event -> InboxStatus]
    /\ order \in [Orders -> OrderStatus]
    /\ back \in [Gids -> ProviderRefund]
    /\ sess \in [Sessions -> SessionState]

NoRefund == [status |-> "none", amount |-> 0, gid |-> NoGid]

Init ==
    /\ pay = [status |-> "none", order |-> NoOrder, paid |-> NoOrder]
    /\ reg = "payable"
    /\ ticket = "none"
    /\ rf = [r \in Refs |-> NoRefund]
    /\ inbox = [e \in Event |-> "none"]
    /\ order = [o \in Orders |-> "unused"]
    /\ back = [g \in Gids |-> [status |-> "none", amount |-> 0, of |-> NoOrder]]
    /\ sess = [s \in Sessions |-> Idle]
----------------------------------------------------------------------------
(* Sessions and locks.                                                     *)

\* Only the columns whose new value differs from the one read are written.
Flush(seen, new, row) == IF new = seen THEN row ELSE new
WrittenPayment(seen, new) ==
    [status |-> Flush(seen.status, new.status, pay.status),
     order |-> Flush(seen.order, new.order, pay.order),
     paid |-> Flush(seen.paid, new.paid, pay.paid)]
WrittenRefund(r, seen, new) ==
    [rf EXCEPT ![r] = [status |-> Flush(seen.status, new.status, @.status),
                       amount |-> @.amount,
                       gid |-> Flush(seen.gid, new.gid, @.gid)]]

Step(s, x) == sess' = [sess EXCEPT ![s] = x]
Finish(s) == Step(s, Idle)
LockFree(ops) == \A s \in Sessions : sess[s].op \notin ops
CapacityLockFree == LockFree({"approve", "asked"})
RefundLockFree == LockFree({"approve", "asked"})
VerificationLockFree == LockFree({"verify", "answered"})
TicketRowFree == LockFree({"checkin"})

\* The job flushes what it counts on the payment before its next query, and
\* so keeps the row locked while it verifies or releases.
PaymentRowFree ==
    \A s \in Sessions : /\ sess[s].op # "release"
                        /\ sess[s].op \in {"verify", "answered"} => sess[s].via # "job"

\* A payment that did not exist when the registration was loaded is read later.
SeenPayment(x) == IF x.seen.status = "none" THEN pay ELSE x.seen

\* The request is refused or its process dies; the transaction rolls back.
Abort(s) ==
    /\ sess[s] # Idle
    /\ Finish(s)
    /\ UNCHANGED <<local, provider>>
----------------------------------------------------------------------------
(* The provider.                                                           *)

\* The participant pays, at once or after a failed attempt.
AttemptFails(o) ==
    /\ order[o] = "created"
    /\ order' = [order EXCEPT ![o] = "failed"]
    /\ UNCHANGED <<local, back, sess>>
Authorize(o) ==
    /\ order[o] \in {"created", "failed"}
    /\ order' = [order EXCEPT ![o] = "authorized"]
    /\ UNCHANGED <<local, back, sess>>
Capture(o) ==
    /\ order[o] = "authorized"
    /\ order' = [order EXCEPT ![o] = "captured"]
    /\ UNCHANGED <<local, back, sess>>

SettleRefund(g, st) ==
    /\ back[g].status = "pending"
    /\ back' = [back EXCEPT ![g].status = st]
    /\ UNCHANGED <<local, order, sess>>

PaidBack(o) ==
    MapThenSumSet(LAMBDA g : back[g].amount,
                  {g \in Gids : back[g].of = o /\ back[g].status # "failed"})

\* initiate_refund: never more than was captured.
Accept(g, o, amount) ==
    /\ back[g].status = "none"
    /\ PaidBack(o) + amount <= Amount
    /\ \E st \in {"pending", "processed"} :
          back' = [back EXCEPT ![g] = [status |-> st, amount |-> amount, of |-> o]]

Happened(e) ==
    \/ e.kind \in PaymentKinds /\ order[e.of] = "captured"
    \/ e.kind = "payment.authorized" /\ order[e.of] = "authorized"
    \/ e.kind = "refund.created" /\ back[e.of].status # "none"
    \/ e.kind = "refund.processed" /\ back[e.of].status = "processed"
    \/ e.kind = "refund.failed" /\ back[e.of].status = "failed"
----------------------------------------------------------------------------
(* initiate_payment.  The registration is loaded with its payment before   *)
(* the lock is waited for.                                                 *)

InitiateLoad(s) ==
    /\ sess[s] = Idle
    /\ reg = "payable"
    /\ Step(s, [op |-> "initiate", seen |-> pay])
    /\ UNCHANGED <<local, provider>>

\* The order has been created; an existing payment row is used again.
InitiateCommit(s, o) ==
    LET p == SeenPayment(sess[s]) IN
    /\ sess[s].op = "initiate"
    /\ p.status \notin {"initiated", "verified"}
    /\ p.status # "none" => PaymentRowFree
    /\ order[o] = "unused"
    /\ order' = [order EXCEPT ![o] = "created"]
    /\ pay' = WrittenPayment(p, [status |-> "initiated", order |-> o, paid |-> NoOrder])
    /\ Finish(s)
    /\ UNCHANGED <<reg, ticket, rf, inbox, back>>
----------------------------------------------------------------------------
(* The webhook inbox.  The lock on the event's id ends with the first      *)
(* commit, before the event is processed.                                  *)

WebhookInsert(s, e) ==
    /\ sess[s] = Idle
    /\ Happened(e)
    /\ inbox[e] = "none"
    /\ inbox' = [inbox EXCEPT ![e] = "received"]
    /\ Step(s, [op |-> "mark", on |-> e])
    /\ UNCHANGED <<pay, reg, ticket, rf, provider>>

\* A delivery of an event that is in the inbox, but not as processed.
WebhookAgain(s, e) ==
    /\ sess[s] = Idle
    /\ inbox[e] \notin {"none", "processed"}
    /\ inbox' = [inbox EXCEPT ![e] = "processing"]
    /\ Step(s, [op |-> "hook", on |-> e])
    /\ UNCHANGED <<pay, reg, ticket, rf, provider>>

\* retry_failed_webhooks_once lists the failed events, and does not look
\* again when it comes to one of them.
RetryLoad(s, e) ==
    /\ sess[s] = Idle
    /\ inbox[e] = "failed"
    /\ Step(s, [op |-> "mark", on |-> e])
    /\ UNCHANGED <<local, provider>>

WebhookMark(s) ==
    /\ sess[s].op = "mark"
    /\ inbox' = [inbox EXCEPT ![sess[s].on] = "processing"]
    /\ Step(s, [op |-> "hook", on |-> sess[s].on])
    /\ UNCHANGED <<pay, reg, ticket, rf, provider>>

\* The event a session is processing, if it is.
HookOf(x) ==
    IF x.op \in {"hook", "matched"} THEN {x.on}
    ELSE IF x.op \in {"found", "verify", "answered"}
    THEN {e \in Event : e.kind = x.via /\ e.of = x.order}
    ELSE {}

\* What raises in the processing, or in the provider's client, is rolled back
\* and recorded.  (The retry reads the event's id from a row that the rollback
\* has expired, and may not get to the record: that is an Abort.)
WebhookFails(s) ==
    /\ HookOf(sess[s]) # {}
    /\ inbox' = [e \in Event |-> IF e \in HookOf(sess[s]) THEN "failed" ELSE inbox[e]]
    /\ Finish(s)
    /\ UNCHANGED <<pay, reg, ticket, rf, provider>>

\* The end of a handler: of a webhook it is recorded in the same transaction.
Complete(s) ==
    /\ inbox' = [e \in Event |-> IF e \in HookOf(sess[s]) THEN "processed" ELSE inbox[e]]
    /\ Finish(s)
----------------------------------------------------------------------------
(* _verify_payment, for the checkout, a webhook and the job.               *)

\* The checkout and the webhook find the payment by the order's id.
CheckoutFind(s, o) ==
    /\ sess[s] = Idle
    /\ order[o] \in {"authorized", "captured"}
    /\ pay.order = o
    /\ Step(s, [op |-> "found", via |-> "checkout", order |-> o])
    /\ UNCHANGED <<local, provider>>

WebhookFind(s) ==
    LET e == sess[s].on IN
    /\ sess[s].op = "hook"
    /\ e.kind \in PaymentKinds
    /\ pay.order = e.of
    /\ \/ /\ pay.status = "refunded"
          /\ Complete(s)
       \/ /\ pay.status # "refunded"
          /\ Step(s, [op |-> "found", via |-> e.kind, order |-> e.of])
          /\ UNCHANGED inbox
    /\ UNCHANGED <<pay, reg, ticket, rf, provider>>

\* The payment is read again under the lock.  A verified one is returned.
VerifyLoad(s) ==
    LET x == sess[s] IN
    /\ x.op = "found"
    /\ VerificationLockFree
    /\ \/ /\ pay.status = "verified"
          /\ Complete(s)
       \/ /\ pay.status \notin {"verified", "refunded"}
          /\ Step(s, [op |-> "verify", via |-> x.via, order |-> x.order, seen |-> pay])
          /\ UNCHANGED inbox
    /\ UNCHANGED <<pay, reg, ticket, rf, provider>>

\* gateway.verify_payment: the payment belongs to the row's order and is captured.
\* Mutant: an authorized payment will do.
IsPaid(o, mine) == o = mine /\ order[o] \in {"authorized", "captured"}
Valid(o, mine) == o = mine /\ order[o] = "captured"

\* The provider has answered; the registration is read.
VerifyAnswer(s) ==
    LET x == sess[s] IN
    /\ x.op = "verify"
    /\ Step(s, [op |-> "answered", via |-> x.via, order |-> x.order, seen |-> x.seen,
                ok |-> Valid(x.order, x.seen.order), reg |-> reg])
    /\ UNCHANGED <<local, provider>>

VerifyCommit(s) ==
    LET x == sess[s] IN
    /\ x.op = "answered"
    /\ x.ok
    /\ x.reg # "cancelled"
    /\ x.via # "job" => PaymentRowFree
    /\ pay' = WrittenPayment(x.seen, [x.seen EXCEPT !.status = "verified", !.paid = x.order])
    /\ reg' = Flush(x.reg, "confirmed", reg)
    /\ ticket' = IF ticket = "none" THEN "issued" ELSE ticket
    /\ Complete(s)
    /\ UNCHANGED <<rf, provider>>

\* Only the checkout's verification commits the refusal.
VerifyInvalid(s) ==
    LET x == sess[s] IN
    /\ x.op = "answered"
    /\ ~x.ok
    /\ x.via = "checkout"
    /\ PaymentRowFree
    /\ pay' = WrittenPayment(x.seen, [x.seen EXCEPT !.status = "failed"])
    /\ Finish(s)
    /\ UNCHANGED <<reg, ticket, rf, inbox, provider>>
----------------------------------------------------------------------------
(* reconcile_payment.  The job lists the payments that are initiated; when *)
(* it comes to one of them, that may have changed.                         *)

ReconcileLoad(s) ==
    /\ sess[s] = Idle
    /\ \A q \in Sessions : /\ sess[q].op \notin {"reconcile", "release"}
                           /\ sess[q].op \in {"found", "verify", "answered"} => sess[q].via # "job"
    /\ pay.status # "none"
    /\ Step(s, [op |-> "reconcile", seen |-> pay])
    /\ UNCHANGED <<local, provider>>

\* fetch_payment asks for the payment id when there is one, else for the order,
\* and a payment of another order is a mismatch.
\* Mutant: always by the payment id.
ByPaymentId(seen) == seen.paid
Fetched(seen) == IF seen.paid # NoOrder THEN seen.paid ELSE seen.order

ReconcilePaid(s) ==
    LET seen == sess[s].seen IN
    /\ sess[s].op = "reconcile"
    /\ seen.order # NoOrder /\ Fetched(seen) = seen.order
    /\ order[seen.order] \in {"authorized", "captured"}
    /\ Step(s, [op |-> "found", via |-> "job", order |-> seen.order])
    /\ UNCHANGED <<local, provider>>

ReconcileFailed(s) ==
    LET seen == sess[s].seen IN
    /\ sess[s].op = "reconcile"
    /\ seen.order # NoOrder /\ Fetched(seen) = seen.order
    /\ order[seen.order] = "failed"
    /\ Step(s, [op |-> "release", seen |-> seen, reg |-> reg])
    /\ UNCHANGED <<local, provider>>

\* _release_failed_payment_registration: the registration is not refreshed
\* under the capacity lock.
ReleaseCommit(s) ==
    LET x == sess[s] IN
    /\ x.op = "release"
    /\ pay' = WrittenPayment(x.seen, [x.seen EXCEPT !.status = "failed"])
    /\ \/ x.reg = "payable" /\ CapacityLockFree /\ reg' = "cancelled"
       \/ x.reg # "payable" /\ UNCHANGED reg
    /\ Finish(s)
    /\ UNCHANGED <<ticket, rf, inbox, provider>>
----------------------------------------------------------------------------
(* Refunds.                                                                *)

\* _refunded_amount: pending refunds count as well.
Counted(rows) ==
    MapThenSumSet(LAMBDA r : rows[r].amount,
                  {r \in Refs : rows[r].status \in {"pending", "processing", "processed"}})

Used == reg = "checked_in" \/ ticket = "checked_in"
CreatedRefs == {r \in Refs : rf[r].status # "none"}

\* The next row of refunds waits for finance; all refunds together are at
\* most the payment.
NewRefund(r, amount) ==
    /\ RefundLockFree
    /\ r = Cardinality(CreatedRefs) + 1
    /\ Counted(rf) + amount <= Amount
    /\ rf' = [rf EXCEPT ![r] = [status |-> "pending", amount |-> amount, gid |-> NoGid]]

\* request_refund, by finance.
RequestRefund(r, amount) ==
    /\ pay.status = "verified"
    /\ ~(Used /\ amount >= Amount)
    /\ NewRefund(r, amount)
    /\ reg' = IF reg = "cancelled" THEN reg ELSE "refund_pending"
    /\ UNCHANGED <<pay, ticket, inbox, provider, sess>>

\* _apply_processed_refund, with the payment and the registration as read.
\* Mutant: the ticket stays valid.
KeptTicket(full) == ticket
TicketAfter(full) == IF full /\ ticket # "none" THEN "cancelled" ELSE ticket

Apply(x) ==
    LET full == Counted(rf') >= Amount IN
    /\ full => PaymentRowFree /\ TicketRowFree /\ (CapacityLockFree \/ x.op = "asked")
    /\ pay' = WrittenPayment(x.seen,
                  [x.seen EXCEPT !.status = IF full THEN "refunded" ELSE "verified"])
    /\ reg' = IF full THEN Flush(x.reg, "cancelled", reg)
              ELSE IF x.reg = "refund_pending" THEN "confirmed" ELSE reg
    /\ ticket' = TicketAfter(full)

\* A refund fails: the registration that was waiting for it says so.
\* Mutant: it goes on waiting.
FailUnnoticed(x) == UNCHANGED reg
Fail(x) == reg' = IF x.reg = "refund_pending" THEN "refund_failed" ELSE reg

\* approve_refund keeps the capacity lock and the refund lock to its end.
ApproveLoad(s, r) ==
    /\ sess[s] = Idle
    /\ CapacityLockFree
    /\ RefundLockFree
    /\ rf[r].status = "pending"
    /\ pay.status = "verified"
    /\ pay.paid # NoOrder
    /\ ~(Used /\ rf[r].amount >= Amount)
    /\ Step(s, [op |-> "approve", ref |-> r, row |-> rf[r], seen |-> pay, reg |-> reg])
    /\ UNCHANGED <<local, provider>>

\* The provider accepts the refund.
ApproveAsk(s, g) ==
    LET x == sess[s] IN
    /\ x.op = "approve"
    /\ Accept(g, x.seen.paid, x.row.amount)
    /\ Step(s, [op |-> "asked", ref |-> x.ref, row |-> x.row, seen |-> x.seen, reg |-> x.reg,
                gid |-> g])
    /\ UNCHANGED <<local, order>>

ApproveCommit(s) ==
    LET x == sess[s] IN
    /\ x.op = "asked"
    /\ rf' = WrittenRefund(x.ref, x.row, [x.row EXCEPT !.status = "processed", !.gid = x.gid])
    /\ Apply(x)
    /\ Finish(s)
    /\ UNCHANGED <<inbox, provider>>

\* The provider refuses, or its answer is lost.
ApproveFails(s) ==
    LET x == sess[s] IN
    /\ x.op \in {"approve", "asked"}
    /\ rf' = WrittenRefund(x.ref, x.row, [x.row EXCEPT !.status = "failed"])
    /\ Fail(x)
    /\ Finish(s)
    /\ UNCHANGED <<pay, ticket, inbox, provider>>

\* _process_refund_webhook: the refund of that id, or else the latest one.
\* Two rows with the id raise.
\* Mutant: the amount is not compared.
MatchByAge(g) ==
    LET named == {r \in Refs : rf[r].gid = g} IN
    {r \in CreatedRefs : IF named # {} THEN named = {r} ELSE r = Cardinality(CreatedRefs)}
Match(g) ==
    LET named == {r \in Refs : rf[r].gid = g} IN
    {r \in CreatedRefs :
        /\ IF named # {} THEN named = {r} ELSE r = Cardinality(CreatedRefs)
        /\ rf[r].amount = back[g].amount}

RefundMatch(s, r) ==
    LET e == sess[s].on IN
    /\ sess[s].op = "hook"
    /\ e.kind \in RefundKinds
    /\ pay.paid = back[e.of].of
    /\ r \in Match(e.of)
    /\ Step(s, [op |-> "matched", on |-> e, ref |-> r, row |-> rf[r], seen |-> pay, reg |-> reg])
    /\ UNCHANGED <<local, provider>>

\* What the event makes of the refund's status; a processed one stays.
\* Mutant: the provider's word for a new refund is stored.
StatusVerbatim(st, kind) ==
    IF st = "processed" THEN st
    ELSE CASE kind = "refund.processed" -> "processed"
           [] kind = "refund.created" -> "created"
           [] kind = "refund.failed" -> "failed"
StatusAfter(st, kind) ==
    IF st = "processed" THEN st
    ELSE CASE kind = "refund.processed" -> "processed"
           [] kind = "refund.created" -> "processing"
           [] kind = "refund.failed" -> "failed"

RefundWebhook(s) ==
    LET x == sess[s]
        st == StatusAfter(x.row.status, x.on.kind) IN
    /\ x.op = "matched"
    /\ rf' = WrittenRefund(x.ref, x.row, [x.row EXCEPT !.status = st, !.gid = x.on.of])
    /\ \/ /\ st = "processed" /\ x.row.status # "processed"
          /\ Apply(x)
       \/ /\ st = "failed"
          /\ Fail(x)
          /\ UNCHANGED <<pay, ticket>>
       \/ /\ x.row.status = "processed" \/ st \notin {"processed", "failed"}
          /\ UNCHANGED <<pay, reg, ticket>>
    /\ Complete(s)
    /\ UNCHANGED provider

\* reconcile_refund: the registration is read after the provider's answer.
SettleLoad(s, r) ==
    /\ sess[s] = Idle
    /\ \A q \in Sessions : sess[q].op = "settle" => sess[q].ref # r
    /\ rf[r].status = "processing"
    /\ rf[r].gid # NoGid
    /\ Step(s, [op |-> "settle", ref |-> r, row |-> rf[r], seen |-> pay])
    /\ UNCHANGED <<local, provider>>

SettleCommit(s) ==
    LET x == sess[s]
        b == back[x.row.gid]
        now == [op |-> "settle", seen |-> x.seen, reg |-> reg] IN
    /\ x.op = "settle"
    /\ b.of = x.seen.paid /\ b.amount = x.row.amount
    /\ b.status \in {"processed", "failed"}
    /\ rf' = WrittenRefund(x.ref, x.row, [x.row EXCEPT !.status = b.status])
    /\ \/ b.status = "processed" /\ Apply(now)
       \/ b.status = "failed" /\ Fail(now) /\ UNCHANGED <<pay, ticket>>
    /\ Finish(s)
    /\ UNCHANGED <<inbox, provider>>
----------------------------------------------------------------------------
(* The registration.                                                       *)

\* cancel_registration: registration and payment are loaded before the lock.
CancelLoad(s) ==
    /\ sess[s] = Idle
    /\ reg \in {"payable", "confirmed", "refund_failed"}
    /\ Step(s, [op |-> "cancel", seen |-> pay, reg |-> reg])
    /\ UNCHANGED <<local, provider>>

CancelUnpaid(s) ==
    LET p == SeenPayment(sess[s]) IN
    /\ sess[s].op = "cancel"
    /\ CapacityLockFree
    /\ TicketRowFree
    /\ p.status # "verified"
    /\ p.status = "initiated" => PaymentRowFree
    /\ reg' = "cancelled"
    /\ pay' = WrittenPayment(p, [p EXCEPT !.status = IF @ = "initiated" THEN "failed" ELSE @])
    /\ ticket' = TicketAfter(TRUE)
    /\ Finish(s)
    /\ UNCHANGED <<rf, inbox, provider>>

\* A paid registration waits for finance to approve the refund.
CancelPaid(s, r) ==
    /\ sess[s].op = "cancel"
    /\ CapacityLockFree
    /\ SeenPayment(sess[s]).status = "verified"
    /\ ticket # "checked_in"
    /\ NewRefund(r, Amount)
    /\ reg' = "refund_pending"
    /\ Finish(s)
    /\ UNCHANGED <<pay, ticket, inbox, provider>>

\* check_in locks the ticket's row, and reads payment and registration.
CheckInLoad(s) ==
    /\ sess[s] = Idle
    /\ TicketRowFree
    /\ ticket = "issued"
    /\ pay.status = "verified"
    /\ reg \in {"confirmed", "refund_failed", "checked_in"}
    /\ Step(s, [op |-> "checkin", reg |-> reg])
    /\ UNCHANGED <<local, provider>>

CheckInCommit(s) ==
    /\ sess[s].op = "checkin"
    /\ ticket' = "checked_in"
    /\ reg' = Flush(sess[s].reg, "checked_in", reg)
    /\ Finish(s)
    /\ UNCHANGED <<pay, rf, inbox, provider>>
----------------------------------------------------------------------------
ProviderStep ==
    \/ \E o \in Orders : AttemptFails(o) \/ Authorize(o) \/ Capture(o)
    \/ \E g \in Gids, st \in {"processed", "failed"} : SettleRefund(g, st)

WebhookStep(s) ==
    \/ \E e \in Event : WebhookInsert(s, e) \/ WebhookAgain(s, e) \/ RetryLoad(s, e)
    \/ WebhookMark(s)
    \/ WebhookFails(s)
    \/ WebhookFind(s)
    \/ \E r \in Refs : RefundMatch(s, r)
    \/ RefundWebhook(s)

PaymentStep(s) ==
    \/ InitiateLoad(s)
    \/ \E o \in Orders : InitiateCommit(s, o) \/ CheckoutFind(s, o)
    \/ VerifyLoad(s) \/ VerifyAnswer(s) \/ VerifyCommit(s) \/ VerifyInvalid(s)
    \/ ReconcileLoad(s) \/ ReconcilePaid(s) \/ ReconcileFailed(s) \/ ReleaseCommit(s)

RefundStep(s) ==
    \/ \E r \in Refs : ApproveLoad(s, r) \/ SettleLoad(s, r)
    \/ \E g \in Gids : ApproveAsk(s, g)
    \/ ApproveCommit(s) \/ ApproveFails(s) \/ SettleCommit(s)

RegistrationStep(s) ==
    \/ CancelLoad(s) \/ CancelUnpaid(s)
    \/ \E r \in Refs : CancelPaid(s, r)
    \/ CheckInLoad(s) \/ CheckInCommit(s)

Next ==
    \/ ProviderStep
    \/ \E r \in Refs, a \in Parts : RequestRefund(r, a)
    \/ \E s \in Sessions :
          WebhookStep(s) \/ PaymentStep(s) \/ RefundStep(s) \/ RegistrationStep(s) \/ Abort(s)

Spec == Init /\ [][Next]_vars
----------------------------------------------------------------------------
(* Properties.                                                             *)

\* A payment is verified, or refunded, only when the provider has captured
\* money for it, and the payment id it records is of a captured payment,
\* whichever of checkout, webhook and job verified it and whatever order was
\* created meanwhile.
VerifiedIsCaptured ==
    /\ pay.status \in {"verified", "refunded"} => \E o \in Orders : order[o] = "captured"
    /\ pay.paid # NoOrder => order[pay.paid] = "captured"

\* A processed refund names a refund of the same amount at the provider.
RefundsBacked ==
    \A r \in Refs : rf[r].status = "processed" =>
        /\ rf[r].gid # NoGid
        /\ back[rf[r].gid].status # "none"
        /\ back[rf[r].gid].amount = rf[r].amount

\* Nobody gets in on a refunded payment.
RefundCancelsTicket == pay.status = "refunded" => ticket = "cancelled"

\* A registration waits for a refund only while there is one to be decided.
PendingHasRefund ==
    reg = "refund_pending" => \E r \in Refs : rf[r].status \in {"pending", "processing"}

\* A payment is refunded only when the provider pays the whole amount back.
RefundedInFull == pay.status = "refunded" => PaidBack(pay.paid) >= Amount
----------------------------------------------------------------------------
(* Liveness.  Celery Beat starts the reconciliation every 300 s; a task is *)
(* acknowledged after it ran and retried when it raised, so that it does   *)
(* not die at the same point every time.  Neither do verifications.  No    *)
(* webhook and no checkout is assumed to arrive.                           *)

JobFairness ==
    /\ \A s \in Sessions : WF_vars(Abort(s))
    /\ SF_vars(\E s \in Sessions : ReconcileLoad(s))
    /\ SF_vars(\E s \in Sessions : ReconcilePaid(s))
    /\ SF_vars(\E s \in Sessions : VerifyLoad(s))
    /\ SF_vars(\E s \in Sessions : VerifyAnswer(s))
    /\ SF_vars(\E s \in Sessions : VerifyCommit(s))

FairSpec == Spec /\ JobFairness

\* Captured money of a payment that is still initiated is noticed, unless the
\* registration was cancelled or an older order's payment is recorded.
CapturedUnnoticed ==
    /\ pay.status = "initiated"
    /\ order[pay.order] = "captured"
    /\ pay.paid = NoOrder
    /\ reg # "cancelled"
CapturedIsNoticed == CapturedUnnoticed ~> ~CapturedUnnoticed
============================================================================
