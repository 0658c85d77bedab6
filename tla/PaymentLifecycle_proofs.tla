----------------------- MODULE PaymentLifecycle_proofs -----------------------
(***************************************************************************)
(* Theorems about PaymentLifecycle, for any number of orders, refunds,     *)
(* provider refunds and concurrent requests, and any fee.                  *)
(***************************************************************************)
EXTENDS PaymentLifecycle, TLAPS, FiniteSetTheorems

USE PaymentConstants

(***************************************************************************)
(* Type correctness.                                                       *)
(***************************************************************************)

\* What the database keeps of a written copy is a row again.
LEMMA WrittenPaymentType ==
    ASSUME TypeOK, NEW seen \in Payment, NEW new \in Payment
    PROVE  WrittenPayment(seen, new) \in Payment
BY DEF TypeOK, WrittenPayment, Flush, Payment

LEMMA WrittenRefundType ==
    ASSUME TypeOK, NEW r \in Refs, NEW seen \in Refund, NEW new \in Refund
    PROVE  WrittenRefund(r, seen, new) \in [Refs -> Refund]
BY DEF TypeOK, WrittenRefund, Flush, Refund

LEMMA StepType ==
    ASSUME TypeOK, NEW s \in Sessions, NEW x \in SessionState, Step(s, x)
    PROVE  sess' \in [Sessions -> SessionState]
BY DEF TypeOK, Step

LEMMA FinishType ==
    ASSUME TypeOK, NEW s \in Sessions, Finish(s)
    PROVE  sess' \in [Sessions -> SessionState]
<1> Idle \in SessionState BY DEF SessionState
<1> QED BY StepType DEF Finish

LEMMA CompleteType ==
    ASSUME TypeOK, NEW s \in Sessions, Complete(s)
    PROVE  inbox' \in [Event -> InboxStatus] /\ sess' \in [Sessions -> SessionState]
BY FinishType DEF TypeOK, Complete, InboxStatus

\* The operations that hold a copy of the payment.
Readers == {"initiate", "reconcile", "verify", "answered", "release", "cancel", "matched",
            "approve", "asked", "settle"}

\* What a session holds, by the operation it is in.
LEMMA SessionKinds ==
    ASSUME TypeOK, NEW s \in Sessions
    PROVE  LET x == sess[s] IN
           /\ x \in SessionState
           /\ x.op \in Readers => x.seen \in Payment
           /\ x.op \in {"mark", "hook"} => x.on \in Event
           /\ x.op = "matched" => x.on \in RefundEvent
           /\ x.op \in {"found", "verify", "answered"} => x.via \in Via /\ x.order \in Orders
           /\ x.op = "answered" => x.ok \in BOOLEAN
           /\ x.op \in {"answered", "release", "cancel", "checkin", "matched", "approve",
                        "asked"} => x.reg \in RegStatus
           /\ x.op \in {"matched", "approve", "asked", "settle"} =>
                  x.ref \in Refs /\ x.row \in Refund
           /\ x.op = "asked" => x.gid \in Gids
BY DEF TypeOK, SessionState, Idle, Readers

LEMMA SeenPaymentType ==
    ASSUME TypeOK, NEW s \in Sessions, sess[s].op \in Readers
    PROVE  SeenPayment(sess[s]) \in Payment
BY SessionKinds DEF SeenPayment, TypeOK, Readers

LEMMA InitType == Init => TypeOK
BY DEF Init, TypeOK, Payment, PaymentStatus, RegStatus, TicketStatus, Refund, RefundStatus,
       NoRefund, InboxStatus, OrderStatus, ProviderRefund, SessionState

\* _apply_processed_refund and a failed refund keep the types.
LEMMA ApplyType ==
    ASSUME TypeOK, NEW x, x.seen \in Payment, Apply(x)
    PROVE  pay' \in Payment /\ reg' \in RegStatus /\ ticket' \in TicketStatus
<1> DEFINE full == Counted(rf') >= Amount
           new == [x.seen EXCEPT !.status = IF full THEN "refunded" ELSE "verified"]
<1>1. new \in Payment BY DEF Payment, PaymentStatus
<1>2. pay' = WrittenPayment(x.seen, new) BY DEF Apply
<1>3. pay' \in Payment BY <1>1, <1>2, WrittenPaymentType
<1>4. reg' \in RegStatus BY DEF Apply, Flush, TypeOK, RegStatus
<1>5. ticket' \in TicketStatus BY DEF Apply, TicketAfter, TypeOK, TicketStatus
<1> QED BY <1>3, <1>4, <1>5

LEMMA ProviderStepType == TypeOK /\ ProviderStep => TypeOK'
<1> SUFFICES ASSUME TypeOK, ProviderStep PROVE TypeOK' OBVIOUS
<1>1. ASSUME NEW o \in Orders, AttemptFails(o) \/ Authorize(o) \/ Capture(o) PROVE TypeOK'
  BY <1>1 DEF TypeOK, AttemptFails, Authorize, Capture, local, OrderStatus
<1>2. ASSUME NEW g \in Gids, NEW st \in {"processed", "failed"}, SettleRefund(g, st)
      PROVE  TypeOK'
  BY <1>2 DEF TypeOK, SettleRefund, local, ProviderRefund
<1> QED BY <1>1, <1>2 DEF ProviderStep

LEMMA WebhookStepType ==
    ASSUME TypeOK, NEW s \in Sessions, WebhookStep(s) PROVE TypeOK'
<1>1. ASSUME NEW e \in Event, WebhookInsert(s, e) PROVE TypeOK'
  <2>1. [op |-> "mark", on |-> e] \in SessionState BY DEF SessionState
  <2> QED BY <1>1, <2>1, StepType DEF WebhookInsert, TypeOK, InboxStatus, provider
<1>2. ASSUME NEW e \in Event, WebhookAgain(s, e) PROVE TypeOK'
  <2>1. [op |-> "hook", on |-> e] \in SessionState BY DEF SessionState
  <2> QED BY <1>2, <2>1, StepType DEF WebhookAgain, TypeOK, InboxStatus, provider
<1>3. ASSUME NEW e \in Event, RetryLoad(s, e) PROVE TypeOK'
  <2>1. [op |-> "mark", on |-> e] \in SessionState BY DEF SessionState
  <2> QED BY <1>3, <2>1, StepType DEF RetryLoad, TypeOK, local, provider
<1>4. CASE WebhookMark(s)
  <2>1. sess[s].on \in Event BY <1>4, SessionKinds DEF WebhookMark, Readers
  <2>2. [op |-> "hook", on |-> sess[s].on] \in SessionState BY <2>1 DEF SessionState
  <2> QED BY <1>4, <2>1, <2>2, StepType DEF WebhookMark, TypeOK, InboxStatus, provider
<1>5. CASE WebhookFails(s)
  BY <1>5, FinishType DEF WebhookFails, TypeOK, InboxStatus, provider
<1>6. CASE WebhookFind(s)
  <2> DEFINE e == sess[s].on
             x == [op |-> "found", via |-> e.kind, order |-> e.of]
  <2>1. e \in Event /\ e.kind \in PaymentKinds BY <1>6, SessionKinds DEF WebhookFind, Readers
  <2>2. e \in PaymentEvent BY <2>1 DEF Event, PaymentEvent, RefundEvent, PaymentKinds, RefundKinds
  <2>3. x \in SessionState BY <2>2 DEF SessionState, PaymentEvent, Via
  <2>4. CASE Complete(s) BY <1>6, <2>4, CompleteType DEF WebhookFind, TypeOK, provider
  <2>5. CASE Step(s, x) /\ UNCHANGED inbox
    BY <1>6, <2>3, <2>5, StepType DEF WebhookFind, TypeOK, provider
  <2> QED BY <1>6, <2>4, <2>5 DEF WebhookFind
<1>7. ASSUME NEW r \in Refs, RefundMatch(s, r) PROVE TypeOK'
  <2> DEFINE e == sess[s].on
             x == [op |-> "matched", on |-> e, ref |-> r, row |-> rf[r], seen |-> pay, reg |-> reg]
  <2>1. e \in Event /\ e.kind \in RefundKinds BY <1>7, SessionKinds DEF RefundMatch, Readers
  <2>2. e \in RefundEvent BY <2>1 DEF Event, PaymentEvent, RefundEvent, PaymentKinds, RefundKinds
  <2>3. x \in SessionState BY <2>2 DEF SessionState, TypeOK
  <2> QED BY <1>7, <2>3, StepType DEF RefundMatch, TypeOK, local, provider
<1>8. CASE RefundWebhook(s)
  <2> DEFINE x == sess[s]
             st == StatusAfter(x.row.status, x.on.kind)
             new == [x.row EXCEPT !.status = st, !.gid = x.on.of]
  <2>1. /\ x.on \in RefundEvent /\ x.ref \in Refs /\ x.row \in Refund
        /\ x.seen \in Payment /\ x.reg \in RegStatus
    BY <1>8, SessionKinds DEF RefundWebhook, Readers
  <2>2. st \in RefundStatus
    BY <2>1 DEF StatusAfter, RefundEvent, RefundKinds, Refund, RefundStatus
  <2>3. new \in Refund BY <2>1, <2>2 DEF Refund, RefundEvent
  <2>4. rf' \in [Refs -> Refund]
    BY <1>8, <2>1, <2>3, WrittenRefundType DEF RefundWebhook
  <2>5. pay' \in Payment /\ reg' \in RegStatus /\ ticket' \in TicketStatus
    <3>1. CASE Apply(x) BY <2>1, <3>1, ApplyType
    <3>2. CASE Fail(x) /\ UNCHANGED <<pay, ticket>>
      BY <2>1, <3>2 DEF Fail, TypeOK, RegStatus
    <3>3. CASE UNCHANGED <<pay, reg, ticket>> BY <3>3 DEF TypeOK
    <3> QED BY <1>8, <3>1, <3>2, <3>3 DEF RefundWebhook
  <2> QED BY <1>8, <2>4, <2>5, CompleteType DEF RefundWebhook, TypeOK, provider
<1> QED BY <1>1, <1>2, <1>3, <1>4, <1>5, <1>6, <1>7, <1>8 DEF WebhookStep

LEMMA PaymentStepType ==
    ASSUME TypeOK, NEW s \in Sessions, PaymentStep(s) PROVE TypeOK'
<1>1. CASE InitiateLoad(s)
  <2>1. [op |-> "initiate", seen |-> pay] \in SessionState BY DEF SessionState, TypeOK
  <2> QED BY <1>1, <2>1, StepType DEF InitiateLoad, TypeOK, local, provider
<1>2. ASSUME NEW o \in Orders, InitiateCommit(s, o) PROVE TypeOK'
  <2>1. [status |-> "initiated", order |-> o, paid |-> NoOrder] \in Payment
    BY DEF Payment, PaymentStatus
  <2>2. SeenPayment(sess[s]) \in Payment BY <1>2, SeenPaymentType DEF InitiateCommit, Readers
  <2>3. pay' \in Payment BY <1>2, <2>1, <2>2, WrittenPaymentType DEF InitiateCommit
  <2> QED BY <1>2, <2>3, FinishType DEF InitiateCommit, TypeOK, OrderStatus
<1>3. ASSUME NEW o \in Orders, CheckoutFind(s, o) PROVE TypeOK'
  <2>1. [op |-> "found", via |-> "checkout", order |-> o] \in SessionState
    BY DEF SessionState, Via
  <2> QED BY <1>3, <2>1, StepType DEF CheckoutFind, TypeOK, local, provider
<1>4. CASE VerifyLoad(s)
  <2> DEFINE x == sess[s]
             y == [op |-> "verify", via |-> x.via, order |-> x.order, seen |-> pay]
  <2>1. x.via \in Via /\ x.order \in Orders BY <1>4, SessionKinds DEF VerifyLoad, Readers
  <2>2. y \in SessionState BY <2>1 DEF SessionState, TypeOK
  <2>3. CASE Complete(s) BY <1>4, <2>3, CompleteType DEF VerifyLoad, TypeOK, provider
  <2>4. CASE Step(s, y) /\ UNCHANGED inbox
    BY <1>4, <2>2, <2>4, StepType DEF VerifyLoad, TypeOK, provider
  <2> QED BY <1>4, <2>3, <2>4 DEF VerifyLoad
<1>5. CASE VerifyAnswer(s)
  <2> DEFINE x == sess[s]
             ok == Valid(x.order, x.seen.order)
             y == [op |-> "answered", via |-> x.via, order |-> x.order, seen |-> x.seen,
                   ok |-> ok, reg |-> reg]
  <2>1. x.via \in Via /\ x.order \in Orders /\ x.seen \in Payment
    BY <1>5, SessionKinds DEF VerifyAnswer, Readers
  <2>2. ok \in BOOLEAN BY DEF Valid
  <2>3. y \in SessionState BY <2>1, <2>2 DEF SessionState, TypeOK
  <2> QED BY <1>5, <2>3, StepType DEF VerifyAnswer, TypeOK, local, provider
<1>6. CASE VerifyCommit(s)
  <2> DEFINE x == sess[s]
  <2>1. x.seen \in Payment /\ x.order \in Orders /\ x.reg \in RegStatus
    BY <1>6, SessionKinds DEF VerifyCommit, Readers
  <2>2. [x.seen EXCEPT !.status = "verified", !.paid = x.order] \in Payment
    BY <2>1 DEF Payment, PaymentStatus
  <2>3. pay' \in Payment BY <1>6, <2>1, <2>2, WrittenPaymentType DEF VerifyCommit
  <2>4. reg' \in RegStatus /\ ticket' \in TicketStatus
    BY <1>6 DEF VerifyCommit, Flush, TypeOK, RegStatus, TicketStatus
  <2> QED BY <1>6, <2>3, <2>4, CompleteType DEF VerifyCommit, TypeOK, provider
<1>7. CASE VerifyInvalid(s)
  <2> DEFINE x == sess[s]
  <2>1. x.seen \in Payment BY <1>7, SessionKinds DEF VerifyInvalid, Readers
  <2>2. [x.seen EXCEPT !.status = "failed"] \in Payment BY <2>1 DEF Payment, PaymentStatus
  <2>3. pay' \in Payment BY <1>7, <2>1, <2>2, WrittenPaymentType DEF VerifyInvalid
  <2> QED BY <1>7, <2>3, FinishType DEF VerifyInvalid, TypeOK, provider
<1>8. CASE ReconcileLoad(s)
  <2>1. [op |-> "reconcile", seen |-> pay] \in SessionState BY DEF SessionState, TypeOK
  <2> QED BY <1>8, <2>1, StepType DEF ReconcileLoad, TypeOK, local, provider
<1>9. CASE ReconcilePaid(s)
  <2> DEFINE seen == sess[s].seen
  <2>1. seen \in Payment /\ seen.order # NoOrder BY <1>9, SessionKinds DEF ReconcilePaid, Readers
  <2>2. [op |-> "found", via |-> "job", order |-> seen.order] \in SessionState
    BY <2>1 DEF SessionState, Via, Payment
  <2> QED BY <1>9, <2>2, StepType DEF ReconcilePaid, TypeOK, local, provider
<1>10. CASE ReconcileFailed(s)
  <2> DEFINE seen == sess[s].seen
  <2>1. seen \in Payment BY <1>10, SessionKinds DEF ReconcileFailed, Readers
  <2>2. [op |-> "release", seen |-> seen, reg |-> reg] \in SessionState
    BY <2>1 DEF SessionState, TypeOK
  <2> QED BY <1>10, <2>2, StepType DEF ReconcileFailed, TypeOK, local, provider
<1>11. CASE ReleaseCommit(s)
  <2> DEFINE x == sess[s]
  <2>1. x.seen \in Payment BY <1>11, SessionKinds DEF ReleaseCommit, Readers
  <2>2. [x.seen EXCEPT !.status = "failed"] \in Payment BY <2>1 DEF Payment, PaymentStatus
  <2>3. pay' \in Payment BY <1>11, <2>1, <2>2, WrittenPaymentType DEF ReleaseCommit
  <2>4. reg' \in RegStatus BY <1>11 DEF ReleaseCommit, TypeOK, RegStatus
  <2> QED BY <1>11, <2>3, <2>4, FinishType DEF ReleaseCommit, TypeOK, provider
<1> QED
  BY <1>1, <1>2, <1>3, <1>4, <1>5, <1>6, <1>7, <1>8, <1>9, <1>10, <1>11 DEF PaymentStep

LEMMA RefundStepType ==
    ASSUME TypeOK, NEW s \in Sessions, RefundStep(s) PROVE TypeOK'
<1>1. ASSUME NEW r \in Refs, ApproveLoad(s, r) PROVE TypeOK'
  <2>1. [op |-> "approve", ref |-> r, row |-> rf[r], seen |-> pay, reg |-> reg] \in SessionState
    BY DEF SessionState, TypeOK
  <2> QED BY <1>1, <2>1, StepType DEF ApproveLoad, TypeOK, local, provider
<1>2. ASSUME NEW r \in Refs, SettleLoad(s, r) PROVE TypeOK'
  <2>1. [op |-> "settle", ref |-> r, row |-> rf[r], seen |-> pay] \in SessionState
    BY DEF SessionState, TypeOK
  <2> QED BY <1>2, <2>1, StepType DEF SettleLoad, TypeOK, local, provider
<1>3. ASSUME NEW g \in Gids, ApproveAsk(s, g) PROVE TypeOK'
  <2> DEFINE x == sess[s]
             y == [op |-> "asked", ref |-> x.ref, row |-> x.row, seen |-> x.seen,
                   reg |-> x.reg, gid |-> g]
  <2>1. x.ref \in Refs /\ x.row \in Refund /\ x.seen \in Payment /\ x.reg \in RegStatus
    BY <1>3, SessionKinds DEF ApproveAsk, Readers
  <2>2. y \in SessionState BY <2>1 DEF SessionState
  <2>3. back' \in [Gids -> ProviderRefund]
    BY <1>3, <2>1 DEF ApproveAsk, Accept, TypeOK, ProviderRefund, Refund, Payment
  <2> QED BY <1>3, <2>2, <2>3, StepType DEF ApproveAsk, TypeOK, local
<1>4. CASE ApproveCommit(s)
  <2> DEFINE x == sess[s]
  <2>1. x.ref \in Refs /\ x.row \in Refund /\ x.seen \in Payment /\ x.gid \in Gids
    BY <1>4, SessionKinds DEF ApproveCommit, Readers
  <2>2. [x.row EXCEPT !.status = "processed", !.gid = x.gid] \in Refund
    BY <2>1 DEF Refund, RefundStatus
  <2>3. rf' \in [Refs -> Refund] BY <1>4, <2>1, <2>2, WrittenRefundType DEF ApproveCommit
  <2>4. pay' \in Payment /\ reg' \in RegStatus /\ ticket' \in TicketStatus
    BY <1>4, <2>1, ApplyType DEF ApproveCommit
  <2> QED BY <1>4, <2>3, <2>4, FinishType DEF ApproveCommit, TypeOK, provider
<1>5. CASE ApproveFails(s)
  <2> DEFINE x == sess[s]
  <2>1. x.ref \in Refs /\ x.row \in Refund BY <1>5, SessionKinds DEF ApproveFails, Readers
  <2>2. [x.row EXCEPT !.status = "failed"] \in Refund BY <2>1 DEF Refund, RefundStatus
  <2>3. rf' \in [Refs -> Refund] BY <1>5, <2>1, <2>2, WrittenRefundType DEF ApproveFails
  <2>4. reg' \in RegStatus BY <1>5 DEF ApproveFails, Fail, TypeOK, RegStatus
  <2> QED BY <1>5, <2>3, <2>4, FinishType DEF ApproveFails, TypeOK, provider
<1>6. CASE SettleCommit(s)
  <2> DEFINE x == sess[s]
             b == back[x.row.gid]
             now == [op |-> "settle", seen |-> x.seen, reg |-> reg]
  <2>1. x.ref \in Refs /\ x.row \in Refund /\ x.seen \in Payment
    BY <1>6, SessionKinds DEF SettleCommit, Readers
  <2>2. [x.row EXCEPT !.status = b.status] \in Refund
    BY <1>6, <2>1 DEF SettleCommit, Refund, RefundStatus
  <2>3. rf' \in [Refs -> Refund] BY <1>6, <2>1, <2>2, WrittenRefundType DEF SettleCommit
  <2>4. pay' \in Payment /\ reg' \in RegStatus /\ ticket' \in TicketStatus
    <3>1. CASE Apply(now)
      <4>1. now.seen \in Payment BY <2>1
      <4> QED BY <3>1, <4>1, ApplyType
    <3>2. CASE Fail(now) /\ UNCHANGED <<pay, ticket>> BY <3>2 DEF Fail, TypeOK, RegStatus
    <3> QED BY <1>6, <3>1, <3>2 DEF SettleCommit
  <2> QED BY <1>6, <2>3, <2>4, FinishType DEF SettleCommit, TypeOK, provider
<1> QED BY <1>1, <1>2, <1>3, <1>4, <1>5, <1>6 DEF RefundStep

LEMMA RegistrationStepType ==
    ASSUME TypeOK, NEW s \in Sessions, RegistrationStep(s) PROVE TypeOK'
<1>1. CASE CancelLoad(s)
  <2>1. [op |-> "cancel", seen |-> pay, reg |-> reg] \in SessionState BY DEF SessionState, TypeOK
  <2> QED BY <1>1, <2>1, StepType DEF CancelLoad, TypeOK, local, provider
<1>2. CASE CancelUnpaid(s)
  <2> DEFINE p == SeenPayment(sess[s])
             new == [p EXCEPT !.status = IF p.status = "initiated" THEN "failed" ELSE p.status]
  <2>1. p \in Payment BY <1>2, SeenPaymentType DEF CancelUnpaid, Readers
  <2>2. new \in Payment BY <2>1 DEF Payment, PaymentStatus
  <2>3. pay' = WrittenPayment(p, new) BY <1>2 DEF CancelUnpaid
  <2>4. pay' \in Payment
    <3> HIDE DEF p, new
    <3> QED BY <2>1, <2>2, <2>3, WrittenPaymentType
  <2> QED BY <1>2, <2>4, FinishType
      DEF CancelUnpaid, TypeOK, RegStatus, TicketAfter, TicketStatus, provider
<1>3. ASSUME NEW r \in Refs, CancelPaid(s, r) PROVE TypeOK'
  <2>1. [status |-> "pending", amount |-> Amount, gid |-> NoGid] \in Refund
    BY DEF Refund, RefundStatus
  <2> QED BY <1>3, <2>1, FinishType DEF CancelPaid, NewRefund, TypeOK, RegStatus, provider
<1>4. CASE CheckInLoad(s)
  <2>1. [op |-> "checkin", reg |-> reg] \in SessionState BY DEF SessionState, TypeOK
  <2> QED BY <1>4, <2>1, StepType DEF CheckInLoad, TypeOK, local, provider
<1>5. CASE CheckInCommit(s)
  BY <1>5, FinishType DEF CheckInCommit, Flush, TypeOK, RegStatus, TicketStatus, provider
<1> QED BY <1>1, <1>2, <1>3, <1>4, <1>5 DEF RegistrationStep

LEMMA NextType == TypeOK /\ [Next]_vars => TypeOK'
<1> SUFFICES ASSUME TypeOK, [Next]_vars PROVE TypeOK' OBVIOUS
<1>1. CASE ProviderStep BY <1>1, ProviderStepType
<1>2. ASSUME NEW r \in Refs, NEW a \in Parts, RequestRefund(r, a) PROVE TypeOK'
  <2>1. [status |-> "pending", amount |-> a, gid |-> NoGid] \in Refund
    BY DEF Refund, RefundStatus
  <2> QED BY <1>2, <2>1 DEF RequestRefund, NewRefund, TypeOK, RegStatus, provider
<1>3. ASSUME NEW s \in Sessions, Abort(s) PROVE TypeOK'
  BY <1>3, FinishType DEF Abort, TypeOK, local, provider
<1>4. CASE UNCHANGED vars BY <1>4 DEF vars, TypeOK
<1> QED BY <1>1, <1>2, <1>3, <1>4, WebhookStepType, PaymentStepType, RefundStepType,
           RegistrationStepType
    DEF Next

\* Payment, registration, ticket, refunds, inbox and what every request has
\* read keep their types in every reachable state.
THEOREM TypeCorrect == Spec => []TypeOK
BY InitType, NextType, PTL DEF Spec

(***************************************************************************)
(* Verified payments are captured.  The invariant says of the copies that  *)
(* the requests hold what VerifiedIsCaptured says of the row, and that a   *)
(* refund the provider is known to have created has been asked for with a  *)
(* payment id.                                                             *)
(***************************************************************************)

\* What a request or job may rely on about orders and provider refunds,
\* whatever has happened since it read them.
Knows(x, o, b) ==
    /\ x.op \in Readers /\ x.seen.paid # NoOrder => o[x.seen.paid] = "captured"
    /\ x.op = "answered" /\ x.ok => o[x.order] = "captured"
    /\ x.op \in {"approve", "asked", "matched"} => x.seen.paid # NoOrder
    /\ x.op = "settle" => x.row.gid # NoGid
    /\ x.op \in {"mark", "hook", "matched"} /\ x.on.kind \in RefundKinds
           => b[x.on.of].status # "none"

RefundsKnown ==
    /\ \A e \in RefundEvent : inbox[e] # "none" => back[e.of].status # "none"
    /\ \A g \in Gids : back[g].status # "none" => back[g].of # NoOrder
SessionsKnow == \A s \in Sessions : Knows(sess[s], order, back)

Inv == TypeOK /\ VerifiedIsCaptured /\ RefundsKnown /\ SessionsKnow

\* The provider takes nothing back.
Lasting(o, o2, b, b2) ==
    /\ \A q \in Orders : o[q] = "captured" => o2[q] = "captured"
    /\ \A g \in Gids : b[g].status # "none" => b2[g].status # "none"
Lasts == Lasting(order, order', back, back')

\* What a request knows stays true.
LEMMA KnowledgeLasts ==
    ASSUME NEW x, NEW o, NEW o2, NEW b, NEW b2,
           x.op \in Readers => x.seen.paid \in Orders \cup {NoOrder},
           x.op = "answered" => x.order \in Orders,
           x.op \in {"mark", "hook", "matched"} /\ x.on.kind \in RefundKinds => x.on.of \in Gids,
           Lasting(o, o2, b, b2),
           Knows(x, o, b)
    PROVE  Knows(x, o2, b2)
BY DEF Knows, Lasting

LEMMA EventOf ==
    ASSUME NEW e \in Event, e.kind \in RefundKinds
    PROVE  e \in RefundEvent /\ e.of \in Gids
BY DEF Event, PaymentEvent, RefundEvent, PaymentKinds, RefundKinds

LEMMA IdleKnows == ASSUME NEW o, NEW b PROVE Knows(Idle, o, b)
BY DEF Knows, Idle, Readers

\* The requests that do not move know what they knew.
LEMMA OthersKnow ==
    ASSUME Inv, Lasts, NEW s \in Sessions PROVE Knows(sess[s], order', back')
<1> DEFINE x == sess[s]
<1>1. /\ x.op = "answered" => x.order \in Orders
      /\ x.op \in Readers => x.seen.paid \in Orders \cup {NoOrder}
  BY SessionKinds DEF Inv, Payment, Readers
<1>2. x.op \in {"mark", "hook", "matched"} => x.on \in Event
  BY SessionKinds DEF Inv, Event, Readers
<1>3. x.op \in {"mark", "hook", "matched"} /\ x.on.kind \in RefundKinds => x.on.of \in Gids
  BY <1>2, EventOf
<1>4. Knows(x, order, back) BY DEF Inv, SessionsKnow
<1>5. Lasting(order, order', back, back') BY DEF Lasts
<1> HIDE DEF x
<1>6. Knows(x, order', back') BY <1>1, <1>3, <1>4, <1>5, KnowledgeLasts
<1> QED BY <1>6 DEF x

LEMMA StepKnows ==
    ASSUME Inv, Lasts, NEW s \in Sessions, NEW x, Step(s, x), Knows(x, order', back')
    PROVE  SessionsKnow'
<1>1. ASSUME NEW q \in Sessions PROVE Knows(sess'[q], order', back')
  <2>1. CASE q = s
    <3>1. sess'[q] = x BY <2>1 DEF Step, Inv, TypeOK
    <3> QED BY <3>1
  <2>2. CASE q # s
    <3>1. sess'[q] = sess[q] BY <2>2 DEF Step, Inv, TypeOK
    <3> QED BY <3>1, OthersKnow
  <2> QED BY <2>1, <2>2
<1> QED BY <1>1 DEF SessionsKnow

LEMMA FinishKnows ==
    ASSUME Inv, Lasts, NEW s \in Sessions, Finish(s) PROVE SessionsKnow'
BY StepKnows, IdleKnows DEF Finish

LEMMA NobodyMoves ==
    ASSUME Inv, Lasts, UNCHANGED sess PROVE SessionsKnow'
BY OthersKnow DEF SessionsKnow

\* The row's part of the invariant, the refunds', and that nothing is taken back.
Rows == VerifiedIsCaptured' /\ RefundsKnown' /\ Lasts

\* A step that leaves the rows and the provider alone.
LEMMA RowsUnchanged ==
    ASSUME Inv, UNCHANGED <<local, provider>> PROVE Rows
BY DEF Inv, Rows, Lasts, Lasting, VerifiedIsCaptured, RefundsKnown, local, provider

\* A step that only marks in the inbox an event that is there.
LEMMA RowsMarked ==
    ASSUME Inv, UNCHANGED <<pay, reg, provider>>,
           \A e \in Event : inbox'[e] # "none" /\ e \in RefundEvent => back[e.of].status # "none"
    PROVE  Rows
BY DEF Inv, Rows, Lasts, Lasting, VerifiedIsCaptured, RefundsKnown, provider, Event

\* The events a request is processing are known to the provider.
LEMMA HooksKnown ==
    ASSUME Inv, NEW s \in Sessions, NEW e \in HookOf(sess[s]), e \in RefundEvent
    PROVE  back[e.of].status # "none"
<1> DEFINE x == sess[s]
<1>1. Knows(x, order, back) BY DEF Inv, SessionsKnow
<1>2. e.kind \in RefundKinds BY DEF RefundEvent
<1>3. CASE x.op \in {"hook", "matched"}
  BY <1>1, <1>2, <1>3 DEF HookOf, Knows
<1>4. CASE x.op \in {"found", "verify", "answered"}
  <2>1. e.kind = x.via BY <1>4 DEF HookOf
  <2>2. x.via \in Via BY <1>4, SessionKinds DEF Inv, Readers
  <2> QED BY <1>2, <2>1, <2>2 DEF Via, PaymentKinds, RefundKinds
<1> QED BY <1>3, <1>4 DEF HookOf

LEMMA CompleteMarks ==
    ASSUME Inv, NEW s \in Sessions, Complete(s), UNCHANGED back
    PROVE  RefundsKnown'
<1>1. ASSUME NEW e \in RefundEvent, inbox'[e] # "none" PROVE back'[e.of].status # "none"
  <2>1. e \in Event BY DEF Event
  <2>2. CASE e \in HookOf(sess[s]) BY <2>2, HooksKnown
  <2>3. CASE e \notin HookOf(sess[s])
    <3>1. inbox'[e] = inbox[e] BY <2>1, <2>3 DEF Complete
    <3> QED BY <1>1, <3>1 DEF Inv, RefundsKnown
  <2> QED BY <2>2, <2>3
<1> QED BY <1>1 DEF Inv, RefundsKnown

LEMMA InitInv == Init => Inv
<1> SUFFICES ASSUME Init PROVE Inv OBVIOUS
<1>1. TypeOK BY InitType
<1>2. VerifiedIsCaptured BY DEF Init, VerifiedIsCaptured
<1>3. RefundsKnown BY DEF Init, RefundsKnown, Event
<1>4. SessionsKnow
  <2>1. \A s \in Sessions : sess[s] = Idle BY DEF Init
  <2> QED BY <2>1, IdleKnows DEF SessionsKnow
<1> QED BY <1>1, <1>2, <1>3, <1>4 DEF Inv

\* A row written from a copy that keeps the payment id keeps the row's.
LEMMA PaidKept ==
    ASSUME NEW seen \in Payment, NEW st,
           pay' = WrittenPayment(seen, [seen EXCEPT !.status = st])
    PROVE  pay'.paid = pay.paid /\ pay'.status \in {pay.status, st}
BY DEF WrittenPayment, Flush, Payment

\* A row whose payment id and status are old, are reset or stand for captured
\* money is as it should be.
LEMMA RowSafe ==
    ASSUME Inv, Lasts,
           pay'.paid \in {pay.paid, NoOrder} \/ order'[pay'.paid] = "captured",
           \/ pay'.status \in {pay.status, "failed", "initiated"}
           \/ \E o \in Orders : order[o] = "captured"
    PROVE  VerifiedIsCaptured'
<1>1. pay.paid # NoOrder => pay.paid \in Orders BY DEF Inv, TypeOK, Payment
<1> QED BY <1>1 DEF Inv, Lasts, Lasting, VerifiedIsCaptured

LEMMA ProviderInv == Inv /\ ProviderStep => Rows /\ SessionsKnow'
<1> SUFFICES ASSUME Inv, ProviderStep PROVE Rows /\ SessionsKnow' OBVIOUS
<1>1. UNCHANGED <<local, sess>>
  BY DEF ProviderStep, AttemptFails, Authorize, Capture, SettleRefund
<1>2. ASSUME NEW o \in Orders, AttemptFails(o) \/ Authorize(o) \/ Capture(o)
      PROVE  Rows
  <2>1. /\ UNCHANGED back
        /\ \A q \in Orders : order[q] = "captured" => order'[q] = "captured"
    BY <1>2 DEF AttemptFails, Authorize, Capture, Inv, TypeOK
  <2>2. pay.paid # NoOrder => pay.paid \in Orders BY DEF Inv, TypeOK, Payment
  <2> QED BY <1>1, <2>1, <2>2
      DEF Inv, Rows, Lasts, Lasting, VerifiedIsCaptured, RefundsKnown, local
<1>3. ASSUME NEW g \in Gids, NEW st \in {"processed", "failed"}, SettleRefund(g, st)
      PROVE  Rows
  <2>1. /\ UNCHANGED order
        /\ \A h \in Gids : /\ back[h].status # "none" => back'[h].status # "none"
                           /\ back'[h].status # "none" => back[h].status # "none"
                           /\ back'[h].of = back[h].of
    BY <1>3 DEF SettleRefund, Inv, TypeOK, ProviderRefund
  <2>2. \A e \in RefundEvent : e.of \in Gids BY DEF RefundEvent
  <2> QED BY <1>1, <2>1, <2>2
      DEF Inv, Rows, Lasts, Lasting, VerifiedIsCaptured, RefundsKnown, local
<1>4. Rows BY <1>2, <1>3 DEF ProviderStep
<1>5. Lasts BY <1>4 DEF Rows
<1> QED BY <1>1, <1>4, <1>5, NobodyMoves

LEMMA WebhookInv ==
    ASSUME Inv, NEW s \in Sessions, WebhookStep(s) PROVE Rows /\ SessionsKnow'
<1> USE DEF Inv
<1>1. ASSUME NEW e \in Event, WebhookInsert(s, e) PROVE Rows /\ SessionsKnow'
  <2> DEFINE x == [op |-> "mark", on |-> e]
  <2>1. e.kind \in RefundKinds => back[e.of].status # "none"
    BY <1>1 DEF WebhookInsert, Happened, PaymentKinds, RefundKinds
  <2>2. Rows
    <3>1. ASSUME NEW f \in Event, inbox'[f] # "none", f \in RefundEvent
          PROVE  back[f.of].status # "none"
      <4>1. CASE f = e BY <2>1, <3>1, <4>1 DEF RefundEvent
      <4>2. CASE f # e
        <5>1. inbox'[f] = inbox[f] BY <1>1, <4>2 DEF WebhookInsert, TypeOK
        <5> QED BY <3>1, <5>1 DEF RefundsKnown
      <4> QED BY <4>1, <4>2
    <3> QED BY <1>1, <3>1, RowsMarked DEF WebhookInsert
  <2>3. Knows(x, order', back')
    BY <1>1, <2>1 DEF WebhookInsert, Knows, provider, Readers
  <2> QED BY <1>1, <2>2, <2>3, StepKnows DEF WebhookInsert, Rows
<1>2. ASSUME NEW e \in Event, NEW op \in {"mark", "hook"}, inbox[e] # "none",
             Step(s, [op |-> op, on |-> e]), UNCHANGED <<pay, reg, provider>>,
             inbox' = [inbox EXCEPT ![e] = "processing"] \/ UNCHANGED inbox
      PROVE  Rows /\ SessionsKnow'
  <2> DEFINE x == [op |-> op, on |-> e]
  <2>1. e.kind \in RefundKinds => back[e.of].status # "none"
    BY <1>2, EventOf DEF RefundsKnown
  <2>2. Rows
    <3>1. ASSUME NEW f \in Event, inbox'[f] # "none", f \in RefundEvent
          PROVE  back[f.of].status # "none"
      <4>1. CASE f = e BY <2>1, <3>1, <4>1 DEF RefundEvent
      <4>2. CASE f # e
        <5>1. inbox'[f] = inbox[f] BY <1>2, <4>2 DEF TypeOK
        <5> QED BY <3>1, <5>1 DEF RefundsKnown
      <4> QED BY <4>1, <4>2
    <3> QED BY <1>2, <3>1, RowsMarked
  <2>3. Knows(x, order', back') BY <1>2, <2>1 DEF Knows, provider, Readers
  <2> QED BY <1>2, <2>2, <2>3, StepKnows DEF Rows
<1>3. ASSUME NEW e \in Event, WebhookAgain(s, e) PROVE Rows /\ SessionsKnow'
  BY <1>2, <1>3 DEF WebhookAgain
<1>4. ASSUME NEW e \in Event, RetryLoad(s, e) PROVE Rows /\ SessionsKnow'
  BY <1>2, <1>4 DEF RetryLoad, local
<1>5. CASE WebhookMark(s)
  <2> DEFINE e == sess[s].on
             x == [op |-> "hook", on |-> e]
  <2>1. e \in Event BY <1>5, SessionKinds DEF WebhookMark, Readers
  <2>2. e.kind \in RefundKinds => back[e.of].status # "none"
    BY <1>5 DEF WebhookMark, SessionsKnow, Knows, Readers
  <2>3. Rows
    <3>1. ASSUME NEW f \in Event, inbox'[f] # "none", f \in RefundEvent
          PROVE  back[f.of].status # "none"
      <4>1. CASE f = e BY <2>2, <3>1, <4>1 DEF RefundEvent
      <4>2. CASE f # e
        <5>1. inbox'[f] = inbox[f] BY <1>5, <4>2 DEF WebhookMark, TypeOK
        <5> QED BY <3>1, <5>1 DEF RefundsKnown
      <4> QED BY <4>1, <4>2
    <3> QED BY <1>5, <3>1, RowsMarked DEF WebhookMark
  <2>4. Knows(x, order', back')
    BY <1>5, <2>2 DEF WebhookMark, Knows, provider, Readers
  <2> QED BY <1>5, <2>3, <2>4, StepKnows DEF WebhookMark, Rows
<1>6. CASE WebhookFails(s)
  <2>1. ASSUME NEW f \in Event, inbox'[f] # "none", f \in RefundEvent
        PROVE  back[f.of].status # "none"
    <3>1. CASE f \in HookOf(sess[s]) BY <2>1, <3>1, HooksKnown
    <3>2. CASE f \notin HookOf(sess[s])
      <4>1. inbox'[f] = inbox[f] BY <1>6, <3>2 DEF WebhookFails
      <4> QED BY <2>1, <4>1 DEF RefundsKnown
    <3> QED BY <3>1, <3>2
  <2>2. Rows BY <1>6, <2>1, RowsMarked DEF WebhookFails
  <2> QED BY <1>6, <2>2, FinishKnows DEF WebhookFails, Rows
<1>7. CASE WebhookFind(s)
  <2>1. CASE Complete(s)
    <3>1. RefundsKnown' BY <1>7, <2>1, CompleteMarks DEF WebhookFind, provider
    <3>2. Rows
      BY <1>7, <3>1 DEF WebhookFind, provider, Rows, Lasts, Lasting, VerifiedIsCaptured
    <3> QED BY <2>1, <3>2, FinishKnows DEF Rows, Complete
  <2>2. CASE UNCHANGED inbox /\ ~Complete(s)
    <3> DEFINE x == [op |-> "found", via |-> sess[s].on.kind, order |-> sess[s].on.of]
    <3>1. Rows BY <1>7, <2>2, RowsUnchanged DEF WebhookFind, local, provider
    <3>2. Knows(x, order', back') BY DEF Knows, Readers
    <3>3. Step(s, x) BY <1>7, <2>2 DEF WebhookFind
    <3> QED BY <3>1, <3>2, <3>3, StepKnows DEF Rows
  <2> QED BY <1>7, <2>1, <2>2 DEF WebhookFind
<1>8. ASSUME NEW r \in Refs, RefundMatch(s, r) PROVE Rows /\ SessionsKnow'
  <2> DEFINE e == sess[s].on
             x == [op |-> "matched", on |-> e, ref |-> r, row |-> rf[r], seen |-> pay, reg |-> reg]
  <2>1. e \in Event /\ e.kind \in RefundKinds BY <1>8, SessionKinds DEF RefundMatch, Readers
  <2>2. back[e.of].status # "none" BY <1>8, <2>1 DEF RefundMatch, SessionsKnow, Knows, Readers
  <2>3. pay.paid # NoOrder
    <3>1. e.of \in Gids BY <2>1, EventOf
    <3>2. back[e.of].of # NoOrder BY <2>2, <3>1 DEF RefundsKnown
    <3> QED BY <1>8, <3>2 DEF RefundMatch
  <2>4. Rows BY <1>8, RowsUnchanged DEF RefundMatch
  <2>5. Knows(x, order', back')
    BY <1>8, <2>2, <2>3 DEF RefundMatch, Knows, VerifiedIsCaptured, provider, Readers
  <2>6. Step(s, x) BY <1>8 DEF RefundMatch
  <2> QED BY <2>4, <2>5, <2>6, StepKnows DEF Rows
<1>9. CASE RefundWebhook(s)
  <2> DEFINE x == sess[s]
  <2>1. x.seen \in Payment BY <1>9, SessionKinds DEF RefundWebhook, Readers
  <2>2. \E o \in Orders : order[o] = "captured"
    BY <1>9, <2>1 DEF RefundWebhook, SessionsKnow, Knows, Payment, Readers
  <2>3. RefundsKnown' BY <1>9, CompleteMarks DEF RefundWebhook, provider
  <2>4. pay'.paid = pay.paid
    <3>1. CASE Apply(x) BY <2>1, <3>1, PaidKept DEF Apply
    <3>2. CASE UNCHANGED pay BY <3>2
    <3> QED BY <1>9, <3>1, <3>2 DEF RefundWebhook
  <2>5. Lasts BY <1>9 DEF RefundWebhook, provider, Lasts, Lasting
  <2>6. Rows BY <2>2, <2>3, <2>4, <2>5, RowSafe DEF Rows
  <2> QED BY <1>9, <2>6, FinishKnows DEF RefundWebhook, Complete, Rows
<1> QED BY <1>1, <1>3, <1>4, <1>5, <1>6, <1>7, <1>8, <1>9 DEF WebhookStep

LEMMA PaymentInv ==
    ASSUME Inv, NEW s \in Sessions, PaymentStep(s) PROVE Rows /\ SessionsKnow'
<1> USE DEF Inv
<1>1. CASE InitiateLoad(s)
  <2> DEFINE x == [op |-> "initiate", seen |-> pay]
  <2>1. Rows BY <1>1, RowsUnchanged DEF InitiateLoad
  <2>2. Knows(x, order', back')
    BY <1>1 DEF InitiateLoad, Knows, VerifiedIsCaptured, provider, Readers
  <2>3. Step(s, x) BY <1>1 DEF InitiateLoad
  <2> QED BY <2>1, <2>2, <2>3, StepKnows DEF Rows
<1>2. ASSUME NEW o \in Orders, InitiateCommit(s, o) PROVE Rows /\ SessionsKnow'
  <2> DEFINE p == SeenPayment(sess[s])
             new == [status |-> "initiated", order |-> o, paid |-> NoOrder]
  <2>1. pay'.paid \in {pay.paid, NoOrder} /\ pay'.status \in {pay.status, "initiated"}
    <3>1. pay' = WrittenPayment(p, new) BY <1>2 DEF InitiateCommit
    <3> HIDE DEF p
    <3> QED BY <3>1 DEF WrittenPayment, Flush
  <2>2. Lasts BY <1>2 DEF InitiateCommit, TypeOK, Lasts, Lasting
  <2>3. VerifiedIsCaptured' BY <2>1, <2>2, RowSafe
  <2>4. Rows BY <1>2, <2>2, <2>3 DEF InitiateCommit, Rows, RefundsKnown
  <2> QED BY <1>2, <2>4, FinishKnows DEF InitiateCommit, Rows
<1>3. ASSUME NEW o \in Orders, CheckoutFind(s, o) PROVE Rows /\ SessionsKnow'
  <2> DEFINE x == [op |-> "found", via |-> "checkout", order |-> o]
  <2>1. Rows BY <1>3, RowsUnchanged DEF CheckoutFind
  <2>2. Knows(x, order', back') BY DEF Knows, Readers
  <2>3. Step(s, x) BY <1>3 DEF CheckoutFind
  <2> QED BY <2>1, <2>2, <2>3, StepKnows DEF Rows
<1>4. CASE VerifyLoad(s)
  <2> DEFINE x == sess[s]
             y == [op |-> "verify", via |-> x.via, order |-> x.order, seen |-> pay]
  <2>1. CASE Complete(s)
    <3>1. RefundsKnown' BY <1>4, <2>1, CompleteMarks DEF VerifyLoad, provider
    <3>2. Rows
      BY <1>4, <3>1 DEF VerifyLoad, provider, Rows, Lasts, Lasting, VerifiedIsCaptured
    <3> QED BY <2>1, <3>2, FinishKnows DEF Rows, Complete
  <2>2. CASE UNCHANGED inbox /\ Step(s, y)
    <3>1. Rows BY <1>4, <2>2, RowsUnchanged DEF VerifyLoad, local, provider
    <3>2. Knows(y, order', back')
      BY <1>4 DEF VerifyLoad, Knows, VerifiedIsCaptured, provider, Readers
    <3> QED BY <2>2, <3>1, <3>2, StepKnows DEF Rows
  <2> QED BY <1>4, <2>1, <2>2 DEF VerifyLoad
<1>5. CASE VerifyAnswer(s)
  <2> DEFINE x == sess[s]
             ok == Valid(x.order, x.seen.order)
             y == [op |-> "answered", via |-> x.via, order |-> x.order, seen |-> x.seen,
                   ok |-> ok, reg |-> reg]
  <2>1. Rows BY <1>5, RowsUnchanged DEF VerifyAnswer
  <2>2. x.seen.paid # NoOrder => order[x.seen.paid] = "captured"
    BY <1>5 DEF VerifyAnswer, SessionsKnow, Knows, Readers
  <2>3. ok => order[x.order] = "captured" BY DEF Valid
  <2>4. Knows(y, order', back')
    <3> HIDE DEF ok
    <3> QED BY <1>5, <2>2, <2>3 DEF VerifyAnswer, Knows, provider, Readers
  <2>5. Step(s, y) BY <1>5 DEF VerifyAnswer
  <2> QED BY <2>1, <2>4, <2>5, StepKnows DEF Rows
<1>6. CASE VerifyCommit(s)
  <2> DEFINE x == sess[s]
  <2>1. x.seen \in Payment /\ x.order \in Orders
    BY <1>6, SessionKinds DEF VerifyCommit, Readers
  <2>2. order[x.order] = "captured" BY <1>6 DEF VerifyCommit, SessionsKnow, Knows, Readers
  <2>3. pay'.paid \in {pay.paid, x.order}
    BY <1>6, <2>1 DEF VerifyCommit, WrittenPayment, Flush, Payment
  <2>4. Lasts BY <1>6 DEF VerifyCommit, provider, Lasts, Lasting
  <2>5. VerifiedIsCaptured' BY <1>6, <2>1, <2>2, <2>3, <2>4, RowSafe DEF VerifyCommit, provider
  <2>6. RefundsKnown' BY <1>6, CompleteMarks DEF VerifyCommit, provider
  <2>7. Rows BY <2>4, <2>5, <2>6 DEF Rows
  <2> QED BY <1>6, <2>7, FinishKnows DEF VerifyCommit, Complete, Rows
<1>7. CASE VerifyInvalid(s)
  <2> DEFINE x == sess[s]
  <2>1. x.seen \in Payment BY <1>7, SessionKinds DEF VerifyInvalid, Readers
  <2>2. pay'.paid = pay.paid /\ pay'.status \in {pay.status, "failed"}
    BY <1>7, <2>1, PaidKept DEF VerifyInvalid
  <2>3. Lasts BY <1>7 DEF VerifyInvalid, provider, Lasts, Lasting
  <2>4. Rows BY <1>7, <2>2, <2>3, RowSafe DEF VerifyInvalid, provider, Rows, RefundsKnown
  <2> QED BY <1>7, <2>4, FinishKnows DEF VerifyInvalid, Rows
<1>8. CASE ReconcileLoad(s)
  <2> DEFINE x == [op |-> "reconcile", seen |-> pay]
  <2>1. Rows BY <1>8, RowsUnchanged DEF ReconcileLoad
  <2>2. Knows(x, order', back')
    BY <1>8 DEF ReconcileLoad, Knows, VerifiedIsCaptured, provider, Readers
  <2>3. Step(s, x) BY <1>8 DEF ReconcileLoad
  <2> QED BY <2>1, <2>2, <2>3, StepKnows DEF Rows
<1>9. CASE ReconcilePaid(s)
  <2> DEFINE x == [op |-> "found", via |-> "job", order |-> sess[s].seen.order]
  <2>1. Rows BY <1>9, RowsUnchanged DEF ReconcilePaid
  <2>2. Knows(x, order', back') BY DEF Knows, Readers
  <2>3. Step(s, x) BY <1>9 DEF ReconcilePaid
  <2> QED BY <2>1, <2>2, <2>3, StepKnows DEF Rows
<1>10. CASE ReconcileFailed(s)
  <2> DEFINE x == [op |-> "release", seen |-> sess[s].seen, reg |-> reg]
  <2>1. Rows BY <1>10, RowsUnchanged DEF ReconcileFailed
  <2>2. Knows(x, order', back')
    BY <1>10 DEF ReconcileFailed, SessionsKnow, Knows, Readers, provider
  <2>3. Step(s, x) BY <1>10 DEF ReconcileFailed
  <2> QED BY <2>1, <2>2, <2>3, StepKnows DEF Rows
<1>11. CASE ReleaseCommit(s)
  <2> DEFINE x == sess[s]
  <2>1. x.seen \in Payment BY <1>11, SessionKinds DEF ReleaseCommit, Readers
  <2>2. pay'.paid = pay.paid /\ pay'.status \in {pay.status, "failed"}
    BY <1>11, <2>1, PaidKept DEF ReleaseCommit
  <2>3. Lasts BY <1>11 DEF ReleaseCommit, provider, Lasts, Lasting
  <2>4. Rows BY <1>11, <2>2, <2>3, RowSafe DEF ReleaseCommit, provider, Rows, RefundsKnown
  <2> QED BY <1>11, <2>4, FinishKnows DEF ReleaseCommit, Rows
<1> QED
  BY <1>1, <1>2, <1>3, <1>4, <1>5, <1>6, <1>7, <1>8, <1>9, <1>10, <1>11 DEF PaymentStep

LEMMA RefundInv ==
    ASSUME Inv, NEW s \in Sessions, RefundStep(s) PROVE Rows /\ SessionsKnow'
<1> USE DEF Inv
<1>1. ASSUME NEW r \in Refs, ApproveLoad(s, r) PROVE Rows /\ SessionsKnow'
  <2> DEFINE x == [op |-> "approve", ref |-> r, row |-> rf[r], seen |-> pay, reg |-> reg]
  <2>1. Rows BY <1>1, RowsUnchanged DEF ApproveLoad
  <2>2. Knows(x, order', back')
    BY <1>1 DEF ApproveLoad, Knows, VerifiedIsCaptured, provider, Readers
  <2>3. Step(s, x) BY <1>1 DEF ApproveLoad
  <2> QED BY <2>1, <2>2, <2>3, StepKnows DEF Rows
<1>2. ASSUME NEW r \in Refs, SettleLoad(s, r) PROVE Rows /\ SessionsKnow'
  <2> DEFINE x == [op |-> "settle", ref |-> r, row |-> rf[r], seen |-> pay]
  <2>1. Rows BY <1>2, RowsUnchanged DEF SettleLoad
  <2>2. Knows(x, order', back')
    BY <1>2 DEF SettleLoad, Knows, VerifiedIsCaptured, provider, Readers
  <2>3. Step(s, x) BY <1>2 DEF SettleLoad
  <2> QED BY <2>1, <2>2, <2>3, StepKnows DEF Rows
<1>3. ASSUME NEW g \in Gids, ApproveAsk(s, g) PROVE Rows /\ SessionsKnow'
  <2> DEFINE x == sess[s]
             y == [op |-> "asked", ref |-> x.ref, row |-> x.row, seen |-> x.seen,
                   reg |-> x.reg, gid |-> g]
  <2>1. x.seen.paid # NoOrder /\ order[x.seen.paid] = "captured"
    BY <1>3 DEF ApproveAsk, SessionsKnow, Knows, Readers
  <2>2. PICK st \in {"pending", "processed"} :
            back' = [back EXCEPT ![g] = [status |-> st, amount |-> x.row.amount, of |-> x.seen.paid]]
    BY <1>3 DEF ApproveAsk, Accept
  <2>3. \A h \in Gids : back'[h].status # "none" => back'[h].of # NoOrder
    BY <2>1, <2>2 DEF TypeOK, RefundsKnown
  <2>4. \A h \in Gids : back[h].status # "none" => back'[h].status # "none"
    BY <2>2 DEF TypeOK
  <2>5. \A e \in RefundEvent : e.of \in Gids BY DEF RefundEvent
  <2>6. Rows
    BY <1>3, <2>3, <2>4, <2>5
    DEF ApproveAsk, local, Rows, Lasts, Lasting, VerifiedIsCaptured, RefundsKnown
  <2>7. Knows(y, order', back') BY <1>3, <2>1 DEF ApproveAsk, Knows, Readers
  <2>8. Step(s, y) BY <1>3 DEF ApproveAsk
  <2> QED BY <2>6, <2>7, <2>8, StepKnows DEF Rows
<1>4. CASE ApproveCommit(s)
  <2> DEFINE x == sess[s]
  <2>1. x.seen \in Payment BY <1>4, SessionKinds DEF ApproveCommit, Readers
  <2>2. \E o \in Orders : order[o] = "captured"
    BY <1>4, <2>1 DEF ApproveCommit, SessionsKnow, Knows, Payment, Readers
  <2>3. pay'.paid = pay.paid BY <1>4, <2>1, PaidKept DEF ApproveCommit, Apply
  <2>4. Lasts BY <1>4 DEF ApproveCommit, provider, Lasts, Lasting
  <2>5. Rows BY <1>4, <2>2, <2>3, <2>4, RowSafe DEF ApproveCommit, provider, Rows, RefundsKnown
  <2> QED BY <1>4, <2>5, FinishKnows DEF ApproveCommit, Rows
<1>5. CASE ApproveFails(s)
  <2>1. Rows
    BY <1>5 DEF ApproveFails, provider, Rows, Lasts, Lasting, VerifiedIsCaptured, RefundsKnown
  <2> QED BY <1>5, <2>1, FinishKnows DEF ApproveFails, Rows
<1>6. CASE SettleCommit(s)
  <2> DEFINE x == sess[s]
             b == back[x.row.gid]
             now == [op |-> "settle", seen |-> x.seen, reg |-> reg]
  <2>1. x.seen \in Payment /\ x.row \in Refund BY <1>6, SessionKinds DEF SettleCommit, Readers
  <2>2. \E o \in Orders : order[o] = "captured"
    <3>1. x.row.gid \in Gids
      BY <1>6, <2>1 DEF SettleCommit, SessionsKnow, Knows, Refund, Readers
    <3>2. b.of # NoOrder BY <1>6, <3>1 DEF SettleCommit, RefundsKnown
    <3>3. x.seen.paid # NoOrder BY <1>6, <3>2 DEF SettleCommit
    <3>4. order[x.seen.paid] = "captured"
      BY <1>6, <3>3 DEF SettleCommit, SessionsKnow, Knows, Readers
    <3> QED BY <2>1, <3>3, <3>4 DEF Payment
  <2>3. pay'.paid = pay.paid
    <3>1. CASE Apply(now)
      <4>1. now.seen = x.seen OBVIOUS
      <4> QED BY <2>1, <3>1, <4>1, PaidKept DEF Apply
    <3>2. CASE UNCHANGED pay BY <3>2
    <3> QED BY <1>6, <3>1, <3>2 DEF SettleCommit
  <2>4. Lasts BY <1>6 DEF SettleCommit, provider, Lasts, Lasting
  <2>5. Rows BY <1>6, <2>2, <2>3, <2>4, RowSafe DEF SettleCommit, provider, Rows, RefundsKnown
  <2> QED BY <1>6, <2>5, FinishKnows DEF SettleCommit, Rows
<1> QED BY <1>1, <1>2, <1>3, <1>4, <1>5, <1>6 DEF RefundStep

LEMMA RegistrationInv ==
    ASSUME Inv, NEW s \in Sessions, RegistrationStep(s) PROVE Rows /\ SessionsKnow'
<1> USE DEF Inv
<1>1. CASE CancelLoad(s)
  <2> DEFINE x == [op |-> "cancel", seen |-> pay, reg |-> reg]
  <2>1. Rows BY <1>1, RowsUnchanged DEF CancelLoad
  <2>2. Knows(x, order', back') BY <1>1 DEF CancelLoad, Knows, VerifiedIsCaptured, provider, Readers
  <2>3. Step(s, x) BY <1>1 DEF CancelLoad
  <2> QED BY <2>1, <2>2, <2>3, StepKnows DEF Rows
<1>2. CASE CancelUnpaid(s)
  <2> DEFINE p == SeenPayment(sess[s])
             st == IF p.status = "initiated" THEN "failed" ELSE p.status
  <2>1. p \in Payment BY <1>2, SeenPaymentType DEF CancelUnpaid, Readers
  <2>2. pay' = WrittenPayment(p, [p EXCEPT !.status = st]) BY <1>2 DEF CancelUnpaid
  <2>3. pay'.paid = pay.paid /\ pay'.status \in {pay.status, "failed"}
    <3> HIDE DEF p
    <3> QED BY <2>1, <2>2 DEF WrittenPayment, Flush, Payment
  <2>4. Lasts BY <1>2 DEF CancelUnpaid, provider, Lasts, Lasting
  <2>5. Rows BY <1>2, <2>3, <2>4, RowSafe DEF CancelUnpaid, provider, Rows, RefundsKnown
  <2> QED BY <1>2, <2>5, FinishKnows DEF CancelUnpaid, Rows
<1>3. ASSUME NEW r \in Refs, CancelPaid(s, r) PROVE Rows /\ SessionsKnow'
  <2>1. Rows
    BY <1>3 DEF CancelPaid, provider, Rows, Lasts, Lasting, VerifiedIsCaptured, RefundsKnown
  <2> QED BY <1>3, <2>1, FinishKnows DEF CancelPaid, Rows
<1>4. CASE CheckInLoad(s)
  <2> DEFINE x == [op |-> "checkin", reg |-> reg]
  <2>1. Rows BY <1>4, RowsUnchanged DEF CheckInLoad
  <2>2. Knows(x, order', back') BY DEF Knows, Readers
  <2>3. Step(s, x) BY <1>4 DEF CheckInLoad
  <2> QED BY <2>1, <2>2, <2>3, StepKnows DEF Rows
<1>5. CASE CheckInCommit(s)
  <2>1. Rows
    BY <1>5 DEF CheckInCommit, provider, Rows, Lasts, Lasting, VerifiedIsCaptured, RefundsKnown
  <2> QED BY <1>5, <2>1, FinishKnows DEF CheckInCommit, Rows
<1> QED BY <1>1, <1>2, <1>3, <1>4, <1>5 DEF RegistrationStep

LEMMA NextInv == Inv /\ [Next]_vars => Inv'
<1> USE DEF Inv
<1> SUFFICES ASSUME Inv, [Next]_vars PROVE Rows /\ SessionsKnow'
  BY NextType DEF Rows
<1>1. CASE ProviderStep BY <1>1, ProviderInv
<1>2. ASSUME NEW r \in Refs, NEW a \in Parts, RequestRefund(r, a) PROVE Rows /\ SessionsKnow'
  <2>1. Rows
    BY <1>2 DEF RequestRefund, provider, Rows, Lasts, Lasting, VerifiedIsCaptured, RefundsKnown
  <2> QED BY <1>2, <2>1, NobodyMoves DEF RequestRefund, Rows
<1>3. ASSUME NEW s \in Sessions, Abort(s) PROVE Rows /\ SessionsKnow'
  <2>1. Rows BY <1>3, RowsUnchanged DEF Abort
  <2> QED BY <1>3, <2>1, FinishKnows DEF Abort, Rows
<1>4. CASE UNCHANGED vars
  <2>1. Rows BY <1>4, RowsUnchanged DEF vars, local, provider
  <2> QED BY <1>4, <2>1, NobodyMoves DEF vars, Rows
<1> QED BY <1>1, <1>2, <1>3, <1>4, WebhookInv, PaymentInv, RefundInv, RegistrationInv DEF Next

\* A payment is verified or refunded only when the provider has captured money
\* for it, and names a captured payment if it names one, whichever of checkout,
\* webhook and reconciliation verified it and whatever orders were created.
THEOREM VerifiedAreCaptured == Spec => []VerifiedIsCaptured
<1>1. Inv => VerifiedIsCaptured BY DEF Inv
<1> QED BY <1>1, InitInv, NextInv, PTL DEF Spec

(***************************************************************************)
(* Refunds.  A request decides about a refund and its ticket by the copies *)
(* it holds; the invariant says what of a copy stays true of the row,      *)
(* because no write takes it back: that a ticket was issued for the        *)
(* payment, that the refund exists and for how much, and that the provider *)
(* knows it.                                                               *)
(***************************************************************************)

\* The operations that hold a copy of a refund.
Refunders == {"matched", "approve", "asked", "settle"}

Trusts(x, t, p, f, b) ==
    /\ x.op \in Readers /\ x.seen.paid # NoOrder => t # "none"
    /\ x.op = "checkin" => p.status # "refunded"
    /\ x.op \in Refunders => /\ f[x.ref].status # "none"
                             /\ f[x.ref].amount = x.row.amount
                             /\ x.row.gid # NoGid => f[x.ref].gid # NoGid
    /\ x.op = "asked" => b[x.gid].status # "none" /\ b[x.gid].amount = x.row.amount
    /\ x.op = "matched" => b[x.on.of].amount = x.row.amount
SessionsTrust == \A s \in Sessions : Trusts(sess[s], ticket, pay, rf, back)

\* A payment id stands for a payment that a ticket was issued for.
Issued == pay.paid # NoOrder => ticket # "none"

\* The refunds are numbered in the order they were made.
Numbered == \E n \in 0 .. MaxRefunds : CreatedRefs = 1 .. n

\* The provider has the refund of a row's id, of the row's amount.
RowBacked(r) ==
    /\ rf[r].gid # NoGid => /\ back[rf[r].gid].status # "none"
                            /\ back[rf[r].gid].amount = rf[r].amount
    /\ rf[r].status = "processed" => rf[r].gid # NoGid
RowsBacked == \A r \in Refs : RowBacked(r)

RefundInvariant ==
    /\ Inv
    /\ SessionsTrust
    /\ Issued
    /\ RefundCancelsTicket
    /\ Numbered
    /\ RowsBacked

(* What no step takes back.                                                *)

\* A new refund gets a row that no refund had.
LEMMA NewRefundIsFresh ==
    ASSUME Numbered, NEW r \in Refs, NEW a, NewRefund(r, a)
    PROVE  rf[r].status = "none" /\ CreatedRefs = 1 .. (r - 1)
<1>1. PICK n \in 0 .. MaxRefunds : CreatedRefs = 1 .. n BY DEF Numbered
<1>2. Cardinality(1 .. n) = n BY FS_Interval
<1>3. r = n + 1 BY <1>1, <1>2 DEF NewRefund
<1>4. r \notin CreatedRefs BY <1>1, <1>3 DEF Refs
<1> QED BY <1>1, <1>3, <1>4 DEF CreatedRefs

\* A request that decides about its refund has seen the refund, and names one
\* at the provider only if that is of its amount.
Decides(s, st, g) ==
    LET x == sess[s] IN
    /\ x.op \in Refunders
    /\ rf' = WrittenRefund(x.ref, x.row, [x.row EXCEPT !.status = st, !.gid = g])
    /\ g # x.row.gid => /\ g # NoGid
                        /\ back[g].status # "none" /\ back[g].amount = x.row.amount
    /\ st = "processed" => g # NoGid
    /\ UNCHANGED back

RefundWritten ==
    \/ UNCHANGED rf
    \/ \E r \in Refs, a \in 0 .. Amount : NewRefund(r, a) /\ UNCHANGED back
    \/ \E s \in Sessions, st \in RefundStatus \ {"none"}, g \in Gids \cup {NoGid} :
          Decides(s, st, g)

\* The event a request has matched with a refund is about a refund at the provider.
LEMMA MatchedEvent ==
    ASSUME RefundInvariant, NEW s \in Sessions, sess[s].op = "matched"
    PROVE  LET x == sess[s] IN
           /\ x.on.of \in Gids /\ x.on.kind \in RefundKinds
           /\ back[x.on.of].status # "none" /\ back[x.on.of].amount = x.row.amount
<1>1. TypeOK /\ Knows(sess[s], order, back) /\ Trusts(sess[s], ticket, pay, rf, back)
  BY DEF RefundInvariant, Inv, SessionsKnow, SessionsTrust
<1>2. sess[s].on \in RefundEvent BY <1>1, SessionKinds
<1> QED BY <1>1, <1>2 DEF RefundEvent, Knows, Trusts

LEMMA RefundWrites == RefundInvariant /\ [Next]_vars => RefundWritten
<1> SUFFICES ASSUME RefundInvariant, [Next]_vars PROVE RefundWritten OBVIOUS
<1>0. TypeOK /\ SessionsTrust /\ SessionsKnow BY DEF RefundInvariant, Inv
<1>1. CASE ProviderStep
  BY <1>1 DEF ProviderStep, AttemptFails, Authorize, Capture, SettleRefund, local, RefundWritten
<1>2. ASSUME NEW r \in Refs, NEW a \in Parts, RequestRefund(r, a) PROVE RefundWritten
  BY <1>2 DEF RequestRefund, provider, RefundWritten
<1>3. ASSUME NEW s \in Sessions, WebhookStep(s) PROVE RefundWritten
  <2> DEFINE x == sess[s]
             st == StatusAfter(x.row.status, x.on.kind)
  <2>1. CASE RefundWebhook(s)
    <3>1. x.op = "matched" BY <2>1 DEF RefundWebhook
    <3>2. x.row \in Refund BY <1>0, <3>1, SessionKinds
    <3>3. x.on.of \in Gids /\ x.on.kind \in RefundKinds BY <3>1, MatchedEvent
    <3>4. st \in RefundStatus \ {"none"}
      BY <3>2, <3>3 DEF StatusAfter, RefundKinds, Refund, RefundStatus
    <3>5. Decides(s, st, x.on.of)
      BY <2>1, <3>1, <3>3, MatchedEvent DEF RefundWebhook, Decides, Refunders, provider
    <3> QED BY <3>3, <3>4, <3>5 DEF RefundWritten
  <2>2. CASE UNCHANGED rf BY <2>2 DEF RefundWritten
  <2> QED
    BY <1>3, <2>1, <2>2
    DEF WebhookStep, WebhookInsert, WebhookAgain, RetryLoad, WebhookMark, WebhookFails,
        WebhookFind, RefundMatch, local
<1>4. ASSUME NEW s \in Sessions, PaymentStep(s) PROVE RefundWritten
  BY <1>4
  DEF PaymentStep, InitiateLoad, InitiateCommit, CheckoutFind, VerifyLoad, VerifyAnswer,
      VerifyCommit, VerifyInvalid, ReconcileLoad, ReconcilePaid, ReconcileFailed, ReleaseCommit,
      local, RefundWritten
<1>5. ASSUME NEW s \in Sessions, RefundStep(s) PROVE RefundWritten
  <2> DEFINE x == sess[s]
  <2>1. CASE ApproveCommit(s)
    <3>1. x.op = "asked" BY <2>1 DEF ApproveCommit
    <3>2. x.gid \in Gids BY <1>0, <3>1, SessionKinds
    <3>3. back[x.gid].status # "none" /\ back[x.gid].amount = x.row.amount
      BY <1>0, <3>1 DEF SessionsTrust, Trusts
    <3>4. Decides(s, "processed", x.gid)
      BY <2>1, <3>1, <3>2, <3>3 DEF ApproveCommit, Decides, Refunders, provider
    <3> QED BY <3>2, <3>4 DEF RefundWritten, RefundStatus
  <2>2. CASE ApproveFails(s)
    <3>1. x.row \in Refund BY <1>0, <2>2, SessionKinds DEF ApproveFails
    <3>2. [x.row EXCEPT !.status = "failed"] = [x.row EXCEPT !.status = "failed", !.gid = x.row.gid]
      BY <3>1 DEF Refund
    <3>3. Decides(s, "failed", x.row.gid)
      BY <2>2, <3>2 DEF ApproveFails, Decides, Refunders, provider
    <3> QED BY <3>1, <3>3 DEF RefundWritten, RefundStatus, Refund
  <2>3. CASE SettleCommit(s)
    <3> DEFINE st == back[x.row.gid].status
    <3>1. x.op = "settle" /\ st \in {"processed", "failed"} BY <2>3 DEF SettleCommit
    <3>2. x.row \in Refund BY <1>0, <3>1, SessionKinds
    <3>3. [x.row EXCEPT !.status = st] = [x.row EXCEPT !.status = st, !.gid = x.row.gid]
      BY <3>2 DEF Refund
    <3>4. x.row.gid # NoGid BY <1>0, <3>1 DEF SessionsKnow, Knows
    <3>5. Decides(s, st, x.row.gid)
      BY <2>3, <3>1, <3>3, <3>4 DEF SettleCommit, Decides, Refunders, provider
    <3> QED BY <3>1, <3>2, <3>5 DEF RefundWritten, RefundStatus, Refund
  <2>4. CASE UNCHANGED rf BY <2>4 DEF RefundWritten
  <2> QED
    BY <1>5, <2>1, <2>2, <2>3, <2>4 DEF RefundStep, ApproveLoad, SettleLoad, ApproveAsk, local
<1>6. ASSUME NEW s \in Sessions, RegistrationStep(s) PROVE RefundWritten
  <2>1. ASSUME NEW r \in Refs, CancelPaid(s, r) PROVE RefundWritten
    BY <2>1 DEF CancelPaid, provider, RefundWritten
  <2>2. CASE UNCHANGED rf BY <2>2 DEF RefundWritten
  <2> QED
    BY <1>6, <2>1, <2>2
    DEF RegistrationStep, CancelLoad, CancelUnpaid, CheckInLoad, CheckInCommit, local
<1>7. ASSUME NEW s \in Sessions, Abort(s) PROVE RefundWritten
  BY <1>7 DEF Abort, local, RefundWritten
<1>8. CASE UNCHANGED vars BY <1>8 DEF vars, RefundWritten
<1> QED BY <1>1, <1>2, <1>3, <1>4, <1>5, <1>6, <1>7, <1>8 DEF Next

BackLasts ==
    \A g \in Gids : back[g].status # "none" =>
        back'[g].status # "none" /\ back'[g].amount = back[g].amount
RefundsLast ==
    \A r \in Refs : rf[r].status # "none" =>
        /\ rf'[r].status # "none" /\ rf'[r].amount = rf[r].amount
        /\ rf[r].gid # NoGid => rf'[r].gid # NoGid

\* The provider forgets no refund and changes the amount of none.
LEMMA ProviderKeepsRefunds == TypeOK /\ [Next]_vars => BackLasts
<1> SUFFICES ASSUME TypeOK, [Next]_vars PROVE BackLasts OBVIOUS
<1>1. CASE UNCHANGED back BY <1>1 DEF BackLasts
<1>2. ASSUME NEW g \in Gids, NEW st \in {"processed", "failed"}, SettleRefund(g, st)
      PROVE  BackLasts
  BY <1>2 DEF SettleRefund, TypeOK, ProviderRefund, BackLasts
<1>3. ASSUME NEW s \in Sessions, NEW g \in Gids, ApproveAsk(s, g) PROVE BackLasts
  BY <1>3 DEF ApproveAsk, Accept, TypeOK, BackLasts
<1>4. CASE ProviderStep
  BY <1>1, <1>2, <1>4 DEF ProviderStep, AttemptFails, Authorize, Capture
<1>5. ASSUME NEW r \in Refs, NEW a \in Parts, RequestRefund(r, a) PROVE BackLasts
  BY <1>1, <1>5 DEF RequestRefund, provider
<1>6. ASSUME NEW s \in Sessions, WebhookStep(s) PROVE BackLasts
  BY <1>1, <1>6
  DEF WebhookStep, WebhookInsert, WebhookAgain, RetryLoad, WebhookMark, WebhookFails,
      WebhookFind, RefundMatch, RefundWebhook, provider
<1>7. ASSUME NEW s \in Sessions, PaymentStep(s) PROVE BackLasts
  BY <1>1, <1>7
  DEF PaymentStep, InitiateLoad, InitiateCommit, CheckoutFind, VerifyLoad, VerifyAnswer,
      VerifyCommit, VerifyInvalid, ReconcileLoad, ReconcilePaid, ReconcileFailed, ReleaseCommit,
      provider
<1>8. ASSUME NEW s \in Sessions, RefundStep(s) PROVE BackLasts
  BY <1>1, <1>3, <1>8
  DEF RefundStep, ApproveLoad, SettleLoad, ApproveCommit, ApproveFails, SettleCommit, provider
<1>9. ASSUME NEW s \in Sessions, RegistrationStep(s) PROVE BackLasts
  BY <1>1, <1>9
  DEF RegistrationStep, CancelLoad, CancelUnpaid, CancelPaid, CheckInLoad, CheckInCommit, provider
<1>10. ASSUME NEW s \in Sessions, Abort(s) PROVE BackLasts
  BY <1>1, <1>10 DEF Abort, provider
<1>11. CASE UNCHANGED vars BY <1>1, <1>11 DEF vars
<1> QED BY <1>4, <1>5, <1>6, <1>7, <1>8, <1>9, <1>10, <1>11 DEF Next

\* What a decision about a refund makes of its row.
LEMMA DecisionKeeps ==
    ASSUME RefundInvariant, NEW s \in Sessions, NEW st \in RefundStatus \ {"none"},
           NEW g \in Gids \cup {NoGid}, Decides(s, st, g)
    PROVE  LET q == sess[s].ref IN
           /\ q \in Refs /\ rf[q].status # "none"
           /\ rf'[q].status \in {rf[q].status, st} \ {"none"}
           /\ sess[s].row.status = st => rf'[q].status = rf[q].status
           /\ rf'[q].amount = rf[q].amount
           /\ \/ rf'[q].gid = rf[q].gid
              \/ /\ rf'[q].gid = g /\ g # NoGid
                 /\ back[g].status # "none" /\ back[g].amount = rf[q].amount
           /\ rf[q].gid # NoGid => rf'[q].gid # NoGid
           /\ st = "processed" => rf'[q].gid # NoGid
           /\ \A r \in Refs \ {q} : rf'[r] = rf[r]
<1> DEFINE x == sess[s]
<1>1. TypeOK /\ Trusts(x, ticket, pay, rf, back) BY DEF RefundInvariant, Inv, SessionsTrust
<1>2. x.op \in Refunders /\ x.ref \in Refs /\ x.row \in Refund
  BY <1>1, SessionKinds DEF Decides, Refunders
<1>3. /\ rf[x.ref].status # "none" /\ rf[x.ref].amount = x.row.amount
      /\ x.row.gid # NoGid => rf[x.ref].gid # NoGid
  BY <1>1, <1>2 DEF Trusts
<1>4. /\ rf' = WrittenRefund(x.ref, x.row, [x.row EXCEPT !.status = st, !.gid = g])
      /\ g # x.row.gid => /\ g # NoGid
                          /\ back[g].status # "none" /\ back[g].amount = x.row.amount
      /\ st = "processed" => g # NoGid
  BY DEF Decides
<1>5. x.row.gid # NoGid => rf[x.ref].gid # NoGid /\ g # NoGid BY <1>3, <1>4
<1> HIDE DEF x
<1>6. /\ rf'[x.ref].status \in {rf[x.ref].status, st} \ {"none"}
      /\ x.row.status = st => rf'[x.ref].status = rf[x.ref].status
      /\ rf'[x.ref].amount = rf[x.ref].amount
      /\ rf'[x.ref].gid = rf[x.ref].gid \/ (g # x.row.gid /\ rf'[x.ref].gid = g)
      /\ rf[x.ref].gid # NoGid => rf'[x.ref].gid # NoGid
      /\ g # NoGid => rf'[x.ref].gid # NoGid
      /\ \A r \in Refs \ {x.ref} : rf'[r] = rf[r]
  BY <1>1, <1>2, <1>3, <1>4, <1>5 DEF WrittenRefund, Flush, Refund, TypeOK
<1> QED BY <1>2, <1>3, <1>4, <1>6 DEF x

\* The rows of refunds last, stay numbered, and are backed by the provider's.
LEMMA RefundRowsHold ==
    ASSUME RefundInvariant, [Next]_vars
    PROVE  RefundsLast /\ Numbered' /\ RowsBacked'
<1>0. TypeOK /\ TypeOK' /\ BackLasts
  BY NextType, ProviderKeepsRefunds DEF RefundInvariant, Inv
<1>1. CASE UNCHANGED rf
  <2>1. \A r \in Refs : rf[r].gid # NoGid => rf[r].gid \in Gids BY <1>0 DEF TypeOK, Refund
  <2>2. RowsBacked'
    BY <1>0, <1>1, <2>1 DEF RowsBacked, RowBacked, BackLasts, RefundInvariant
  <2> QED BY <1>1, <2>2 DEF RefundsLast, Numbered, CreatedRefs, RefundInvariant
<1>2. ASSUME NEW r \in Refs, NEW a \in 0 .. Amount, NewRefund(r, a), UNCHANGED back
      PROVE  RefundsLast /\ Numbered' /\ RowsBacked'
  <2>1. rf[r].status = "none" /\ CreatedRefs = 1 .. (r - 1)
    BY <1>2, NewRefundIsFresh DEF RefundInvariant
  <2>2. /\ rf'[r] = [status |-> "pending", amount |-> a, gid |-> NoGid]
        /\ \A q \in Refs \ {r} : rf'[q] = rf[q]
    BY <1>0, <1>2 DEF NewRefund, TypeOK
  <2>3. RefundsLast BY <2>1, <2>2 DEF RefundsLast
  <2>4. CreatedRefs' = CreatedRefs \cup {r} BY <2>2 DEF CreatedRefs
  <2>5. CreatedRefs' = 1 .. r BY <2>1, <2>4 DEF Refs
  <2>6. RowsBacked' BY <1>2, <2>2 DEF RowsBacked, RowBacked, RefundInvariant
  <2> QED BY <2>3, <2>5, <2>6 DEF Numbered, Refs
<1>3. ASSUME NEW s \in Sessions, NEW st \in RefundStatus \ {"none"},
             NEW g \in Gids \cup {NoGid}, Decides(s, st, g)
      PROVE  RefundsLast /\ Numbered' /\ RowsBacked'
  <2> DEFINE q == sess[s].ref
  <2>1. /\ q \in Refs /\ rf[q].status # "none"
        /\ rf'[q].status \in {rf[q].status, st} \ {"none"}
        /\ rf'[q].amount = rf[q].amount
        /\ \/ rf'[q].gid = rf[q].gid
           \/ /\ rf'[q].gid = g /\ g # NoGid
              /\ back[g].status # "none" /\ back[g].amount = rf[q].amount
        /\ rf[q].gid # NoGid => rf'[q].gid # NoGid
        /\ st = "processed" => rf'[q].gid # NoGid
        /\ \A r \in Refs \ {q} : rf'[r] = rf[r]
    BY <1>3, DecisionKeeps
  <2>2. UNCHANGED back BY <1>3 DEF Decides
  <2> HIDE DEF q
  <2>3. RefundsLast BY <2>1 DEF RefundsLast
  <2>4. CreatedRefs' = CreatedRefs BY <2>1 DEF CreatedRefs
  <2>5. RowsBacked' BY <2>1, <2>2 DEF RowsBacked, RowBacked, RefundInvariant
  <2> QED BY <2>3, <2>4, <2>5 DEF Numbered, RefundInvariant
<1> QED BY <1>1, <1>2, <1>3, RefundWrites DEF RefundWritten

(* The ticket of a refunded payment.                                       *)

\* A ticket that was issued stays, a payment id has one, and a payment becomes
\* refunded only together with its ticket's cancellation, which only a check-in
\* that has read the ticket takes back.
TicketHolds ==
    /\ ticket # "none" => ticket' # "none"
    /\ Issued'
    /\ pay'.status = "refunded" => \/ pay.status = "refunded"
                                   \/ TicketRowFree /\ ticket' = "cancelled"
    /\ ticket = "cancelled" => ticket' = "cancelled" \/ ~TicketRowFree

LEMMA TicketUnchanged ==
    ASSUME RefundInvariant, UNCHANGED <<pay, ticket>> PROVE TicketHolds
BY DEF RefundInvariant, TicketHolds, Issued

\* A copy with a payment id says that a ticket was issued.
LEMMA SeenIssued ==
    ASSUME RefundInvariant, NEW s \in Sessions, sess[s].op \in Readers,
           sess[s].seen.paid # NoOrder
    PROVE  ticket # "none"
BY DEF RefundInvariant, SessionsTrust, Trusts

LEMMA ApplyHolds ==
    ASSUME RefundInvariant, NEW x, x.seen \in Payment, ticket # "none", Apply(x)
    PROVE  TicketHolds
<1> DEFINE full == Counted(rf') >= Amount
           st == IF full THEN "refunded" ELSE "verified"
<1>1. pay' = WrittenPayment(x.seen, [x.seen EXCEPT !.status = st]) BY DEF Apply
<1>2. pay'.paid = pay.paid /\ pay'.status \in {pay.status, st} BY <1>1, PaidKept
<1>3. ticket' = TicketAfter(full) BY DEF Apply
<1>4. full => TicketRowFree BY DEF Apply
<1> HIDE DEF full
<1> QED BY <1>2, <1>3, <1>4 DEF TicketAfter, TicketHolds, Issued

LEMMA TicketSteps == RefundInvariant /\ [Next]_vars => TicketHolds
<1> SUFFICES ASSUME RefundInvariant, [Next]_vars PROVE TicketHolds OBVIOUS
<1>0. TypeOK /\ SessionsTrust /\ SessionsKnow /\ Issued /\ RefundsKnown
  BY DEF RefundInvariant, Inv
<1>1. CASE UNCHANGED <<pay, ticket>> BY <1>1, TicketUnchanged
<1>2. ASSUME NEW s \in Sessions, WebhookStep(s) PROVE TicketHolds
  <2>1. CASE RefundWebhook(s)
    <3>1. CASE Apply(sess[s])
      <4>1. sess[s].op = "matched" BY <2>1 DEF RefundWebhook
      <4>2. sess[s].seen \in Payment /\ sess[s].seen.paid # NoOrder
        BY <1>0, <4>1, SessionKinds DEF Readers, SessionsKnow, Knows
      <4>3. ticket # "none" BY <4>1, <4>2, SeenIssued DEF Readers
      <4> QED BY <3>1, <4>2, <4>3, ApplyHolds
    <3> QED BY <1>1, <2>1, <3>1 DEF RefundWebhook
  <2> QED
    BY <1>1, <1>2, <2>1
    DEF WebhookStep, WebhookInsert, WebhookAgain, RetryLoad, WebhookMark, WebhookFails,
        WebhookFind, RefundMatch, local
<1>3. ASSUME NEW s \in Sessions, PaymentStep(s) PROVE TicketHolds
  <2> DEFINE x == sess[s]
  <2>1. ASSUME NEW o \in Orders, InitiateCommit(s, o) PROVE TicketHolds
    <3> DEFINE p == SeenPayment(x)
    <3>1. pay' = WrittenPayment(p, [status |-> "initiated", order |-> o, paid |-> NoOrder])
          /\ UNCHANGED ticket
      BY <2>1 DEF InitiateCommit
    <3> HIDE DEF p
    <3> QED BY <1>0, <3>1 DEF WrittenPayment, Flush, TicketHolds, Issued
  <2>2. CASE VerifyCommit(s)
    <3>1. x.seen \in Payment BY <1>0, <2>2, SessionKinds DEF VerifyCommit, Readers
    <3>2. pay'.status \in {pay.status, "verified"}
      BY <2>2, <3>1 DEF VerifyCommit, WrittenPayment, Flush, Payment
    <3> QED BY <2>2, <3>2 DEF VerifyCommit, TicketHolds, Issued
  <2>3. CASE VerifyInvalid(s) \/ ReleaseCommit(s)
    <3>1. x.seen \in Payment BY <1>0, <2>3, SessionKinds DEF VerifyInvalid, ReleaseCommit, Readers
    <3>2. pay'.paid = pay.paid /\ pay'.status \in {pay.status, "failed"} /\ UNCHANGED ticket
      BY <2>3, <3>1, PaidKept DEF VerifyInvalid, ReleaseCommit
    <3> QED BY <1>0, <3>2 DEF TicketHolds, Issued
  <2> QED
    BY <1>1, <1>3, <2>1, <2>2, <2>3
    DEF PaymentStep, InitiateLoad, CheckoutFind, VerifyLoad, VerifyAnswer,
        ReconcileLoad, ReconcilePaid, ReconcileFailed, local
<1>4. ASSUME NEW s \in Sessions, RefundStep(s) PROVE TicketHolds
  <2> DEFINE x == sess[s]
  <2>1. CASE ApproveCommit(s)
    <3>1. x.op = "asked" BY <2>1 DEF ApproveCommit
    <3>2. x.seen \in Payment /\ x.seen.paid # NoOrder
      BY <1>0, <3>1, SessionKinds DEF Readers, SessionsKnow, Knows
    <3>3. ticket # "none" BY <3>1, <3>2, SeenIssued DEF Readers
    <3> QED BY <2>1, <3>2, <3>3, ApplyHolds DEF ApproveCommit
  <2>2. CASE SettleCommit(s)
    <3> DEFINE b == back[x.row.gid]
               now == [op |-> "settle", seen |-> x.seen, reg |-> reg]
    <3>1. x.op = "settle" BY <2>2 DEF SettleCommit
    <3>2. x.seen \in Payment /\ x.row.gid \in Gids
      BY <1>0, <3>1, SessionKinds DEF Readers, SessionsKnow, Knows, Refund
    <3>3. x.seen.paid # NoOrder BY <1>0, <2>2, <3>2 DEF SettleCommit, RefundsKnown
    <3>4. ticket # "none" BY <3>1, <3>3, SeenIssued DEF Readers
    <3>5. CASE Apply(now)
      <4>1. now.seen \in Payment BY <3>2
      <4> QED BY <3>4, <3>5, <4>1, ApplyHolds
    <3> QED BY <1>1, <2>2, <3>5 DEF SettleCommit
  <2> QED
    BY <1>1, <1>4, <2>1, <2>2 DEF RefundStep, ApproveLoad, SettleLoad, ApproveAsk, ApproveFails, local
<1>5. ASSUME NEW s \in Sessions, RegistrationStep(s) PROVE TicketHolds
  <2>1. CASE CancelUnpaid(s)
    <3> DEFINE p == SeenPayment(sess[s])
               st == IF p.status = "initiated" THEN "failed" ELSE p.status
    <3>1. p \in Payment BY <1>0, <2>1, SeenPaymentType DEF CancelUnpaid, Readers
    <3>2. pay' = WrittenPayment(p, [p EXCEPT !.status = st]) /\ ticket' = TicketAfter(TRUE)
      BY <2>1 DEF CancelUnpaid
    <3>3. pay'.paid = pay.paid /\ pay'.status \in {pay.status, "failed"}
      <4> HIDE DEF p
      <4> QED BY <3>1, <3>2 DEF WrittenPayment, Flush, Payment
    <3> QED BY <1>0, <3>2, <3>3 DEF TicketAfter, TicketHolds, Issued
  <2>2. CASE CheckInCommit(s)
    BY <1>0, <2>2 DEF CheckInCommit, TicketRowFree, LockFree, TicketHolds, Issued
  <2> QED
    BY <1>1, <1>5, <2>1, <2>2 DEF RegistrationStep, CancelLoad, CancelPaid, CheckInLoad, local
<1>6. CASE ProviderStep
  BY <1>1, <1>6 DEF ProviderStep, AttemptFails, Authorize, Capture, SettleRefund, local
<1>7. ASSUME NEW r \in Refs, NEW a \in Parts, RequestRefund(r, a) PROVE TicketHolds
  BY <1>1, <1>7 DEF RequestRefund
<1>8. ASSUME NEW s \in Sessions, Abort(s) PROVE TicketHolds
  BY <1>1, <1>8 DEF Abort, local
<1>9. CASE UNCHANGED vars BY <1>1, <1>9 DEF vars
<1> QED BY <1>2, <1>3, <1>4, <1>5, <1>6, <1>7, <1>8, <1>9 DEF Next

LEMMA RefundCancels == RefundInvariant /\ [Next]_vars => RefundCancelsTicket'
<1> SUFFICES ASSUME RefundInvariant, [Next]_vars, pay'.status = "refunded"
             PROVE  ticket' = "cancelled"
  BY DEF RefundCancelsTicket
<1>1. CASE pay.status = "refunded"
  <2>1. TicketRowFree
    BY <1>1 DEF RefundInvariant, SessionsTrust, Trusts, TicketRowFree, LockFree
  <2>2. ticket = "cancelled" BY <1>1 DEF RefundInvariant, RefundCancelsTicket
  <2> QED BY <2>1, <2>2, TicketSteps DEF TicketHolds
<1> QED BY <1>1, TicketSteps DEF TicketHolds

(* What the requests may trust.                                            *)

\* A request that does not move may trust what it trusted.
LEMMA TrustLasts ==
    ASSUME RefundInvariant, [Next]_vars, NEW s \in Sessions
    PROVE  Trusts(sess[s], ticket', pay', rf', back')
<1> DEFINE x == sess[s]
<1>1. TypeOK /\ Trusts(x, ticket, pay, rf, back) BY DEF RefundInvariant, Inv, SessionsTrust
<1>2. RefundsLast /\ BackLasts /\ TicketHolds
  BY <1>1, RefundRowsHold, ProviderKeepsRefunds, TicketSteps
<1>3. x.op \in Refunders => x.ref \in Refs BY <1>1, SessionKinds DEF Refunders
<1>4. x.op = "asked" => x.gid \in Gids BY <1>1, SessionKinds
<1>5. x.op = "matched" => x.on.of \in Gids /\ back[x.on.of].status # "none" BY MatchedEvent
<1>6. x.op = "checkin" => ~TicketRowFree BY DEF TicketRowFree, LockFree
<1> HIDE DEF x
<1>7. Trusts(x, ticket', pay', rf', back')
  BY <1>1, <1>2, <1>3, <1>4, <1>5, <1>6 DEF Trusts, RefundsLast, BackLasts, TicketHolds
<1> QED BY <1>7 DEF x

LEMMA StepTrusts ==
    ASSUME RefundInvariant, [Next]_vars, NEW s \in Sessions, NEW x, Step(s, x),
           Trusts(x, ticket', pay', rf', back')
    PROVE  SessionsTrust'
<1> SUFFICES ASSUME NEW q \in Sessions PROVE Trusts(sess'[q], ticket', pay', rf', back')
  BY DEF SessionsTrust
<1>1. TypeOK BY DEF RefundInvariant, Inv
<1>2. CASE q = s
  <2>1. sess'[q] = x BY <1>1, <1>2 DEF Step, TypeOK
  <2> QED BY <2>1
<1>3. CASE q # s
  <2>1. sess'[q] = sess[q] BY <1>1, <1>3 DEF Step, TypeOK
  <2> QED BY <2>1, TrustLasts
<1> QED BY <1>2, <1>3

LEMMA FinishTrusts ==
    ASSUME RefundInvariant, [Next]_vars, NEW s \in Sessions, Finish(s) PROVE SessionsTrust'
<1> Trusts(Idle, ticket', pay', rf', back') BY DEF Trusts, Idle, Readers, Refunders
<1> QED BY StepTrusts DEF Finish

LEMMA NobodyTrusts ==
    ASSUME RefundInvariant, [Next]_vars, UNCHANGED sess PROVE SessionsTrust'
BY TrustLasts DEF SessionsTrust

\* A request that keeps a copy of the payment and nothing of a refund.
LEMMA ReaderTrusts ==
    ASSUME RefundInvariant, UNCHANGED <<local, provider>>, NEW x,
           x.op \in Readers /\ x.seen.paid # NoOrder => ticket # "none",
           x.op = "checkin" => pay.status # "refunded",
           x.op \notin Refunders
    PROVE  Trusts(x, ticket', pay', rf', back')
BY DEF Trusts, local, provider, Refunders

LEMMA WebhookTrusts ==
    ASSUME RefundInvariant, [Next]_vars, NEW s \in Sessions, WebhookStep(s) PROVE SessionsTrust'
<1>1. ASSUME NEW op \in {"mark", "hook", "found"}, NEW x, x.op = op, Step(s, x)
      PROVE  SessionsTrust'
  <2> Trusts(x, ticket', pay', rf', back') BY <1>1 DEF Trusts, Readers, Refunders
  <2> QED BY <1>1, StepTrusts
<1>2. CASE Finish(s) BY <1>2, FinishTrusts
<1>3. ASSUME NEW e \in Event, WebhookInsert(s, e) \/ WebhookAgain(s, e) \/ RetryLoad(s, e)
      PROVE  SessionsTrust'
  BY <1>1, <1>3 DEF WebhookInsert, WebhookAgain, RetryLoad
<1>4. CASE WebhookMark(s) BY <1>1, <1>4 DEF WebhookMark
<1>5. CASE WebhookFails(s) \/ RefundWebhook(s)
  BY <1>2, <1>5 DEF WebhookFails, RefundWebhook, Complete
<1>6. CASE WebhookFind(s) BY <1>1, <1>2, <1>6 DEF WebhookFind, Complete
<1>7. ASSUME NEW r \in Refs, RefundMatch(s, r) PROVE SessionsTrust'
  <2> DEFINE e == sess[s].on
             x == [op |-> "matched", on |-> e, ref |-> r, row |-> rf[r], seen |-> pay, reg |-> reg]
  <2>1. r \in CreatedRefs /\ rf[r].amount = back[e.of].amount BY <1>7 DEF RefundMatch, Match
  <2>2. pay.paid # NoOrder => ticket # "none" BY DEF RefundInvariant, Issued
  <2>3. Trusts(x, ticket', pay', rf', back')
    BY <1>7, <2>1, <2>2 DEF RefundMatch, Trusts, CreatedRefs, local, provider, Refunders, Readers
  <2>4. Step(s, x) BY <1>7 DEF RefundMatch
  <2> QED BY <2>3, <2>4, StepTrusts
<1> QED BY <1>3, <1>4, <1>5, <1>6, <1>7 DEF WebhookStep

LEMMA PaymentTrusts ==
    ASSUME RefundInvariant, [Next]_vars, NEW s \in Sessions, PaymentStep(s) PROVE SessionsTrust'
<1> DEFINE y == sess[s]
<1>0. pay.paid # NoOrder => ticket # "none" BY DEF RefundInvariant, Issued
<1>1. ASSUME NEW x, x.op \in {"initiate", "found", "verify", "answered", "reconcile", "release"},
             x.op # "found" /\ x.seen.paid # NoOrder => ticket # "none",
             Step(s, x), UNCHANGED <<local, provider>>
      PROVE  SessionsTrust'
  <2> Trusts(x, ticket', pay', rf', back') BY <1>1, ReaderTrusts DEF Readers, Refunders
  <2> QED BY <1>1, StepTrusts
<1>2. CASE Finish(s) BY <1>2, FinishTrusts
<1>3. CASE InitiateLoad(s) \/ ReconcileLoad(s)
  BY <1>0, <1>1, <1>3 DEF InitiateLoad, ReconcileLoad
<1>4. ASSUME NEW o \in Orders, InitiateCommit(s, o) \/ CheckoutFind(s, o) PROVE SessionsTrust'
  BY <1>1, <1>2, <1>4 DEF InitiateCommit, CheckoutFind
<1>5. CASE VerifyLoad(s)
  BY <1>0, <1>1, <1>2, <1>5 DEF VerifyLoad, Complete, local, provider
<1>6. CASE VerifyAnswer(s)
  <2>1. y.seen.paid # NoOrder => ticket # "none"
    BY <1>6, SeenIssued DEF VerifyAnswer, Readers
  <2> QED BY <1>1, <1>6, <2>1 DEF VerifyAnswer
<1>7. CASE VerifyCommit(s) \/ VerifyInvalid(s) \/ ReleaseCommit(s)
  BY <1>2, <1>7 DEF VerifyCommit, VerifyInvalid, ReleaseCommit, Complete
<1>8. CASE ReconcilePaid(s) BY <1>1, <1>8 DEF ReconcilePaid
<1>9. CASE ReconcileFailed(s)
  <2>1. y.seen.paid # NoOrder => ticket # "none"
    BY <1>9, SeenIssued DEF ReconcileFailed, Readers
  <2> QED BY <1>1, <1>9, <2>1 DEF ReconcileFailed
<1> QED BY <1>3, <1>4, <1>5, <1>6, <1>7, <1>8, <1>9 DEF PaymentStep

LEMMA RefundTrusts ==
    ASSUME RefundInvariant, [Next]_vars, NEW s \in Sessions, RefundStep(s) PROVE SessionsTrust'
<1>0. TypeOK /\ (pay.paid # NoOrder => ticket # "none") BY DEF RefundInvariant, Inv, Issued
<1>1. ASSUME NEW r \in Refs, ApproveLoad(s, r) PROVE SessionsTrust'
  <2> DEFINE x == [op |-> "approve", ref |-> r, row |-> rf[r], seen |-> pay, reg |-> reg]
  <2>1. Trusts(x, ticket', pay', rf', back')
    BY <1>0, <1>1 DEF ApproveLoad, Trusts, local, provider
  <2>2. Step(s, x) BY <1>1 DEF ApproveLoad
  <2> QED BY <2>1, <2>2, StepTrusts
<1>2. ASSUME NEW r \in Refs, SettleLoad(s, r) PROVE SessionsTrust'
  <2> DEFINE x == [op |-> "settle", ref |-> r, row |-> rf[r], seen |-> pay]
  <2>1. Trusts(x, ticket', pay', rf', back')
    BY <1>0, <1>2 DEF SettleLoad, Trusts, local, provider
  <2>2. Step(s, x) BY <1>2 DEF SettleLoad
  <2> QED BY <2>1, <2>2, StepTrusts
<1>3. ASSUME NEW g \in Gids, ApproveAsk(s, g) PROVE SessionsTrust'
  <2> DEFINE y == sess[s]
             x == [op |-> "asked", ref |-> y.ref, row |-> y.row, seen |-> y.seen, reg |-> y.reg,
                   gid |-> g]
  <2>1. Trusts(y, ticket, pay, rf, back) BY DEF RefundInvariant, SessionsTrust
  <2>2. y.op = "approve" /\ UNCHANGED local BY <1>3 DEF ApproveAsk
  <2>3. back'[g].status # "none" /\ back'[g].amount = y.row.amount
    BY <1>0, <1>3 DEF ApproveAsk, Accept, TypeOK
  <2>4. Trusts(x, ticket', pay', rf', back')
    BY <2>1, <2>2, <2>3 DEF Trusts, local, Readers, Refunders
  <2>5. Step(s, x) BY <1>3 DEF ApproveAsk
  <2> QED BY <2>4, <2>5, StepTrusts
<1>4. CASE ApproveCommit(s) \/ ApproveFails(s) \/ SettleCommit(s)
  BY <1>4, FinishTrusts DEF ApproveCommit, ApproveFails, SettleCommit
<1> QED BY <1>1, <1>2, <1>3, <1>4 DEF RefundStep

LEMMA RegistrationTrusts ==
    ASSUME RefundInvariant, [Next]_vars, NEW s \in Sessions, RegistrationStep(s)
    PROVE  SessionsTrust'
<1>1. CASE CancelLoad(s)
  <2> DEFINE x == [op |-> "cancel", seen |-> pay, reg |-> reg]
  <2>1. Trusts(x, ticket', pay', rf', back')
    BY <1>1, ReaderTrusts DEF CancelLoad, Refunders, RefundInvariant, Issued
  <2>2. Step(s, x) BY <1>1 DEF CancelLoad
  <2> QED BY <2>1, <2>2, StepTrusts
<1>2. CASE CheckInLoad(s)
  <2> DEFINE x == [op |-> "checkin", reg |-> reg]
  <2>1. Trusts(x, ticket', pay', rf', back')
    BY <1>2, ReaderTrusts DEF CheckInLoad, Refunders, Readers
  <2>2. Step(s, x) BY <1>2 DEF CheckInLoad
  <2> QED BY <2>1, <2>2, StepTrusts
<1> QED
  BY <1>1, <1>2, FinishTrusts DEF RegistrationStep, CancelUnpaid, CancelPaid, CheckInCommit

LEMMA InitRefunds == Init => RefundInvariant
<1> SUFFICES ASSUME Init PROVE RefundInvariant OBVIOUS
<1>1. Inv BY InitInv
<1>2. SessionsTrust
  BY DEF Init, SessionsTrust, Trusts, Idle, Readers, Refunders
<1>3. Issued /\ RefundCancelsTicket BY DEF Init, Issued, RefundCancelsTicket
<1>4. Numbered
  <2>1. CreatedRefs = 1 .. 0 BY DEF Init, CreatedRefs, NoRefund
  <2> QED BY <2>1 DEF Numbered
<1>5. RowsBacked BY DEF Init, RowsBacked, RowBacked, NoRefund
<1> QED BY <1>1, <1>2, <1>3, <1>4, <1>5 DEF RefundInvariant

LEMMA NextRefunds == RefundInvariant /\ [Next]_vars => RefundInvariant'
<1> SUFFICES ASSUME RefundInvariant, [Next]_vars PROVE RefundInvariant' OBVIOUS
<1>1. Inv' BY NextInv DEF RefundInvariant
<1>2. Numbered' /\ RowsBacked' BY RefundRowsHold
<1>3. Issued' BY TicketSteps DEF TicketHolds
<1>4. RefundCancelsTicket' BY RefundCancels
<1>5. SessionsTrust'
  <2>1. CASE UNCHANGED sess BY <2>1, NobodyTrusts
  <2>2. CASE ProviderStep
    BY <2>1, <2>2 DEF ProviderStep, AttemptFails, Authorize, Capture, SettleRefund
  <2>3. ASSUME NEW r \in Refs, NEW a \in Parts, RequestRefund(r, a) PROVE SessionsTrust'
    BY <2>1, <2>3 DEF RequestRefund
  <2>4. ASSUME NEW s \in Sessions, Abort(s) PROVE SessionsTrust'
    BY <2>4, FinishTrusts DEF Abort
  <2>5. CASE UNCHANGED vars BY <2>1, <2>5 DEF vars
  <2> QED
    BY <2>2, <2>3, <2>4, <2>5, WebhookTrusts, PaymentTrusts, RefundTrusts, RegistrationTrusts
    DEF Next
<1> QED BY <1>1, <1>2, <1>3, <1>4, <1>5 DEF RefundInvariant

LEMMA RefundsInvariant == Spec => []RefundInvariant
BY InitRefunds, NextRefunds, PTL DEF Spec

\* A refund that is processed has a refund of its amount at the provider,
\* whatever approval, webhook and reconciliation made of it from the copies
\* they held.
THEOREM RefundsAreBacked == Spec => []RefundsBacked
<1>1. RefundInvariant => RefundsBacked
  BY DEF RefundInvariant, RowsBacked, RowBacked, RefundsBacked
<1> QED BY <1>1, RefundsInvariant, PTL

\* The ticket of a refunded payment is cancelled, and stays so: no check-in
\* and no late verification brings it back.
THEOREM RefundsCancelTickets == Spec => []RefundCancelsTicket
<1>1. RefundInvariant => RefundCancelsTicket BY DEF RefundInvariant
<1> QED BY <1>1, RefundsInvariant, PTL

(***************************************************************************)
(* A registration that waits for a refund.  The refund it waits for is     *)
(* open, and every request that may decide about it has read that the      *)
(* registration waits, so that none closes it and forgets the registration.*)
(***************************************************************************)

Open == {"pending", "processing"}
Deciders == {"matched", "approve", "asked"}
Awaited(r) ==
    /\ rf[r].status \in Open
    /\ \A s \in Sessions :
          sess[s].op \in Deciders /\ sess[s].ref = r => sess[s].reg = "refund_pending"
Waits == reg = "refund_pending" => \E r \in Refs : Awaited(r)

WaitInvariant == RefundInvariant /\ Waits

\* What a request turns into when it moves: it decides about no refund, it has
\* just read the registration, or it goes on with what it had.
Honest(s, x) ==
    \/ x.op \notin Deciders
    \/ x.reg = reg
    \/ sess[s].op \in Deciders /\ x.ref = sess[s].ref /\ x.reg = sess[s].reg

\* The registration goes on waiting for the same refund.
LEMMA WaitGoesOn ==
    ASSUME WaitInvariant, NEW s \in Sessions, NEW x, Step(s, x), Honest(s, x),
           reg' = "refund_pending" => /\ reg = "refund_pending"
                                      /\ \A r \in Refs : Awaited(r) => rf'[r].status \in Open
    PROVE  Waits'
<1> SUFFICES ASSUME reg' = "refund_pending" PROVE \E r \in Refs : Awaited(r)' BY DEF Waits
<1>1. reg = "refund_pending" /\ \A r \in Refs : Awaited(r) => rf'[r].status \in Open OBVIOUS
<1>2. PICK r \in Refs : Awaited(r) BY <1>1 DEF WaitInvariant, Waits
<1>3. ASSUME NEW q \in Sessions, sess'[q].op \in Deciders, sess'[q].ref = r
      PROVE  sess'[q].reg = "refund_pending"
  <2>1. sess' = [sess EXCEPT ![s] = x] /\ DOMAIN sess = Sessions
    BY DEF Step, WaitInvariant, RefundInvariant, Inv, TypeOK
  <2>2. CASE q = s
    <3>1. sess'[q] = x BY <2>1, <2>2
    <3> QED BY <1>1, <1>2, <1>3, <2>2, <3>1 DEF Awaited, Honest
  <2>3. CASE q # s
    <3>1. sess'[q] = sess[q] BY <2>1, <2>3
    <3> QED BY <1>2, <1>3, <3>1 DEF Awaited
  <2> QED BY <2>2, <2>3
<1>4. rf'[r].status \in Open BY <1>1, <1>2
<1>5. Awaited(r)' BY <1>3, <1>4 DEF Awaited
<1> QED BY <1>5

LEMMA FinishWaits ==
    ASSUME WaitInvariant, NEW s \in Sessions, Finish(s),
           reg' = "refund_pending" => /\ reg = "refund_pending"
                                      /\ \A r \in Refs : Awaited(r) => rf'[r].status \in Open
    PROVE  Waits'
<1> Honest(s, Idle) BY DEF Honest, Idle, Deciders
<1> QED BY WaitGoesOn DEF Finish

\* A new refund is waited for, and nobody is deciding about it.
LEMMA NewRefundAwaited ==
    ASSUME WaitInvariant, NEW r \in Refs, NEW a \in 0 .. Amount, NewRefund(r, a),
           \/ UNCHANGED sess
           \/ \E s \in Sessions : Finish(s)
    PROVE  Waits'
<1>0. RefundInvariant /\ TypeOK BY DEF WaitInvariant, RefundInvariant, Inv
<1>1. rf[r].status = "none" BY <1>0, NewRefundIsFresh DEF RefundInvariant
<1>2. ASSUME NEW q \in Sessions, sess'[q].op \in Deciders, sess'[q].ref = r PROVE FALSE
  <2>1. sess'[q] = sess[q] \/ sess'[q] = Idle BY <1>0 DEF Finish, Step, TypeOK
  <2>2. sess[q].op \in Deciders /\ sess[q].ref = r BY <1>2, <2>1 DEF Idle, Deciders
  <2>3. Trusts(sess[q], ticket, pay, rf, back) BY <1>0 DEF RefundInvariant, SessionsTrust
  <2> QED BY <1>1, <2>2, <2>3 DEF Trusts, Deciders, Refunders
<1>3. rf'[r].status = "pending" BY <1>0 DEF NewRefund, TypeOK
<1>4. Awaited(r)' BY <1>2, <1>3 DEF Awaited, Open
<1> QED BY <1>4 DEF Waits

\* Once the refund is decided the registration does not wait any more.
LEMMA DecidedEndsWait ==
    ASSUME NEW x, x.reg = "refund_pending", Apply(x) \/ Fail(x)
    PROVE  reg' # "refund_pending"
BY DEF Apply, Fail, Flush

\* Only a new refund makes a registration wait.
LEMMA DecidedStartsNoWait ==
    ASSUME NEW x, Apply(x) \/ Fail(x), reg' = "refund_pending" PROVE reg = "refund_pending"
BY DEF Apply, Fail, Flush

LEMMA WebhookWaits ==
    ASSUME WaitInvariant, NEW s \in Sessions, WebhookStep(s) PROVE Waits'
<1>1. ASSUME NEW x, Step(s, x), Honest(s, x), UNCHANGED <<reg, rf>> PROVE Waits'
  BY <1>1, WaitGoesOn DEF Awaited
<1>2. CASE Finish(s) /\ UNCHANGED <<reg, rf>> BY <1>2, FinishWaits DEF Awaited
<1>3. ASSUME NEW e \in Event, WebhookInsert(s, e) \/ WebhookAgain(s, e) \/ RetryLoad(s, e)
      PROVE  Waits'
  BY <1>1, <1>3 DEF WebhookInsert, WebhookAgain, RetryLoad, Honest, Deciders, local
<1>4. CASE WebhookMark(s) BY <1>1, <1>4 DEF WebhookMark, Honest, Deciders
<1>5. CASE WebhookFails(s) BY <1>2, <1>5 DEF WebhookFails
<1>6. CASE WebhookFind(s)
  BY <1>1, <1>2, <1>6 DEF WebhookFind, Complete, Honest, Deciders
<1>7. ASSUME NEW r \in Refs, RefundMatch(s, r) PROVE Waits'
  BY <1>1, <1>7 DEF RefundMatch, Honest, local
<1>8. CASE RefundWebhook(s)
  <2> DEFINE x == sess[s]
             st == StatusAfter(x.row.status, x.on.kind)
  <2>0. RefundInvariant /\ TypeOK /\ x.op = "matched"
    BY <1>8 DEF RefundWebhook, WaitInvariant, RefundInvariant, Inv
  <2>1. x.row \in Refund BY <2>0, SessionKinds
  <2>2. x.on.of \in Gids /\ x.on.kind \in RefundKinds BY <2>0, MatchedEvent
  <2>3. st \in {"processed", "processing", "failed"}
    BY <2>2 DEF StatusAfter, RefundKinds
  <2>4. Decides(s, st, x.on.of)
    BY <1>8, <2>0, <2>2, MatchedEvent DEF RefundWebhook, Decides, Refunders, provider
  <2>5. /\ rf'[x.ref].status \in {rf[x.ref].status, st}
        /\ x.row.status = st => rf'[x.ref].status = rf[x.ref].status
        /\ \A r \in Refs \ {x.ref} : rf'[r] = rf[r]
    BY <2>0, <2>2, <2>3, <2>4, DecisionKeeps DEF RefundStatus
  <2>6. x.row.status = "processed" => st = "processed" BY DEF StatusAfter
  <2>7. \/ Apply(x) \/ Fail(x)
        \/ UNCHANGED reg /\ (x.row.status = "processed" \/ st \notin {"processed", "failed"})
    BY <1>8 DEF RefundWebhook
  <2> HIDE DEF st
  <2>8. ASSUME reg' = "refund_pending", NEW r \in Refs, Awaited(r) PROVE rf'[r].status \in Open
    <3>1. CASE r = x.ref
      <4>1. x.reg = "refund_pending" BY <2>0, <2>8, <3>1 DEF Awaited, Deciders
      <4>2. x.row.status = "processed" \/ st \notin {"processed", "failed"}
        BY <2>7, <2>8, <4>1, DecidedEndsWait
      <4> QED BY <2>3, <2>5, <2>6, <2>8, <3>1, <4>2 DEF Awaited, Open
    <3> QED BY <2>5, <2>8, <3>1 DEF Awaited
  <2>9. reg' = "refund_pending" => reg = "refund_pending" BY <2>7, DecidedStartsNoWait
  <2>10. Finish(s) BY <1>8 DEF RefundWebhook, Complete
  <2> QED BY <2>8, <2>9, <2>10, FinishWaits
<1> QED BY <1>3, <1>4, <1>5, <1>6, <1>7, <1>8 DEF WebhookStep

LEMMA PaymentWaits ==
    ASSUME WaitInvariant, NEW s \in Sessions, PaymentStep(s) PROVE Waits'
<1>1. ASSUME NEW x, Step(s, x), x.op \notin Deciders, UNCHANGED <<reg, rf>> PROVE Waits'
  BY <1>1, WaitGoesOn DEF Awaited, Honest
<1>2. CASE Finish(s) /\ (reg' = "refund_pending" => reg = "refund_pending") /\ UNCHANGED rf
  BY <1>2, FinishWaits DEF Awaited
<1>3. ASSUME NEW o \in Orders, InitiateCommit(s, o) \/ CheckoutFind(s, o) PROVE Waits'
  BY <1>1, <1>2, <1>3 DEF InitiateCommit, CheckoutFind, Deciders, local
<1>4. CASE InitiateLoad(s) \/ ReconcileLoad(s) \/ ReconcilePaid(s) \/ ReconcileFailed(s)
  BY <1>1, <1>4 DEF InitiateLoad, ReconcileLoad, ReconcilePaid, ReconcileFailed, Deciders, local
<1>5. CASE VerifyLoad(s) \/ VerifyAnswer(s)
  BY <1>1, <1>2, <1>5 DEF VerifyLoad, VerifyAnswer, Complete, Deciders, local
<1>6. CASE VerifyCommit(s) \/ VerifyInvalid(s) \/ ReleaseCommit(s)
  BY <1>2, <1>6 DEF VerifyCommit, VerifyInvalid, ReleaseCommit, Complete, Flush
<1> QED BY <1>3, <1>4, <1>5, <1>6 DEF PaymentStep

LEMMA RefundWaits ==
    ASSUME WaitInvariant, NEW s \in Sessions, RefundStep(s) PROVE Waits'
<1> DEFINE x == sess[s]
<1>0. RefundInvariant /\ TypeOK /\ SessionsTrust /\ SessionsKnow
  BY DEF WaitInvariant, RefundInvariant, Inv
<1>1. ASSUME NEW y, Step(s, y), Honest(s, y), UNCHANGED <<reg, rf>> PROVE Waits'
  BY <1>1, WaitGoesOn DEF Awaited
<1>2. ASSUME NEW r \in Refs, ApproveLoad(s, r) \/ SettleLoad(s, r) PROVE Waits'
  BY <1>1, <1>2 DEF ApproveLoad, SettleLoad, Honest, Deciders, local
<1>3. ASSUME NEW g \in Gids, ApproveAsk(s, g) PROVE Waits'
  BY <1>1, <1>3 DEF ApproveAsk, Honest, Deciders, local
<1>4. CASE ApproveCommit(s) \/ ApproveFails(s)
  <2>1. x.op \in {"approve", "asked"} /\ Finish(s) /\ (Apply(x) \/ Fail(x))
    BY <1>4 DEF ApproveCommit, ApproveFails
  <2>2. \A r \in Refs \ {x.ref} : rf'[r] = rf[r]
    BY <1>0, <1>4 DEF ApproveCommit, ApproveFails, WrittenRefund, TypeOK
  <2>3. ASSUME reg' = "refund_pending", NEW r \in Refs, Awaited(r) PROVE rf'[r].status \in Open
    <3>1. r # x.ref
      <4> SUFFICES ASSUME r = x.ref PROVE FALSE OBVIOUS
      <4>1. x.reg = "refund_pending" BY <2>1, <2>3 DEF Awaited, Deciders
      <4> QED BY <2>1, <2>3, <4>1, DecidedEndsWait
    <3> QED BY <2>2, <2>3, <3>1 DEF Awaited
  <2>4. reg' = "refund_pending" => reg = "refund_pending" BY <2>1, DecidedStartsNoWait
  <2> QED BY <2>1, <2>3, <2>4, FinishWaits
<1>5. CASE SettleCommit(s)
  <2> DEFINE now == [op |-> "settle", seen |-> x.seen, reg |-> reg]
  <2>1. Finish(s) /\ (Apply(now) \/ Fail(now)) BY <1>5 DEF SettleCommit
  <2>2. now.reg = reg OBVIOUS
  <2>3. reg' # "refund_pending"
    <3> HIDE DEF now
    <3>1. CASE reg = "refund_pending" BY <2>1, <2>2, <3>1, DecidedEndsWait
    <3> QED BY <2>1, <3>1, DecidedStartsNoWait
  <2> QED BY <2>3 DEF Waits
<1> QED BY <1>2, <1>3, <1>4, <1>5 DEF RefundStep

LEMMA RegistrationWaits ==
    ASSUME WaitInvariant, NEW s \in Sessions, RegistrationStep(s) PROVE Waits'
<1>1. ASSUME NEW x, Step(s, x), x.op \notin Deciders, UNCHANGED <<reg, rf>> PROVE Waits'
  BY <1>1, WaitGoesOn DEF Awaited, Honest
<1>2. CASE CancelLoad(s) \/ CheckInLoad(s)
  BY <1>1, <1>2 DEF CancelLoad, CheckInLoad, Deciders, local
<1>3. CASE CancelUnpaid(s) BY <1>3 DEF CancelUnpaid, Waits
<1>4. ASSUME NEW r \in Refs, CancelPaid(s, r) PROVE Waits'
  BY <1>4, NewRefundAwaited DEF CancelPaid
<1>5. CASE CheckInCommit(s)
  BY <1>5, FinishWaits DEF CheckInCommit, Flush, Awaited
<1> QED BY <1>2, <1>3, <1>4, <1>5 DEF RegistrationStep

LEMMA NextWaits == WaitInvariant /\ [Next]_vars => WaitInvariant'
<1> SUFFICES ASSUME WaitInvariant, [Next]_vars PROVE Waits'
  BY NextRefunds DEF WaitInvariant
<1>1. CASE UNCHANGED <<reg, rf, sess>> BY <1>1 DEF WaitInvariant, Waits, Awaited
<1>2. CASE ProviderStep
  BY <1>1, <1>2 DEF ProviderStep, AttemptFails, Authorize, Capture, SettleRefund, local
<1>3. ASSUME NEW r \in Refs, NEW a \in Parts, RequestRefund(r, a) PROVE Waits'
  BY <1>3, NewRefundAwaited DEF RequestRefund
<1>4. ASSUME NEW s \in Sessions, Abort(s) PROVE Waits'
  BY <1>4, FinishWaits DEF Abort, local, Awaited
<1>5. CASE UNCHANGED vars BY <1>1, <1>5 DEF vars
<1> QED
  BY <1>2, <1>3, <1>4, <1>5, WebhookWaits, PaymentWaits, RefundWaits, RegistrationWaits DEF Next

\* A registration waits for a refund only while there is one to be decided:
\* whoever closes the refund it waits for, finance, a webhook or the
\* reconciliation, tells the registration, and no other request makes it wait.
THEOREM WaitingHasRefund == Spec => []PendingHasRefund
<1>1. Init => WaitInvariant BY InitRefunds DEF WaitInvariant, Waits, Init
<1>2. WaitInvariant => PendingHasRefund
  BY DEF WaitInvariant, Waits, Awaited, Open, PendingHasRefund
<1> QED BY <1>1, <1>2, NextWaits, PTL DEF Spec
=============================================================================
