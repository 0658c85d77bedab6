------------------------- MODULE RegistrationSeats -------------------------
(***************************************************************************)
(* The seat ledger of ONE event: its status and capacity, its              *)
(* registrations with the coarse state of their payment, and its waitlist. *)
(* Requests run concurrently under PostgreSQL READ COMMITTED.  A request   *)
(* first reads rows into its SQLAlchemy session and writes them later; a   *)
(* row already in the session is NOT refreshed by a later SELECT (except   *)
(* EventRepository.get_by_id, which asks for populate_existing), so what a *)
(* handler read before it waited for a lock or for the gateway may be      *)
(* stale when it writes.  Every such handler is two actions here: a Load,  *)
(* which keeps what was read in sess[s], and a commit.  The advisory lock  *)
(* registration_capacity:<event> makes the part of a handler after it one  *)
(* atomic action; only the refund approval keeps it across an action.      *)
(***************************************************************************)
EXTENDS Integers, FiniteSets

CONSTANTS
    Regs,        \* rows of the registrations table that may be created
    Idents,      \* registrants: (user, child, participation type)
    IdentOf,     \* the registrant of each registration row
    Kinds,       \* participation types
    KindOf,      \* the participation type of each registrant
    Entries,     \* rows of waitlist_entries that may be created
    EntryIdent,  \* the registrant of each waitlist entry
    Sessions,    \* concurrently running requests
    Capacities,  \* the capacities the configuration may be given
    StartStatus, \* the event statuses a run starts from
    Fee,         \* config.fee_amount > 0
    Approval,    \* config.approval_required
    OtherEvents  \* the waitlist job may find work in another event as well

ASSUME ConstantsAssumption ==
    /\ IsFiniteSet(Regs)
    /\ IdentOf \in [Regs -> Idents]
    /\ KindOf \in [Idents -> Kinds]
    /\ EntryIdent \in [Entries -> Idents]
    /\ Capacities \subseteq Nat
    /\ Fee \in BOOLEAN /\ Approval \in BOOLEAN /\ OtherEvents \in BOOLEAN

EventStatus == {"draft", "configured", "published", "registration_open",
                "registration_closed", "live", "completed", "archived"}

ASSUME StartAssumption == StartStatus \subseteq EventStatus

\* What the manager may ask for (ALLOWED_TRANSITIONS).
AllowedNext ==
    [st \in EventStatus |->
        CASE st = "draft" -> {"configured"}
          [] st = "configured" -> {"draft", "published"}
          [] st = "published" -> {"registration_open", "archived"}
          [] st = "registration_open" -> {"registration_closed"}
          [] st = "registration_closed" -> {"live", "registration_open"}
          [] st = "live" -> {"completed"}
          [] st = "completed" -> {"archived"}
          [] st = "archived" -> {}]

\* ACTIVE_REGISTRATION_STATUSES that some path of the program produces.
ActiveStatus == {"pending_verification", "pending_payment", "refund_pending",
                 "refund_failed", "approved", "confirmed", "checked_in"}
RegStatus == ActiveStatus \cup {"rejected", "cancelled"}
RowStatus == RegStatus \cup {"none"}   \* "none": there is no such row
PayStatus == {"none", "initiated", "verified", "failed", "refunded"}
RefundStatus == {"none", "pending", "processed", "failed"}
TicketStatus == {"none", "issued", "checked_in", "cancelled"}
EntryStatus == {"none", "waiting", "promoted", "expired", "left", "closed"}

\* The statuses each handler accepts, tested on what it loaded.
Cancellable == {"pending_verification", "pending_payment", "approved",
                "confirmed", "refund_failed"}
Decidable == {"pending_verification", "pending_payment"}
Payable == {"pending_payment", "approved"}
Scannable == {"confirmed", "refund_failed", "checked_in"}

VARIABLES
    evStatus,  \* events.status
    capacity,  \* event_configurations.capacity
    passed,    \* now >= registration_end_at
    reg,       \* registrations.status, "none" while the row does not exist
    pay,       \* payments.status of the registration's only payment
    refund,    \* state of the registration's latest (full) refund
    ticket,    \* tickets.status of the registration's ticket
    entry,     \* waitlist_entries.status
    ahead,     \* order of joined_at: <<f, e>> when f waits and joined before e
    sess,      \* what each running request has loaded
    revived,   \* history: rows that became active again after they ended
    peak       \* history: the largest capacity ever configured

waitVars == <<entry, ahead>>
moneyVars == <<pay, refund, ticket>>
vars == <<evStatus, capacity, passed, reg, moneyVars, waitVars, sess, revived, peak>>

Idle == [op |-> "idle"]
Rereading == [op |-> "reread"]

\* What a running request keeps of the rows it has loaded: the columns that
\* its later steps use.
SessionState ==
    {Idle, Rereading}
    \cup [op : {"cancel", "initiate"}, on : Regs, pay : PayStatus]
    \cup [op : {"verify", "release", "refund", "checkin"}, on : Regs, reg : RowStatus]
    \cup [op : {"approve"}, on : Regs, ticket : TicketStatus]
    \cup [op : {"reject"}, on : Regs]
    \cup [op : {"create"}, on : Idents, status : EventStatus, cap : Nat]
    \cup [op : {"join"}, on : Entries, status : EventStatus, cap : Nat]
    \cup [op : {"leave", "retry"}, on : Entries]
    \cup [op : {"sync"}, cap : Nat]
    \cup [op : {"transition"}, to : EventStatus]

TypeOK ==
    /\ evStatus \in EventStatus
    /\ capacity \in Nat
    /\ passed \in BOOLEAN
    /\ reg \in [Regs -> RowStatus]
    /\ pay \in [Regs -> PayStatus]
    /\ refund \in [Regs -> RefundStatus]
    /\ ticket \in [Regs -> TicketStatus]
    /\ entry \in [Entries -> EntryStatus]
    /\ ahead \subseteq Entries \X Entries
    /\ sess \in [Sessions -> SessionState]
    /\ revived \subseteq Regs
    /\ peak \in Nat

Init ==
    /\ evStatus \in StartStatus
    /\ capacity \in Capacities
    /\ passed = FALSE
    /\ reg = [r \in Regs |-> "none"]
    /\ pay = [r \in Regs |-> "none"]
    /\ refund = [r \in Regs |-> "none"]
    /\ ticket = [r \in Regs |-> "none"]
    /\ entry = [e \in Entries |-> "none"]
    /\ ahead = {}
    /\ sess = [s \in Sessions |-> Idle]
    /\ revived = {}
    /\ peak = capacity
----------------------------------------------------------------------------
\* The rows of registrations that hold a seat, and how many there are
\* (count_active_for_event).
ActiveIn(rg) == {r \in Regs : rg[r] \in ActiveStatus}
Active == ActiveIn(reg)
\* Mutant: registrations that wait for approval or payment are not counted.
SettledActive(rg) == Cardinality({r \in Regs : rg[r] \in ActiveStatus \ Decidable})
CountActive(rg) == Cardinality(ActiveIn(rg))

\* Mutant: off by one.
RoomForOneMore(cap, n) == n <= cap
HasRoom(cap, n) == n < cap

Availability(st, cap, n) ==
    IF st # "registration_open" \/ passed THEN "closed"
    ELSE IF ~HasRoom(cap, n) THEN "full"
    ELSE IF cap > 0 /\ 10 * n >= 8 * cap THEN "limited"
    ELSE "open"

\* SQLAlchemy emits an UPDATE only for an attribute whose new value differs
\* from the loaded one: an unchanged attribute leaves the row alone.
Flush(loaded, new, row) == IF loaded = new THEN row ELSE new

\* Write one registration's status, and keep the history variable.
SetReg(r, new) ==
    /\ reg' = [reg EXCEPT ![r] = new]
    /\ revived' = CASE new \notin ActiveStatus -> revived \ {r}
                    [] new \in ActiveStatus /\ reg[r] \in {"rejected", "cancelled"}
                           -> revived \cup {r}
                    [] OTHER -> revived

\* The capacity lock is free unless a refund approval waits for the gateway.
CapacityLockFree == \A s \in Sessions : sess[s].op # "refund"

Finish(s) == sess' = [sess EXCEPT ![s] = Idle]

Load(s, x) ==
    /\ sess[s] = Idle
    /\ sess' = [sess EXCEPT ![s] = x]
    /\ UNCHANGED <<evStatus, capacity, passed, reg, moneyVars, waitVars, revived, peak>>

LoadEvent(s, op, x) ==
    Load(s, [op |-> op, on |-> x, status |-> evStatus, cap |-> capacity])

\* A payment row that appeared after the load is not in the session yet, so
\* the SELECT by registration returns it as it is now.
PaySeen(s) == IF sess[s].pay = "none" THEN pay[sess[s].on] ELSE sess[s].pay
----------------------------------------------------------------------------
(* Waitlist helpers, run under the capacity lock. *)

Waiting == {e \in Entries : entry[e] = "waiting"}
Promoted == {e \in Entries : entry[e] = "promoted"}

\* next_waiting: of the waiting entries of these kinds, the one nobody is
\* ahead of.  (Mutant: ordered by joined_at, descending.)
Candidates(kinds) == {e \in Waiting : KindOf[EntryIdent[e]] \in kinds}
Latest(kinds) == {e \in Candidates(kinds) : \A f \in Candidates(kinds) : <<e, f>> \notin ahead}
Earliest(kinds) == {e \in Candidates(kinds) : \A f \in Candidates(kinds) : <<f, e>> \notin ahead}

\* A place is offered while there is one.  (Mutant: also when the event is full.)
OffersUnlessClosed(av) == av # "closed"
Offers(av) == av \in {"open", "limited"}

\* promote_next: the lapsed offers expire (_expire_locked), and then the
\* waitlist is closed or the next entry gets an offer.  st and n are the event
\* status and the active count as the transaction has written them.
PromoteNext(st, n, kinds) ==
    LET av == Availability(st, capacity, n) IN
    /\ \E lapsed \in SUBSET Promoted :
          entry' = [e \in Entries |->
                       IF av = "closed" /\ e \in Waiting THEN "closed"
                       ELSE IF Offers(av) /\ e \in Earliest(kinds)
                            THEN "promoted"
                       ELSE IF e \in lapsed THEN "expired" ELSE entry[e]]
    /\ ahead' = {p \in ahead : entry'[p[1]] = "waiting" /\ entry'[p[2]] = "waiting"}

\* _reopen_event_if_capacity_available, and its copies in PaymentService.
Reopened(n) ==
    IF /\ evStatus = "registration_closed"
       /\ Availability("registration_open", capacity, n) \in {"open", "limited"}
    THEN "registration_open" ELSE evStatus

\* The seat of r is released: its row ends, the event may reopen, and the
\* first waiting registrant of the same participation type gets an offer.
ReleaseSeat(r, new) ==
    LET n == CountActive([reg EXCEPT ![r] = new]) IN
    /\ SetReg(r, new)
    /\ evStatus' = Reopened(n)
    /\ PromoteNext(Reopened(n), n, {KindOf[IdentOf[r]]})
----------------------------------------------------------------------------
(* The event: the manager, the deadline and the two ways its status is     *)
(* brought in line with the deadline and the count.                        *)

PassDeadline ==
    /\ ~passed
    /\ passed' = TRUE
    /\ UNCHANGED <<evStatus, capacity, reg, moneyVars, waitVars, sess, revived, peak>>

\* upsert_configuration takes no lock.
SetCapacity(c) ==
    /\ c # capacity
    /\ capacity' = c
    /\ peak' = IF c > peak THEN c ELSE peak
    /\ UNCHANGED <<evStatus, passed, reg, moneyVars, waitVars, sess, revived>>

\* _synchronize_registration_state: an open event that is past its deadline
\* or full is closed.
\* Mutant: the deadline is left to the registration handler.
ClosedWhenFull(st, cap, n) ==
    IF st = "registration_open" /\ Availability(st, cap, n) = "full"
    THEN "registration_closed" ELSE st
Synchronized(st, cap, n) ==
    IF st = "registration_open" /\ Availability(st, cap, n) \in {"closed", "full"}
    THEN "registration_closed" ELSE st

\* get_event_or_raise, by any reader of the event or at the end of a
\* transition, which returns the event it has just committed.
ReadEvent(s) ==
    /\ sess[s] \in {Idle, Rereading}
    /\ evStatus' = Synchronized(evStatus, capacity, CountActive(reg))
    /\ Finish(s)
    /\ UNCHANGED <<capacity, passed, reg, moneyVars, waitVars, revived, peak>>

TransitionLoad(s, to) ==
    /\ sess[s] = Idle
    /\ LET st == Synchronized(evStatus, capacity, CountActive(reg)) IN
       /\ to \in AllowedNext[st]
       /\ evStatus' = st
    /\ sess' = [sess EXCEPT ![s] = [op |-> "transition", to |-> to]]
    /\ UNCHANGED <<capacity, passed, reg, moneyVars, waitVars, revived, peak>>

TransitionCommit(s) ==
    /\ sess[s].op = "transition"
    /\ evStatus' = sess[s].to
    /\ sess' = [sess EXCEPT ![s] = Rereading]
    /\ UNCHANGED <<capacity, passed, reg, moneyVars, waitVars, revived, peak>>

\* The 60 s job loads the open events first and takes the lock afterwards.
SyncLoad(s) ==
    /\ evStatus = "registration_open"
    /\ Load(s, [op |-> "sync", cap |-> capacity])

SyncCommit(s) ==
    /\ sess[s].op = "sync"
    /\ CapacityLockFree
    /\ evStatus' = Flush("registration_open",
                         Synchronized("registration_open", sess[s].cap, CountActive(reg)),
                         evStatus)
    /\ Finish(s)
    /\ UNCHANGED <<capacity, passed, reg, moneyVars, waitVars, revived, peak>>
----------------------------------------------------------------------------
(* Registrations.                                                          *)

CreateLoad(s, i) == LoadEvent(s, "create", i)

\* _ensure_registration_open refuses these; draft, configured and published
\* fall through.
NotAccepting == {"registration_closed", "live", "completed", "archived"}

\* Mutant: a confirmed registration does not count as a duplicate.
PendingDuplicate(i) == \E r \in Active : IdentOf[r] = i /\ reg[r] \in Decidable
Duplicate(i) == \E r \in Active : IdentOf[r] = i

\* Mutant: the capacity is not checked under the lock.
AdmissibleUncounted(x, n) ==
    ~passed /\ x.status \notin NotAccepting /\ ~Duplicate(x.on)
Admissible(x, n) ==
    /\ ~passed
    /\ x.status \notin NotAccepting
    /\ HasRoom(x.cap, n)
    /\ ~Duplicate(x.on)

FirstStatus == IF Approval THEN "pending_verification"
               ELSE IF Fee THEN "pending_payment" ELSE "confirmed"

\* A refusal for the deadline or the capacity closes an event loaded as open
\* and commits that; any other refusal writes nothing (Abort).
CreateRefused(s) ==
    /\ sess[s].op = "create"
    /\ CapacityLockFree
    /\ sess[s].status = "registration_open"
    /\ passed \/ ~HasRoom(sess[s].cap, CountActive(reg))
    /\ evStatus' = "registration_closed"
    /\ Finish(s)
    /\ UNCHANGED <<capacity, passed, reg, moneyVars, waitVars, revived, peak>>

CreateCommit(s, r) ==
    /\ sess[s].op = "create"
    /\ CapacityLockFree
    /\ reg[r] = "none"
    /\ IdentOf[r] = sess[s].on
    /\ Admissible(sess[s], CountActive(reg))
    /\ SetReg(r, FirstStatus)
    /\ ticket' = [ticket EXCEPT ![r] = IF FirstStatus = "confirmed" THEN "issued" ELSE @]
    /\ evStatus' = IF HasRoom(sess[s].cap, CountActive(reg) + 1)
                   THEN evStatus ELSE "registration_closed"
    /\ Finish(s)
    /\ UNCHANGED <<capacity, passed, pay, refund, waitVars, peak>>

\* The session closes without a commit: a check fails, the client goes away
\* or the process dies, and PostgreSQL rolls the transaction back.
Abort(s) ==
    /\ sess[s] # Idle
    /\ Finish(s)
    /\ UNCHANGED <<evStatus, capacity, passed, reg, moneyVars, waitVars, revived, peak>>

\* A cancelled registration's tickets are cancelled with it; a ticket is
\* issued unless the registration has one.
\* Mutants: the tickets stay valid; no ticket is issued.
KeptTicket(t) == t
CancelledTicket(t) == IF t = "none" THEN t ELSE "cancelled"
UnissuedTicket(t) == t
IssuedTicket(t) == IF t = "none" THEN "issued" ELSE t

\* The registration and its payment are loaded before the lock; the SELECT
\* after it returns the same, unrefreshed objects.
CancelLoad(s, r) ==
    /\ reg[r] \in Cancellable
    /\ Load(s, [op |-> "cancel", on |-> r, pay |-> pay[r]])

\* The ticket's row, which a scan holds FOR UPDATE, may be written.
TicketRowFree(r) == \A s \in Sessions : ~(sess[s].op = "checkin" /\ sess[s].on = r)

\* The refunds that _refunded_amount counts leave nothing to refund.
RefundCounted(r) == refund[r] \in {"pending", "processed"}

\* A paid registration keeps its seat until finance approves the refund.
CancelPaid(s) ==
    LET r == sess[s].on IN
    /\ sess[s].op = "cancel"
    /\ CapacityLockFree
    /\ PaySeen(s) = "verified"
    /\ ~RefundCounted(r) /\ ticket[r] # "checked_in"
    /\ refund' = [refund EXCEPT ![r] = "pending"]
    /\ SetReg(r, "refund_pending")
    /\ Finish(s)
    /\ UNCHANGED <<evStatus, capacity, passed, pay, ticket, waitVars, peak>>

CancelUnpaid(s) ==
    LET r == sess[s].on IN
    /\ sess[s].op = "cancel"
    /\ CapacityLockFree
    /\ TicketRowFree(r)
    /\ PaySeen(s) # "verified"
    /\ pay' = [pay EXCEPT ![r] = IF PaySeen(s) = "initiated" THEN "failed" ELSE @]
    /\ ticket' = [ticket EXCEPT ![r] = CancelledTicket(@)]
    /\ ReleaseSeat(r, "cancelled")
    /\ Finish(s)
    /\ UNCHANGED <<capacity, passed, refund, peak>>

\* decide_registration takes no lock.
ApproveLoad(s, r) ==
    /\ reg[r] \in Decidable
    /\ Load(s, [op |-> "approve", on |-> r, ticket |-> ticket[r]])

RejectLoad(s, r) ==
    /\ reg[r] \in Decidable
    /\ Load(s, [op |-> "reject", on |-> r])

\* Mutant: approval confirms a free registration and leaves the ticket to the
\* payment path.
ApproveWithoutTicket(s) ==
    /\ sess[s].op = "approve"
    /\ SetReg(sess[s].on, IF Fee THEN "approved" ELSE "confirmed")
    /\ Finish(s)
    /\ UNCHANGED <<evStatus, capacity, passed, moneyVars, waitVars, peak>>

\* A free registration gets its ticket, and with it "confirmed", unless the
\* ticket query (made at some point after the load) finds one.
ApproveCommit(s) ==
    LET r == sess[s].on IN
    /\ sess[s].op = "approve"
    /\ \E seen \in {sess[s].ticket, ticket[r]} :
           IF ~Fee /\ seen = "none"
           THEN /\ SetReg(r, "confirmed")
                /\ ticket' = [ticket EXCEPT ![r] = "issued"]
           ELSE /\ SetReg(r, "approved")
                /\ UNCHANGED ticket
    /\ Finish(s)
    /\ UNCHANGED <<evStatus, capacity, passed, pay, refund, waitVars, peak>>

RejectCommit(s) ==
    /\ sess[s].op = "reject"
    /\ SetReg(sess[s].on, "rejected")
    /\ Finish(s)
    /\ UNCHANGED <<evStatus, capacity, passed, moneyVars, waitVars, peak>>

\* The scan of a valid ticket (TicketPass models it in full) locks the
\* ticket's row and reads the registration, whose row it does not lock.
CheckInLoad(s, r) ==
    /\ TicketRowFree(r)
    /\ ticket[r] = "issued"
    /\ reg[r] \in Scannable
    /\ Fee => pay[r] = "verified"
    /\ Load(s, [op |-> "checkin", on |-> r, reg |-> reg[r]])

CheckInCommit(s) ==
    LET r == sess[s].on IN
    /\ sess[s].op = "checkin"
    /\ SetReg(r, Flush(sess[s].reg, "checked_in", reg[r]))
    /\ ticket' = [ticket EXCEPT ![r] = "checked_in"]
    /\ Finish(s)
    /\ UNCHANGED <<evStatus, capacity, passed, pay, refund, waitVars, peak>>
----------------------------------------------------------------------------
(* Payments, as far as they move the registration: PaymentLifecycle models *)
(* the orders, the provider and partial refunds.                           *)

InitiateLoad(s, r) ==
    /\ Fee
    /\ reg[r] \in Payable
    /\ Load(s, [op |-> "initiate", on |-> r, pay |-> pay[r]])

InitiateCommit(s) ==
    LET r == sess[s].on IN
    /\ sess[s].op = "initiate"
    /\ PaySeen(s) \notin {"initiated", "verified"}
    /\ pay' = [pay EXCEPT ![r] = "initiated"]
    /\ Finish(s)
    /\ UNCHANGED <<evStatus, capacity, passed, reg, refund, ticket, waitVars, revived, peak>>

\* The lock payment_verification:<payment>, held while the gateway is asked.
VerificationLockFree(r) == \A s \in Sessions : ~(sess[s].op = "verify" /\ sess[s].on = r)

VerifyLoad(s, r) ==
    /\ VerificationLockFree(r)
    /\ pay[r] \in {"initiated", "failed"}
    /\ reg[r] \notin {"rejected", "cancelled"}
    /\ Load(s, [op |-> "verify", on |-> r, reg |-> reg[r]])

VerifyCommit(s) ==
    LET r == sess[s].on IN
    /\ sess[s].op = "verify"
    /\ pay' = [pay EXCEPT ![r] = "verified"]
    /\ SetReg(r, Flush(sess[s].reg, "confirmed", reg[r]))
    /\ ticket' = [ticket EXCEPT ![r] = IssuedTicket(@)]
    /\ Finish(s)
    /\ UNCHANGED <<evStatus, capacity, passed, refund, waitVars, peak>>

\* /payments/verify with a signature or state the gateway does not accept.
RejectPayment(r) ==
    /\ VerificationLockFree(r)
    /\ pay[r] = "initiated"
    /\ pay' = [pay EXCEPT ![r] = "failed"]
    /\ UNCHANGED <<evStatus, capacity, passed, reg, refund, ticket, waitVars, sess, revived, peak>>

\* reconcile_payment when the provider reports a failed payment: the payment
\* is read before the call and its row written, hence locked, after it; the
\* registration is read after that, at some point before the commit.
ReleaseLoad(s, r) ==
    /\ pay[r] = "initiated"
    /\ Load(s, [op |-> "release", on |-> r, reg |-> reg[r]])

ReleaseCommit(s) ==
    LET r == sess[s].on IN
    /\ sess[s].op = "release"
    /\ pay' = [pay EXCEPT ![r] = "failed"]
    /\ \E seen \in IF pay[r] = "initiated" THEN {sess[s].reg, reg[r]} ELSE {reg[r]} :
          \/ /\ seen \in Payable
             /\ CapacityLockFree
             /\ ReleaseSeat(r, "cancelled")
          \/ /\ seen \notin Payable
             /\ UNCHANGED <<evStatus, reg, revived, waitVars>>
    /\ Finish(s)
    /\ UNCHANGED <<capacity, passed, refund, ticket, peak>>

\* A refund of the whole amount asked for by finance (no capacity lock).
\* A refund approval holds refund:<payment> as well.
RequestRefund(r) ==
    /\ \A s \in Sessions : ~(sess[s].op = "refund" /\ sess[s].on = r)
    /\ pay[r] = "verified"
    /\ ~RefundCounted(r)
    /\ reg[r] # "checked_in" /\ ticket[r] # "checked_in"
    /\ refund' = [refund EXCEPT ![r] = "pending"]
    /\ SetReg(r, IF reg[r] = "cancelled" THEN "cancelled" ELSE "refund_pending")
    /\ UNCHANGED <<evStatus, capacity, passed, pay, ticket, waitVars, sess, peak>>

\* approve_refund keeps the capacity lock until the gateway has answered.
RefundLoad(s, r) ==
    /\ CapacityLockFree
    /\ refund[r] = "pending"
    /\ pay[r] = "verified"
    /\ reg[r] # "checked_in" /\ ticket[r] # "checked_in"
    /\ Load(s, [op |-> "refund", on |-> r, reg |-> reg[r]])

RefundOk(s) ==
    LET r == sess[s].on IN
    /\ sess[s].op = "refund"
    /\ TicketRowFree(r)
    /\ refund' = [refund EXCEPT ![r] = "processed"]
    /\ pay' = [pay EXCEPT ![r] = "refunded"]
    /\ ticket' = [ticket EXCEPT ![r] = CancelledTicket(@)]
    /\ ReleaseSeat(r, Flush(sess[s].reg, "cancelled", reg[r]))
    /\ Finish(s)
    /\ UNCHANGED <<capacity, passed, peak>>

\* Mutant: a failed refund is given a status of the provider's.
RefundDeclined(s) ==
    LET r == sess[s].on IN
    /\ sess[s].op = "refund"
    /\ refund' = [refund EXCEPT ![r] = "declined"]
    /\ Finish(s)
    /\ UNCHANGED <<evStatus, capacity, passed, reg, pay, ticket, waitVars, revived, peak>>

RefundFails(s) ==
    LET r == sess[s].on IN
    /\ sess[s].op = "refund"
    /\ refund' = [refund EXCEPT ![r] = "failed"]
    /\ SetReg(r, IF sess[s].reg = "refund_pending" THEN "refund_failed" ELSE reg[r])
    /\ Finish(s)
    /\ UNCHANGED <<evStatus, capacity, passed, pay, ticket, waitVars, peak>>
----------------------------------------------------------------------------
(* The waitlist.                                                           *)

JoinLoad(s, e) ==
    /\ entry[e] = "none"
    /\ LoadEvent(s, "join", e)

OnWaitlist(i) == \E e \in Waiting \cup Promoted : EntryIdent[e] = i

OffTheLine(e) == {p \in ahead : e \notin {p[1], p[2]}}
AtTheEnd(e) == OffTheLine(e) \cup {<<f, e>> : f \in Waiting \ {e}}

\* The event was loaded before the lock, the count is taken after it.
JoinCommit(s) ==
    LET e == sess[s].on IN
    /\ sess[s].op = "join"
    /\ CapacityLockFree
    /\ entry[e] = "none"
    /\ Availability(sess[s].status, sess[s].cap, CountActive(reg)) = "full"
    /\ ~OnWaitlist(EntryIdent[e])
    /\ entry' = [entry EXCEPT ![e] = "waiting"]
    /\ ahead' = AtTheEnd(e)
    /\ Finish(s)
    /\ UNCHANGED <<evStatus, capacity, passed, reg, moneyVars, revived, peak>>

LeaveLoad(s, e) ==
    /\ entry[e] \in {"waiting", "promoted"}
    /\ Load(s, [op |-> "leave", on |-> e])

LeaveCommit(s) ==
    LET e == sess[s].on IN
    /\ sess[s].op = "leave"
    /\ CapacityLockFree
    /\ entry' = [entry EXCEPT ![e] = "left"]
    /\ ahead' = OffTheLine(e)
    /\ Finish(s)
    /\ UNCHANGED <<evStatus, capacity, passed, reg, moneyVars, revived, peak>>

RetryLoad(s, e) ==
    /\ entry[e] = "expired"
    /\ Load(s, [op |-> "retry", on |-> e])

\* joined_at is set to now: the entry goes to the end of the line.
RetryCommit(s) ==
    LET e == sess[s].on IN
    /\ sess[s].op = "retry"
    /\ CapacityLockFree
    /\ Availability(evStatus, capacity, CountActive(reg)) \in {"full", "limited"}
    /\ entry' = [entry EXCEPT ![e] = "waiting"]
    /\ ahead' = AtTheEnd(e)
    /\ Finish(s)
    /\ UNCHANGED <<evStatus, capacity, passed, reg, moneyVars, revived, peak>>

\* The 60 s job.  It commits only when an offer expired or was made, here or
\* in another event handled by the same run: closing the waiting entries is
\* by itself no reason to commit, and is rolled back.
\* Mutant: only an expiry is committed.
ExpiryCommits ==
    OtherEvents \/ \E e \in Entries : entry[e] = "promoted" /\ entry'[e] = "expired"
TickCommits ==
    \/ OtherEvents
    \/ \E e \in Entries : entry[e] = "promoted" /\ entry'[e] = "expired"
    \/ \E e \in Entries : entry[e] = "waiting" /\ entry'[e] = "promoted"

ExpireAndPromote ==
    /\ CapacityLockFree
    /\ PromoteNext(evStatus, CountActive(reg), Kinds)
    /\ Waiting # {} \/ entry' # entry
    /\ TickCommits
    /\ UNCHANGED <<evStatus, capacity, passed, reg, moneyVars, sess, revived, peak>>
----------------------------------------------------------------------------
EventStep ==
    \/ PassDeadline
    \/ \E c \in Capacities : SetCapacity(c)
    \/ \E s \in Sessions :
          \/ ReadEvent(s)
          \/ \E to \in EventStatus : TransitionLoad(s, to)
          \/ TransitionCommit(s)
          \/ SyncLoad(s)
          \/ SyncCommit(s)
          \/ Abort(s)

RegistrationStep ==
    \E s \in Sessions :
       \/ \E i \in Idents : CreateLoad(s, i)
       \/ CreateRefused(s)
       \/ \E r \in Regs : CreateCommit(s, r)
       \/ \E r \in Regs : CancelLoad(s, r)
       \/ CancelPaid(s)
       \/ CancelUnpaid(s)
       \/ \E r \in Regs : ApproveLoad(s, r)
       \/ ApproveCommit(s)
       \/ \E r \in Regs : RejectLoad(s, r)
       \/ RejectCommit(s)
       \/ \E r \in Regs : CheckInLoad(s, r)
       \/ CheckInCommit(s)

PaymentStep ==
    \/ \E r \in Regs : RejectPayment(r)
    \/ \E r \in Regs : RequestRefund(r)
    \/ \E s \in Sessions :
          \/ \E r \in Regs : InitiateLoad(s, r)
          \/ InitiateCommit(s)
          \/ \E r \in Regs : VerifyLoad(s, r)
          \/ VerifyCommit(s)
          \/ \E r \in Regs : ReleaseLoad(s, r)
          \/ ReleaseCommit(s)
          \/ \E r \in Regs : RefundLoad(s, r)
          \/ RefundOk(s)
          \/ RefundFails(s)

WaitlistStep ==
    \/ ExpireAndPromote
    \/ \E s \in Sessions :
          \/ \E e \in Entries : JoinLoad(s, e)
          \/ JoinCommit(s)
          \/ \E e \in Entries : LeaveLoad(s, e)
          \/ LeaveCommit(s)
          \/ \E e \in Entries : RetryLoad(s, e)
          \/ RetryCommit(s)

Next == EventStep \/ RegistrationStep \/ PaymentStep \/ WaitlistStep

Spec == Init /\ [][Next]_vars
----------------------------------------------------------------------------
(* Properties.                                                             *)

\* The registrations that never ended and hold a seat are at most the largest
\* capacity the event ever had, whatever capacity, status and payment the
\* concurrent requests had loaded when they took the lock.
SeatsWithinPeak == Cardinality(Active \ revived) <= peak

\* A registrant holds at most one seat that was not given back to an ended
\* registration (find_duplicate under the capacity lock).
OneSeatPerIdent ==
    \A r, q \in Active \ revived : IdentOf[r] = IdentOf[q] => r = q

\* Whoever may be let in, or may claim a refund, has a ticket.
SeatHasTicket ==
    \A r \in Regs : reg[r] \in Scannable \cup {"refund_pending"} => ticket[r] # "none"

\* A valid ticket exists only for a registration that is confirmed, or whose
\* refund has been asked for.
TicketMeansConfirmed ==
    \A r \in Regs : ticket[r] = "issued" =>
        reg[r] \in {"confirmed", "refund_pending", "refund_failed"}

\* Somebody is offered a place only by a transaction after which the event is
\* open, has a free seat and is before its deadline.
OfferedNow(e) == entry[e] # "promoted" /\ entry'[e] = "promoted"
OffersHaveRoom ==
    [][\A e \in Entries : OfferedNow(e) =>
          /\ evStatus' = "registration_open" /\ ~passed'
          /\ Cardinality(Active') < capacity']_vars

\* Among registrants of the same participation type the offer goes to the one
\* who has waited longest since joining, or since the last retry.
OffersInOrder ==
    [][\A e, f \in Entries :
          OfferedNow(e) /\ <<f, e>> \in ahead =>
              KindOf[EntryIdent[f]] # KindOf[EntryIdent[e]]]_vars

Created(r) == reg[r] = "none" /\ reg'[r] # "none"

\* The registration that takes the last seat of an open event leaves it in the
\* state in which the others may join the waitlist.
FillingOpensWaitlist ==
    [][/\ \E r \in Regs : Created(r)
       /\ evStatus = "registration_open" /\ ~passed
       /\ Cardinality(Active') >= capacity
       => Availability(evStatus', capacity', CountActive(reg')) = "full"]_vars

\* The ledger that an event with neither a fee nor approval implements: a seat
\* is held by an active registration and given up for good by one that ended.
Ledger == INSTANCE SeatLedger WITH
    seat <- [r \in Regs |-> CASE reg[r] \in ActiveStatus -> "held"
                              [] reg[r] \in {"rejected", "cancelled"} -> "given_up"
                              [] OTHER -> "never"]
----------------------------------------------------------------------------
(* Liveness.  Only the scheduled jobs are assumed to run: Celery Beat      *)
(* starts each of them every 60 s, acknowledges a task after it ran and    *)
(* requeues it when the worker is lost.  A request may stop at any time,   *)
(* and does not keep its session for ever.                                 *)

JobFairness ==
    /\ \A s \in Sessions : WF_vars(Abort(s))
    /\ SF_vars(\E s \in Sessions : SyncLoad(s))
    /\ \A s \in Sessions : SF_vars(SyncCommit(s))
    /\ WF_vars(ExpireAndPromote)

FairSpec == Spec /\ JobFairness

\* An open event that is full or past its deadline does not stay so: a seat
\* gets free or the event is closed, by a request or by the job.
DoorShuts ==
    (evStatus = "registration_open" /\ (passed \/ ~HasRoom(capacity, CountActive(reg))))
        ~> (evStatus # "registration_open" \/ (~passed /\ HasRoom(capacity, CountActive(reg))))

\* If the event ends up open with free seats for good, nobody waits for ever.
HasPlaces == Availability(evStatus, capacity, CountActive(reg)) \in {"open", "limited"}
NobodyStarves ==
    \A e \in Entries : <>[]HasPlaces => []<>(entry[e] # "waiting")

\* After the deadline every waiting entry is closed.
DeadlineEndsWaiting ==
    \A e \in Entries : (passed /\ entry[e] = "waiting") ~> (entry[e] # "waiting")
============================================================================
