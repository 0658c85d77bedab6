---------------------- MODULE RegistrationSeats_proofs ----------------------
(***************************************************************************)
(* Theorems about RegistrationSeats, for every set of registrations,       *)
(* registrants, waitlist entries, sessions and capacities.  The last two   *)
(* are about the run SeatsFree; of MCSeatsFree, which assumes nothing,     *)
(* the others use only the component.                                      *)
(***************************************************************************)
EXTENDS MCSeatsFree, FiniteSetTheorems, TLAPS

USE ConstantsAssumption, StartAssumption

(***************************************************************************)
(* Type correctness.                                                       *)
(***************************************************************************)

\* Every status the model names is of its type.
LEMMA StatusTypes ==
    /\ FirstStatus \in RegStatus
    /\ \A n : Reopened(n) \in EventStatus \/ evStatus \notin EventStatus
    /\ \A st \in EventStatus : AllowedNext[st] \subseteq EventStatus
BY DEF FirstStatus, RegStatus, ActiveStatus, Reopened, EventStatus, AllowedNext

\* Writing a status keeps the rows and the history variable well-typed.
LEMMA SetRegType ==
    ASSUME TypeOK, NEW r \in Regs, NEW new \in RowStatus, SetReg(r, new)
    PROVE  reg' \in [Regs -> RowStatus] /\ revived' \subseteq Regs
BY DEF TypeOK, SetReg

\* Promotion, whatever its arguments, keeps the waitlist well-typed.
LEMMA PromoteType ==
    ASSUME TypeOK, NEW st, NEW n, NEW kinds, PromoteNext(st, n, kinds)
    PROVE  entry' \in [Entries -> EntryStatus] /\ ahead' \subseteq Entries \X Entries
BY DEF TypeOK, PromoteNext, EntryStatus, Promoted, Candidates, Earliest, Waiting

\* Releasing a seat keeps the event, the registrations and the waitlist
\* well-typed.
LEMMA ReleaseType ==
    ASSUME TypeOK, NEW r \in Regs, NEW new \in RowStatus, ReleaseSeat(r, new)
    PROVE  /\ evStatus' \in EventStatus
           /\ reg' \in [Regs -> RowStatus] /\ revived' \subseteq Regs
           /\ entry' \in [Entries -> EntryStatus] /\ ahead' \subseteq Entries \X Entries
<1>1. SetReg(r, new) BY DEF ReleaseSeat
<1>2. reg' \in [Regs -> RowStatus] /\ revived' \subseteq Regs
  BY <1>1, SetRegType
<1>3. \E st, n, kinds : PromoteNext(st, n, kinds) BY Zenon DEF ReleaseSeat
<1>4. entry' \in [Entries -> EntryStatus] /\ ahead' \subseteq Entries \X Entries
  BY <1>3, PromoteType
<1>5. evStatus' \in EventStatus
  BY DEF ReleaseSeat, Reopened, TypeOK, EventStatus
<1> QED BY <1>2, <1>4, <1>5

\* What a session loads is well-typed if the record is.
LEMMA LoadType ==
    ASSUME TypeOK, NEW s \in Sessions, NEW x \in SessionState, Load(s, x)
    PROVE  TypeOK'
BY DEF TypeOK, Load, moneyVars, waitVars

\* A request that ends leaves its session idle.
LEMMA FinishType ==
    ASSUME TypeOK, NEW s \in Sessions, Finish(s)
    PROVE  sess' \in [Sessions -> SessionState]
<1> Idle \in SessionState BY DEF SessionState
<1> QED BY DEF TypeOK, Finish

LEMMA InitType == Init => TypeOK
BY DEF Init, TypeOK, RowStatus, PayStatus, RefundStatus, TicketStatus, EntryStatus, SessionState

LEMMA EventStepType == TypeOK /\ EventStep => TypeOK'
<1> SUFFICES ASSUME TypeOK, EventStep PROVE TypeOK' OBVIOUS
<1> USE DEF moneyVars, waitVars
<1>1. CASE PassDeadline BY <1>1 DEF PassDeadline, TypeOK
<1>2. ASSUME NEW c \in Capacities, SetCapacity(c) PROVE TypeOK'
  BY <1>2 DEF SetCapacity, TypeOK
<1>3. ASSUME NEW s \in Sessions, ReadEvent(s) PROVE TypeOK'
  <2>1. evStatus' \in EventStatus BY <1>3 DEF ReadEvent, Synchronized, TypeOK, EventStatus
  <2>2. sess' \in [Sessions -> SessionState] BY <1>3, FinishType DEF ReadEvent
  <2> QED BY <1>3, <2>1, <2>2 DEF ReadEvent, TypeOK
<1>4. ASSUME NEW s \in Sessions, NEW to \in EventStatus, TransitionLoad(s, to) PROVE TypeOK'
  <2>1. evStatus' \in EventStatus BY <1>4 DEF TransitionLoad, Synchronized, TypeOK, EventStatus
  <2>2. [op |-> "transition", to |-> to] \in SessionState BY DEF SessionState
  <2> QED BY <1>4, <2>1, <2>2 DEF TransitionLoad, TypeOK
<1>5. ASSUME NEW s \in Sessions, TransitionCommit(s) PROVE TypeOK'
  <2>1. evStatus' \in EventStatus
    BY <1>5 DEF TransitionCommit, TypeOK, SessionState, Idle, Rereading
  <2>2. Rereading \in SessionState BY DEF SessionState
  <2> QED BY <1>5, <2>1, <2>2 DEF TransitionCommit, TypeOK
<1>6. ASSUME NEW s \in Sessions, SyncLoad(s) PROVE TypeOK'
  <2>1. [op |-> "sync", cap |-> capacity] \in SessionState BY DEF SessionState, TypeOK
  <2> QED BY <1>6, <2>1, LoadType DEF SyncLoad
<1>7. ASSUME NEW s \in Sessions, SyncCommit(s) PROVE TypeOK'
  <2>1. evStatus' \in EventStatus
    BY <1>7 DEF SyncCommit, Synchronized, Flush, TypeOK, EventStatus
  <2>2. sess' \in [Sessions -> SessionState] BY <1>7, FinishType DEF SyncCommit
  <2> QED BY <1>7, <2>1, <2>2 DEF SyncCommit, TypeOK
<1>8. ASSUME NEW s \in Sessions, Abort(s) PROVE TypeOK'
  <2>1. sess' \in [Sessions -> SessionState] BY <1>8, FinishType DEF Abort
  <2> QED BY <1>8, <2>1 DEF Abort, TypeOK
<1> QED BY <1>1, <1>2, <1>3, <1>4, <1>5, <1>6, <1>7, <1>8 DEF EventStep

LEMMA RegistrationStepType == TypeOK /\ RegistrationStep => TypeOK'
<1> SUFFICES ASSUME TypeOK, RegistrationStep PROVE TypeOK' OBVIOUS
<1> USE DEF moneyVars, waitVars
<1>1. ASSUME NEW s \in Sessions, NEW r \in Regs, CheckInLoad(s, r) PROVE TypeOK'
  <2>1. [op |-> "checkin", on |-> r, reg |-> reg[r]] \in SessionState
    BY DEF SessionState, TypeOK
  <2> QED BY <1>1, <2>1, LoadType DEF CheckInLoad
<1>2. ASSUME NEW s \in Sessions, NEW i \in Idents, CreateLoad(s, i) PROVE TypeOK'
  <2>1. [op |-> "create", on |-> i, status |-> evStatus, cap |-> capacity] \in SessionState
    BY DEF SessionState, TypeOK
  <2> QED BY <1>2, <2>1, LoadType DEF CreateLoad, LoadEvent
<1>3. ASSUME NEW s \in Sessions, CreateRefused(s) PROVE TypeOK'
  <2>1. sess' \in [Sessions -> SessionState] BY <1>3, FinishType DEF CreateRefused
  <2> QED BY <1>3, <2>1 DEF CreateRefused, TypeOK, EventStatus
<1>4. ASSUME NEW s \in Sessions, NEW r \in Regs, CreateCommit(s, r) PROVE TypeOK'
  <2>1. sess' \in [Sessions -> SessionState] BY <1>4, FinishType DEF CreateCommit
  <2>2. reg' \in [Regs -> RowStatus] /\ revived' \subseteq Regs
    BY <1>4, SetRegType, StatusTypes DEF CreateCommit, RowStatus
  <2>3. ticket' \in [Regs -> TicketStatus]
    BY <1>4 DEF CreateCommit, TypeOK, TicketStatus
  <2>4. evStatus' \in EventStatus
    BY <1>4 DEF CreateCommit, TypeOK, EventStatus
  <2> QED BY <1>4, <2>1, <2>2, <2>3, <2>4 DEF CreateCommit, TypeOK
<1>5. ASSUME NEW s \in Sessions, NEW r \in Regs, CancelLoad(s, r) PROVE TypeOK'
  <2>1. [op |-> "cancel", on |-> r, pay |-> pay[r]] \in SessionState BY DEF SessionState, TypeOK
  <2> QED BY <1>5, <2>1, LoadType DEF CancelLoad
<1>6. ASSUME NEW s \in Sessions, CancelPaid(s) PROVE TypeOK'
  <2>1. sess[s].on \in Regs BY <1>6 DEF CancelPaid, TypeOK, SessionState, Idle, Rereading
  <2>2. sess' \in [Sessions -> SessionState] BY <1>6, FinishType DEF CancelPaid
  <2>3. "refund_pending" \in RowStatus BY DEF RowStatus, RegStatus, ActiveStatus
  <2>4. reg' \in [Regs -> RowStatus] /\ revived' \subseteq Regs
    BY <1>6, <2>1, <2>3, SetRegType DEF CancelPaid
  <2> QED BY <1>6, <2>1, <2>2, <2>4 DEF CancelPaid, TypeOK, RefundStatus
<1>7. ASSUME NEW s \in Sessions, CancelUnpaid(s) PROVE TypeOK'
  <2>1. sess[s].on \in Regs BY <1>7 DEF CancelUnpaid, TypeOK, SessionState, Idle, Rereading
  <2>2. sess' \in [Sessions -> SessionState] BY <1>7, FinishType DEF CancelUnpaid
  <2>3. "cancelled" \in RowStatus BY DEF RowStatus, RegStatus, ActiveStatus
  <2>4. /\ pay' \in [Regs -> PayStatus]
        /\ ticket' \in [Regs -> TicketStatus]
    BY <1>7, <2>1 DEF CancelUnpaid, TypeOK, PayStatus, TicketStatus, CancelledTicket
  <2> QED BY <1>7, <2>1, <2>2, <2>3, <2>4, ReleaseType DEF CancelUnpaid, TypeOK
<1>8. ASSUME NEW s \in Sessions, NEW r \in Regs, ApproveLoad(s, r) PROVE TypeOK'
  <2>1. [op |-> "approve", on |-> r, ticket |-> ticket[r]] \in SessionState
    BY DEF SessionState, TypeOK
  <2> QED BY <1>8, <2>1, LoadType DEF ApproveLoad
<1>9. ASSUME NEW s \in Sessions, ApproveCommit(s) PROVE TypeOK'
  <2>1. sess[s].on \in Regs BY <1>9 DEF ApproveCommit, TypeOK, SessionState, Idle, Rereading
  <2>2. sess' \in [Sessions -> SessionState] BY <1>9, FinishType DEF ApproveCommit
  <2>3. "confirmed" \in RowStatus /\ "approved" \in RowStatus
    BY DEF RowStatus, RegStatus, ActiveStatus
  <2>4. reg' \in [Regs -> RowStatus] /\ revived' \subseteq Regs
    BY <1>9, <2>1, <2>3, SetRegType DEF ApproveCommit
  <2>5. ticket' \in [Regs -> TicketStatus]
    BY <1>9, <2>1 DEF ApproveCommit, TypeOK, TicketStatus
  <2> QED BY <1>9, <2>2, <2>4, <2>5 DEF ApproveCommit, TypeOK
<1>10. ASSUME NEW s \in Sessions, NEW r \in Regs, RejectLoad(s, r) PROVE TypeOK'
  <2>1. [op |-> "reject", on |-> r] \in SessionState BY DEF SessionState
  <2> QED BY <1>10, <2>1, LoadType DEF RejectLoad
<1>11. ASSUME NEW s \in Sessions, RejectCommit(s) PROVE TypeOK'
  <2>1. sess[s].on \in Regs BY <1>11 DEF RejectCommit, TypeOK, SessionState, Idle, Rereading
  <2>2. sess' \in [Sessions -> SessionState] BY <1>11, FinishType DEF RejectCommit
  <2>3. reg' \in [Regs -> RowStatus] /\ revived' \subseteq Regs
    BY <1>11, <2>1, SetRegType DEF RejectCommit, RowStatus, RegStatus, ActiveStatus
  <2> QED BY <1>11, <2>2, <2>3 DEF RejectCommit, TypeOK
<1>12. ASSUME NEW s \in Sessions, CheckInCommit(s) PROVE TypeOK'
  <2>1. sess[s].on \in Regs BY <1>12 DEF CheckInCommit, TypeOK, SessionState, Idle, Rereading
  <2>2. sess' \in [Sessions -> SessionState] BY <1>12, FinishType DEF CheckInCommit
  <2>3. Flush(sess[s].reg, "checked_in", reg[sess[s].on]) \in RowStatus
    BY <2>1 DEF Flush, TypeOK, RowStatus, RegStatus, ActiveStatus
  <2>4. reg' \in [Regs -> RowStatus] /\ revived' \subseteq Regs
    BY <1>12, <2>1, <2>3, SetRegType DEF CheckInCommit
  <2>5. ticket' \in [Regs -> TicketStatus]
    BY <1>12, <2>1 DEF CheckInCommit, TypeOK, TicketStatus
  <2> QED BY <1>12, <2>2, <2>4, <2>5 DEF CheckInCommit, TypeOK
<1> QED BY <1>1, <1>2, <1>3, <1>4, <1>5, <1>6, <1>7, <1>8, <1>9, <1>10, <1>11, <1>12
      DEF RegistrationStep

LEMMA PaymentStepType == TypeOK /\ PaymentStep => TypeOK'
<1> SUFFICES ASSUME TypeOK, PaymentStep PROVE TypeOK' OBVIOUS
<1> USE DEF moneyVars, waitVars
<1>0. RegStatus \subseteq RowStatus /\ {"cancelled", "confirmed", "refund_pending", "refund_failed"} \subseteq RegStatus
  BY DEF RowStatus, RegStatus, ActiveStatus
<1>1. ASSUME NEW r \in Regs, RejectPayment(r) PROVE TypeOK'
  BY <1>1 DEF RejectPayment, TypeOK, PayStatus
<1>2. ASSUME NEW r \in Regs, RequestRefund(r) PROVE TypeOK'
  <2>1. reg' \in [Regs -> RowStatus] /\ revived' \subseteq Regs
    BY <1>0, <1>2, SetRegType DEF RequestRefund
  <2> QED BY <1>2, <2>1 DEF RequestRefund, TypeOK, RefundStatus
<1>3. ASSUME NEW s \in Sessions, NEW r \in Regs, InitiateLoad(s, r) PROVE TypeOK'
  <2>1. [op |-> "initiate", on |-> r, pay |-> pay[r]] \in SessionState
    BY DEF SessionState, TypeOK
  <2> QED BY <1>3, <2>1, LoadType DEF InitiateLoad
<1>4. ASSUME NEW s \in Sessions, InitiateCommit(s) PROVE TypeOK'
  <2>1. sess' \in [Sessions -> SessionState] BY <1>4, FinishType DEF InitiateCommit
  <2> QED BY <1>4, <2>1 DEF InitiateCommit, TypeOK, PayStatus
<1>5. ASSUME NEW s \in Sessions, NEW r \in Regs, VerifyLoad(s, r) PROVE TypeOK'
  <2>1. [op |-> "verify", on |-> r, reg |-> reg[r]] \in SessionState BY DEF SessionState, TypeOK
  <2> QED BY <1>5, <2>1, LoadType DEF VerifyLoad
<1>6. ASSUME NEW s \in Sessions, VerifyCommit(s) PROVE TypeOK'
  <2>1. sess[s].on \in Regs BY <1>6 DEF VerifyCommit, TypeOK, SessionState, Idle, Rereading
  <2>2. sess' \in [Sessions -> SessionState] BY <1>6, FinishType DEF VerifyCommit
  <2>3. Flush(sess[s].reg, "confirmed", reg[sess[s].on]) \in RowStatus
    BY <1>0, <2>1 DEF Flush, TypeOK
  <2>4. reg' \in [Regs -> RowStatus] /\ revived' \subseteq Regs
    BY <1>6, <2>1, <2>3, SetRegType DEF VerifyCommit
  <2> QED BY <1>6, <2>1, <2>2, <2>4 DEF VerifyCommit, TypeOK, PayStatus, TicketStatus, IssuedTicket
<1>7. ASSUME NEW s \in Sessions, NEW r \in Regs, ReleaseLoad(s, r) PROVE TypeOK'
  <2>1. [op |-> "release", on |-> r, reg |-> reg[r]] \in SessionState BY DEF SessionState, TypeOK
  <2> QED BY <1>7, <2>1, LoadType DEF ReleaseLoad
<1>8. ASSUME NEW s \in Sessions, ReleaseCommit(s) PROVE TypeOK'
  <2>1. sess[s].on \in Regs BY <1>8 DEF ReleaseCommit, TypeOK, SessionState, Idle, Rereading
  <2>2. sess' \in [Sessions -> SessionState] BY <1>8, FinishType DEF ReleaseCommit
  <2>3. pay' \in [Regs -> PayStatus] BY <1>8 DEF ReleaseCommit, TypeOK, PayStatus
  <2>4. CASE ReleaseSeat(sess[s].on, "cancelled")
    BY <1>0, <1>8, <2>1, <2>2, <2>3, <2>4, ReleaseType DEF ReleaseCommit, TypeOK
  <2>5. CASE UNCHANGED <<evStatus, reg, revived, entry, ahead>>
    BY <1>8, <2>2, <2>3, <2>5 DEF ReleaseCommit, TypeOK
  <2> QED BY <1>8, <2>4, <2>5 DEF ReleaseCommit
<1>9. ASSUME NEW s \in Sessions, NEW r \in Regs, RefundLoad(s, r) PROVE TypeOK'
  <2>1. [op |-> "refund", on |-> r, reg |-> reg[r]] \in SessionState BY DEF SessionState, TypeOK
  <2> QED BY <1>9, <2>1, LoadType DEF RefundLoad
<1>10. ASSUME NEW s \in Sessions, RefundOk(s) PROVE TypeOK'
  <2>1. sess[s].on \in Regs BY <1>10 DEF RefundOk, TypeOK, SessionState, Idle, Rereading
  <2>2. sess' \in [Sessions -> SessionState] BY <1>10, FinishType DEF RefundOk
  <2>3. Flush(sess[s].reg, "cancelled", reg[sess[s].on]) \in RowStatus
    BY <1>0, <2>1 DEF Flush, TypeOK
  <2>4. /\ pay' \in [Regs -> PayStatus] /\ refund' \in [Regs -> RefundStatus]
        /\ ticket' \in [Regs -> TicketStatus]
    BY <1>10 DEF RefundOk, TypeOK, PayStatus, RefundStatus, TicketStatus, CancelledTicket
  <2> QED BY <1>10, <2>1, <2>2, <2>3, <2>4, ReleaseType DEF RefundOk, TypeOK
<1>11. ASSUME NEW s \in Sessions, RefundFails(s) PROVE TypeOK'
  <2>1. sess[s].on \in Regs BY <1>11 DEF RefundFails, TypeOK, SessionState, Idle, Rereading
  <2>2. sess' \in [Sessions -> SessionState] BY <1>11, FinishType DEF RefundFails
  <2>3. reg' \in [Regs -> RowStatus] /\ revived' \subseteq Regs
    BY <1>0, <1>11, <2>1, SetRegType DEF RefundFails, TypeOK
  <2> QED BY <1>11, <2>2, <2>3 DEF RefundFails, TypeOK, RefundStatus
<1> QED BY <1>1, <1>2, <1>3, <1>4, <1>5, <1>6, <1>7, <1>8, <1>9, <1>10, <1>11
      DEF PaymentStep

LEMMA WaitlistStepType == TypeOK /\ WaitlistStep => TypeOK'
<1> SUFFICES ASSUME TypeOK, WaitlistStep PROVE TypeOK' OBVIOUS
<1> USE DEF moneyVars, waitVars
<1>0. \A e \in Entries : /\ OffTheLine(e) \subseteq Entries \X Entries
                         /\ AtTheEnd(e) \subseteq Entries \X Entries
  BY DEF TypeOK, OffTheLine, AtTheEnd, Waiting
<1>1. CASE ExpireAndPromote
  BY <1>1, PromoteType DEF ExpireAndPromote, TypeOK
<1>2. ASSUME NEW s \in Sessions, NEW e \in Entries, JoinLoad(s, e) PROVE TypeOK'
  <2>1. [op |-> "join", on |-> e, status |-> evStatus, cap |-> capacity] \in SessionState
    BY DEF SessionState, TypeOK
  <2> QED BY <1>2, <2>1, LoadType DEF JoinLoad, LoadEvent
<1>3. ASSUME NEW s \in Sessions, JoinCommit(s) PROVE TypeOK'
  <2>1. sess[s].on \in Entries BY <1>3 DEF JoinCommit, TypeOK, SessionState, Idle, Rereading
  <2>2. sess' \in [Sessions -> SessionState] BY <1>3, FinishType DEF JoinCommit
  <2> QED BY <1>0, <1>3, <2>1, <2>2 DEF JoinCommit, TypeOK, EntryStatus
<1>4. ASSUME NEW s \in Sessions, NEW e \in Entries, LeaveLoad(s, e) PROVE TypeOK'
  <2>1. [op |-> "leave", on |-> e] \in SessionState BY DEF SessionState
  <2> QED BY <1>4, <2>1, LoadType DEF LeaveLoad
<1>5. ASSUME NEW s \in Sessions, LeaveCommit(s) PROVE TypeOK'
  <2>1. sess[s].on \in Entries BY <1>5 DEF LeaveCommit, TypeOK, SessionState, Idle, Rereading
  <2>2. sess' \in [Sessions -> SessionState] BY <1>5, FinishType DEF LeaveCommit
  <2> QED BY <1>0, <1>5, <2>1, <2>2 DEF LeaveCommit, TypeOK, EntryStatus
<1>6. ASSUME NEW s \in Sessions, NEW e \in Entries, RetryLoad(s, e) PROVE TypeOK'
  <2>1. [op |-> "retry", on |-> e] \in SessionState BY DEF SessionState
  <2> QED BY <1>6, <2>1, LoadType DEF RetryLoad
<1>7. ASSUME NEW s \in Sessions, RetryCommit(s) PROVE TypeOK'
  <2>1. sess[s].on \in Entries BY <1>7 DEF RetryCommit, TypeOK, SessionState, Idle, Rereading
  <2>2. sess' \in [Sessions -> SessionState] BY <1>7, FinishType DEF RetryCommit
  <2> QED BY <1>0, <1>7, <2>1, <2>2 DEF RetryCommit, TypeOK, EntryStatus
<1> QED BY <1>1, <1>2, <1>3, <1>4, <1>5, <1>6, <1>7 DEF WaitlistStep

LEMMA TypeStep == TypeOK /\ [Next]_vars => TypeOK'
<1> SUFFICES ASSUME TypeOK, [Next]_vars PROVE TypeOK' OBVIOUS
<1>1. CASE UNCHANGED vars BY <1>1 DEF TypeOK, vars, moneyVars, waitVars
<1> QED BY <1>1, EventStepType, RegistrationStepType, PaymentStepType, WaitlistStepType DEF Next

\* Every reachable state is well-typed: in particular no handler writes a
\* status outside its enumeration and no request works on a missing record.
THEOREM TypeCorrect == Spec => []TypeOK
<1> QED BY InitType, TypeStep, PTL DEF Spec

(***************************************************************************)
(* Capacity and duplicates.  SeatsWithinPeak and OneSeatPerIdent are not   *)
(* inductive alone: a creation compares the count with the capacity it had *)
(* LOADED, so the capacities that sessions hold must not exceed the peak,  *)
(* and a step that writes the status of a registration must not thereby    *)
(* bring a row into existence that no capacity check has seen.             *)
(***************************************************************************)

\* The operations that work on an existing registration.
RegOps == {"cancel", "approve", "reject", "checkin",
           "initiate", "verify", "release", "refund"}

SessionOK(x, rg, pk) ==
    /\ x.op = "create" => x.cap <= pk
    /\ x.op \in RegOps => rg[x.on] # "none"

SeatInv ==
    /\ TypeOK
    /\ capacity <= peak
    /\ \A s \in Sessions : SessionOK(sess[s], reg, peak)
    /\ \A r \in Regs : pay[r] # "none" => reg[r] # "none"
    /\ SeatsWithinPeak
    /\ OneSeatPerIdent

\* What a step that admits nobody does: no seat is taken by a row that never
\* ended, no row disappears, and what sessions hold stays justified.
SeatsKept == (Active \ revived)' \subseteq Active \ revived
RowsKept == \A r \in Regs : reg[r] # "none" => reg'[r] # "none"
PaymentsOfRows == \A r \in Regs : pay'[r] # "none" => pay[r] # "none" \/ reg'[r] # "none"
SessionsKept == \A s \in Sessions : sess'[s] = sess[s] \/ SessionOK(sess'[s], reg, peak)

LEMMA SeatStep ==
    ASSUME SeatInv, TypeOK', SeatsKept, RowsKept, PaymentsOfRows, SessionsKept,
           peak' >= peak, capacity' <= peak'
    PROVE  SeatInv'
<1>1. SeatsWithinPeak'
  <2>1. IsFiniteSet(Active \ revived)
    <3>1. Active \ revived \subseteq Regs BY DEF Active, ActiveIn
    <3> QED BY <3>1, FS_Subset
  <2>2. /\ IsFiniteSet((Active \ revived)')
        /\ Cardinality((Active \ revived)') <= Cardinality(Active \ revived)
    BY <2>1, FS_Subset DEF SeatsKept
  <2>3. Cardinality(Active \ revived) \in Nat /\ Cardinality((Active \ revived)') \in Nat
    BY <2>1, <2>2, FS_CardinalityType
  <2> QED BY <2>2, <2>3 DEF SeatInv, SeatsWithinPeak, TypeOK
<1>2. OneSeatPerIdent'
  BY DEF SeatsKept, SeatInv, OneSeatPerIdent
<1>3. \A s \in Sessions : SessionOK(sess'[s], reg', peak')
  <2> SUFFICES ASSUME NEW s \in Sessions PROVE SessionOK(sess'[s], reg', peak') OBVIOUS
  <2>1. SessionOK(sess'[s], reg, peak) BY DEF SessionsKept, SeatInv
  <2>2. sess'[s] \in SessionState BY DEF TypeOK
  <2>3. sess'[s].op \in RegOps => sess'[s].on \in Regs
    BY <2>2 DEF SessionState, RegOps, Idle, Rereading
  <2>4. sess'[s].op = "create" => sess'[s].cap \in Nat
    BY <2>2 DEF SessionState, Idle, Rereading
  <2> QED BY <2>1, <2>3, <2>4 DEF SessionOK, RowsKept, SeatInv, TypeOK
<1>4. \A r \in Regs : pay'[r] # "none" => reg'[r] # "none"
  BY DEF PaymentsOfRows, RowsKept, SeatInv
<1> QED BY <1>1, <1>2, <1>3, <1>4 DEF SeatInv

\* Writing the status of a row that exists takes no seat.
LEMMA SetRegKeeps ==
    ASSUME TypeOK, NEW r \in Regs, NEW new \in RegStatus, reg[r] # "none", SetReg(r, new)
    PROVE  SeatsKept /\ RowsKept
<1>1. "none" \notin RegStatus BY DEF RegStatus, ActiveStatus
<1>2. RowsKept BY <1>1 DEF RowsKept, SetReg, TypeOK
<1>3. \A q \in Regs \ {r} : reg'[q] = reg[q] BY DEF SetReg, TypeOK
<1>4. reg'[r] = new BY DEF SetReg, TypeOK
<1>5. CASE new \notin ActiveStatus
  BY <1>2, <1>3, <1>4, <1>5 DEF SeatsKept, Active, ActiveIn, SetReg
<1>6. CASE new \in ActiveStatus /\ reg[r] \in {"rejected", "cancelled"}
  <2>1. revived' = revived \cup {r} BY <1>6 DEF SetReg
  <2> QED BY <1>2, <1>3, <2>1 DEF SeatsKept, Active, ActiveIn
<1>7. CASE new \in ActiveStatus /\ reg[r] \notin {"rejected", "cancelled"}
  <2>1. revived' = revived BY <1>7 DEF SetReg
  <2>2. reg[r] \in ActiveStatus BY <1>7 DEF TypeOK, RowStatus, RegStatus
  <2> QED BY <1>2, <1>3, <2>1, <2>2 DEF SeatsKept, Active, ActiveIn
<1> QED BY <1>2, <1>5, <1>6, <1>7

LEMMA UnchangedKeeps ==
    ASSUME UNCHANGED <<reg, revived>> PROVE SeatsKept /\ RowsKept
BY DEF SeatsKept, RowsKept, Active, ActiveIn

\* Loading an acceptable record, and ending a request.
LEMMA LoadKeeps ==
    ASSUME SeatInv, TypeOK', NEW s \in Sessions, NEW x, SessionOK(x, reg, peak), Load(s, x)
    PROVE  SeatInv'
<1>1. SessionsKept BY DEF SessionsKept, Load, SeatInv, TypeOK
<1>2. PaymentsOfRows /\ peak' >= peak /\ capacity' <= peak'
  BY DEF PaymentsOfRows, Load, SeatInv, TypeOK, moneyVars
<1>3. UNCHANGED <<reg, revived>> BY DEF Load
<1> QED BY <1>1, <1>2, <1>3, UnchangedKeeps, SeatStep

LEMMA FinishKeeps ==
    ASSUME TypeOK, NEW s \in Sessions, Finish(s) PROVE SessionsKept
<1> SessionOK(Idle, reg, peak) BY DEF SessionOK, Idle, RegOps
<1> QED BY DEF SessionsKept, Finish, TypeOK

LEMMA InitSeats == Init => SeatInv
<1> SUFFICES ASSUME Init PROVE SeatInv OBVIOUS
<1>1. TypeOK BY InitType
<1>2. Active = {}
  BY DEF Init, Active, ActiveIn, ActiveStatus
<1>3. SeatsWithinPeak
  <2>1. Active \ revived = {} BY <1>2
  <2>2. Cardinality({}) = 0 BY FS_EmptySet
  <2>3. peak \in Nat BY <1>1 DEF TypeOK
  <2>4. Cardinality(Active \ revived) <= peak BY <2>1, <2>2, <2>3
  <2> QED BY <2>4 DEF SeatsWithinPeak
<1>4. OneSeatPerIdent BY <1>2 DEF OneSeatPerIdent
<1>5. \A s \in Sessions : SessionOK(sess[s], reg, peak)
  BY DEF Init, SessionOK, Idle, RegOps
<1>6. capacity <= peak BY <1>1 DEF Init, TypeOK
<1> QED BY <1>1, <1>3, <1>4, <1>5, <1>6 DEF Init, SeatInv

LEMMA EventStepSeats == SeatInv /\ TypeOK' /\ EventStep => SeatInv'
<1> SUFFICES ASSUME SeatInv, TypeOK', EventStep PROVE SeatInv' OBVIOUS
<1> USE DEF moneyVars, waitVars
<1>0. TypeOK /\ capacity \in Nat /\ peak \in Nat /\ capacity <= peak BY DEF SeatInv, TypeOK
<1>1. CASE PassDeadline
  <2>1. SessionsKept /\ PaymentsOfRows BY <1>1 DEF PassDeadline, SessionsKept, PaymentsOfRows
  <2> QED BY <1>0, <1>1, <2>1, UnchangedKeeps, SeatStep DEF PassDeadline
<1>2. ASSUME NEW c \in Capacities, SetCapacity(c) PROVE SeatInv'
  <2>1. SessionsKept /\ PaymentsOfRows BY <1>2 DEF SetCapacity, SessionsKept, PaymentsOfRows
  <2>2. peak' >= peak /\ capacity' <= peak' BY <1>0, <1>2 DEF SetCapacity
  <2> QED BY <1>0, <1>2, <2>1, <2>2, UnchangedKeeps, SeatStep DEF SetCapacity
<1>3. ASSUME NEW s \in Sessions, ReadEvent(s) PROVE SeatInv'
  <2>1. SessionsKept BY <1>0, <1>3, FinishKeeps DEF ReadEvent
  <2>2. PaymentsOfRows BY <1>3 DEF ReadEvent, PaymentsOfRows
  <2> QED BY <1>0, <1>3, <2>1, <2>2, UnchangedKeeps, SeatStep DEF ReadEvent
<1>4. ASSUME NEW s \in Sessions, NEW to \in EventStatus, TransitionLoad(s, to) PROVE SeatInv'
  <2>1. SessionOK([op |-> "transition", to |-> to], reg, peak) BY DEF SessionOK, RegOps
  <2>2. SessionsKept BY <1>0, <1>4, <2>1 DEF TransitionLoad, SessionsKept, TypeOK
  <2>3. PaymentsOfRows BY <1>4 DEF TransitionLoad, PaymentsOfRows
  <2> QED BY <1>0, <1>4, <2>2, <2>3, UnchangedKeeps, SeatStep DEF TransitionLoad
<1>5. ASSUME NEW s \in Sessions, TransitionCommit(s) PROVE SeatInv'
  <2>1. SessionOK(Rereading, reg, peak) BY DEF SessionOK, RegOps, Rereading
  <2>2. SessionsKept BY <1>0, <1>5, <2>1 DEF TransitionCommit, SessionsKept, TypeOK
  <2>3. PaymentsOfRows BY <1>5 DEF TransitionCommit, PaymentsOfRows
  <2> QED BY <1>0, <1>5, <2>2, <2>3, UnchangedKeeps, SeatStep DEF TransitionCommit
<1>6. ASSUME NEW s \in Sessions, SyncLoad(s) PROVE SeatInv'
  <2>1. SessionOK([op |-> "sync", cap |-> capacity], reg, peak) BY DEF SessionOK, RegOps
  <2> QED BY <1>6, <2>1, LoadKeeps DEF SyncLoad
<1>7. ASSUME NEW s \in Sessions, SyncCommit(s) PROVE SeatInv'
  <2>1. SessionsKept BY <1>0, <1>7, FinishKeeps DEF SyncCommit
  <2>2. PaymentsOfRows BY <1>7 DEF SyncCommit, PaymentsOfRows
  <2> QED BY <1>0, <1>7, <2>1, <2>2, UnchangedKeeps, SeatStep DEF SyncCommit
<1>8. ASSUME NEW s \in Sessions, Abort(s) PROVE SeatInv'
  <2>1. SessionsKept BY <1>0, <1>8, FinishKeeps DEF Abort
  <2>2. PaymentsOfRows BY <1>8 DEF Abort, PaymentsOfRows
  <2> QED BY <1>0, <1>8, <2>1, <2>2, UnchangedKeeps, SeatStep DEF Abort
<1> QED BY <1>1, <1>2, <1>3, <1>4, <1>5, <1>6, <1>7, <1>8 DEF EventStep

\* The one step that takes a seat: under the capacity lock the count is below
\* the loaded capacity, hence below the peak, and the registrant has no seat.
LEMMA CreateSeats ==
    ASSUME SeatInv, TypeOK', NEW s \in Sessions, NEW r \in Regs, CreateCommit(s, r)
    PROVE  SeatInv'
<1>0. TypeOK /\ peak \in Nat BY DEF SeatInv, TypeOK
<1>1. /\ reg' = [reg EXCEPT ![r] = FirstStatus]
      /\ reg[r] = "none" /\ FirstStatus # "none" /\ reg'[r] = FirstStatus
      /\ \A q \in Regs \ {r} : reg'[q] = reg[q]
  BY <1>0 DEF CreateCommit, SetReg, TypeOK, FirstStatus
<1>2. revived' = revived
  <2>1. FirstStatus \in ActiveStatus BY DEF FirstStatus, ActiveStatus
  <2> QED BY <1>1, <2>1 DEF CreateCommit, SetReg
<1>3. Active' = Active \cup {r}
  <2>1. FirstStatus \in ActiveStatus BY DEF FirstStatus, ActiveStatus
  <2> QED BY <1>1, <2>1 DEF Active, ActiveIn
<1>4. sess[s].cap \in Nat /\ sess[s].cap <= peak
  <2>1. sess[s].op = "create" BY DEF CreateCommit
  <2>2. sess[s] \in SessionState BY <1>0 DEF TypeOK
  <2>3. sess[s].cap \in Nat BY <2>1, <2>2 DEF SessionState, Idle, Rereading
  <2> QED BY <2>1, <2>3 DEF SeatInv, SessionOK
<1>5. Cardinality(Active) < sess[s].cap
  BY DEF CreateCommit, Admissible, HasRoom, CountActive, Active
<1>6. SeatsWithinPeak'
  <2>1. Active \subseteq Regs BY DEF Active, ActiveIn
  <2>2. IsFiniteSet(Active) /\ Cardinality(Active) \in Nat
    BY <2>1, FS_Subset, FS_CardinalityType
  <2>3. IsFiniteSet(Active') /\ Cardinality(Active') <= Cardinality(Active) + 1
    <3>1. /\ IsFiniteSet(Active \cup {r})
          /\ Cardinality(Active \cup {r}) = IF r \in Active THEN Cardinality(Active)
                                            ELSE Cardinality(Active) + 1
      BY <2>2, FS_AddElement
    <3> QED BY <1>3, <2>2, <3>1
  <2>4. /\ IsFiniteSet((Active \ revived)')
        /\ Cardinality((Active \ revived)') <= Cardinality(Active')
    BY <2>3, FS_Subset
  <2>5. Cardinality(Active') \in Nat /\ Cardinality((Active \ revived)') \in Nat
    BY <2>3, <2>4, FS_CardinalityType
  <2>6. Cardinality((Active \ revived)') <= peak
    BY <1>0, <1>4, <1>5, <2>2, <2>3, <2>4, <2>5
  <2> QED BY <2>6 DEF CreateCommit, SeatsWithinPeak
<1>7. OneSeatPerIdent'
  <2>1. \A q \in Active : IdentOf[q] # IdentOf[r]
    BY DEF CreateCommit, Admissible, Duplicate
  <2> QED BY <1>2, <1>3, <2>1 DEF SeatInv, OneSeatPerIdent
<1>8. \A t \in Sessions : SessionOK(sess'[t], reg', peak')
  <2> SUFFICES ASSUME NEW t \in Sessions PROVE SessionOK(sess'[t], reg', peak') OBVIOUS
  <2>1. SessionOK(sess'[t], reg, peak)
    BY <1>0, FinishKeeps DEF CreateCommit, SessionsKept, SeatInv
  <2>2. sess'[t].op \in RegOps => sess'[t].on \in Regs
    BY DEF TypeOK, SessionState, RegOps, Idle, Rereading
  <2> QED BY <1>1, <2>1, <2>2 DEF SessionOK, CreateCommit
<1>9. \A q \in Regs : pay'[q] # "none" => reg'[q] # "none"
  BY <1>1 DEF CreateCommit, SeatInv
<1> QED BY <1>6, <1>7, <1>8, <1>9 DEF SeatInv, CreateCommit

LEMMA RegistrationStepSeats == SeatInv /\ TypeOK' /\ RegistrationStep => SeatInv'
<1> SUFFICES ASSUME SeatInv, TypeOK', RegistrationStep PROVE SeatInv' OBVIOUS
<1> USE DEF moneyVars, waitVars
<1>0. TypeOK /\ capacity \in Nat /\ peak \in Nat /\ capacity <= peak BY DEF SeatInv, TypeOK
<1>1. ASSUME NEW s \in Sessions, NEW r \in Regs, CheckInLoad(s, r) PROVE SeatInv'
  <2>1. SessionOK([op |-> "checkin", on |-> r, reg |-> reg[r]], reg, peak)
    BY <1>1 DEF SessionOK, CheckInLoad, Scannable
  <2> QED BY <1>1, <2>1, LoadKeeps DEF CheckInLoad
<1>2. ASSUME NEW s \in Sessions, NEW i \in Idents, CreateLoad(s, i) PROVE SeatInv'
  <2>1. SessionOK([op |-> "create", on |-> i, status |-> evStatus, cap |-> capacity], reg, peak)
    BY <1>0 DEF SessionOK, RegOps
  <2> QED BY <1>2, <2>1, LoadKeeps DEF CreateLoad, LoadEvent
<1>3. ASSUME NEW s \in Sessions, CreateRefused(s) PROVE SeatInv'
  <2>1. SessionsKept BY <1>0, <1>3, FinishKeeps DEF CreateRefused
  <2>2. PaymentsOfRows BY <1>3 DEF CreateRefused, PaymentsOfRows
  <2> QED BY <1>0, <1>3, <2>1, <2>2, UnchangedKeeps, SeatStep DEF CreateRefused
<1>4. ASSUME NEW s \in Sessions, NEW r \in Regs, CreateCommit(s, r) PROVE SeatInv'
  BY <1>4, CreateSeats
<1>5. ASSUME NEW s \in Sessions, NEW r \in Regs, CancelLoad(s, r) PROVE SeatInv'
  <2>1. SessionOK([op |-> "cancel", on |-> r, pay |-> pay[r]], reg, peak)
    BY <1>5 DEF SessionOK, CancelLoad, Cancellable
  <2> QED BY <1>5, <2>1, LoadKeeps DEF CancelLoad
<1>6. ASSUME NEW s \in Sessions, CancelPaid(s) PROVE SeatInv'
  <2>1. sess[s].on \in Regs BY <1>0, <1>6 DEF CancelPaid, TypeOK, SessionState, Idle, Rereading
  <2>2. reg[sess[s].on] # "none" BY <1>6 DEF CancelPaid, SeatInv, SessionOK, RegOps
  <2>3. "refund_pending" \in RegStatus BY DEF RegStatus, ActiveStatus
  <2>4. SeatsKept /\ RowsKept BY <1>0, <1>6, <2>1, <2>2, <2>3, SetRegKeeps DEF CancelPaid
  <2>5. SessionsKept BY <1>0, <1>6, FinishKeeps DEF CancelPaid
  <2>6. PaymentsOfRows BY <1>6 DEF CancelPaid, PaymentsOfRows
  <2> QED BY <1>0, <1>6, <2>4, <2>5, <2>6, SeatStep DEF CancelPaid
<1>7. ASSUME NEW s \in Sessions, CancelUnpaid(s) PROVE SeatInv'
  <2>1. sess[s].on \in Regs BY <1>0, <1>7 DEF CancelUnpaid, TypeOK, SessionState, Idle, Rereading
  <2>2. reg[sess[s].on] # "none" BY <1>7 DEF CancelUnpaid, SeatInv, SessionOK, RegOps
  <2>3. "cancelled" \in RegStatus BY DEF RegStatus
  <2>4. SeatsKept /\ RowsKept
    BY <1>0, <1>7, <2>1, <2>2, <2>3, SetRegKeeps DEF CancelUnpaid, ReleaseSeat
  <2>5. SessionsKept BY <1>0, <1>7, FinishKeeps DEF CancelUnpaid
  <2>6. PaymentsOfRows
    BY <1>0, <1>7, <2>1, <2>2, <2>4 DEF CancelUnpaid, PaymentsOfRows, RowsKept, TypeOK
  <2> QED BY <1>0, <1>7, <2>4, <2>5, <2>6, SeatStep DEF CancelUnpaid
<1>8. ASSUME NEW s \in Sessions, NEW r \in Regs, ApproveLoad(s, r) PROVE SeatInv'
  <2>1. SessionOK([op |-> "approve", on |-> r, ticket |-> ticket[r]], reg, peak)
    BY <1>8 DEF SessionOK, ApproveLoad, Decidable
  <2> QED BY <1>8, <2>1, LoadKeeps DEF ApproveLoad
<1>9. ASSUME NEW s \in Sessions, ApproveCommit(s) PROVE SeatInv'
  <2>1. sess[s].on \in Regs BY <1>0, <1>9 DEF ApproveCommit, TypeOK, SessionState, Idle, Rereading
  <2>2. reg[sess[s].on] # "none" BY <1>9 DEF ApproveCommit, SeatInv, SessionOK, RegOps
  <2>3. "confirmed" \in RegStatus /\ "approved" \in RegStatus BY DEF RegStatus, ActiveStatus
  <2>4. SeatsKept /\ RowsKept BY <1>0, <1>9, <2>1, <2>2, <2>3, SetRegKeeps DEF ApproveCommit
  <2>5. SessionsKept BY <1>0, <1>9, FinishKeeps DEF ApproveCommit
  <2>6. PaymentsOfRows BY <1>9 DEF ApproveCommit, PaymentsOfRows
  <2> QED BY <1>0, <1>9, <2>4, <2>5, <2>6, SeatStep DEF ApproveCommit
<1>10. ASSUME NEW s \in Sessions, NEW r \in Regs, RejectLoad(s, r) PROVE SeatInv'
  <2>1. SessionOK([op |-> "reject", on |-> r], reg, peak)
    BY <1>10 DEF SessionOK, RejectLoad, Decidable
  <2> QED BY <1>10, <2>1, LoadKeeps DEF RejectLoad
<1>11. ASSUME NEW s \in Sessions, RejectCommit(s) PROVE SeatInv'
  <2>1. sess[s].on \in Regs BY <1>0, <1>11 DEF RejectCommit, TypeOK, SessionState, Idle, Rereading
  <2>2. reg[sess[s].on] # "none" BY <1>11 DEF RejectCommit, SeatInv, SessionOK, RegOps
  <2>3. "rejected" \in RegStatus BY DEF RegStatus
  <2>4. SeatsKept /\ RowsKept BY <1>0, <1>11, <2>1, <2>2, <2>3, SetRegKeeps DEF RejectCommit
  <2>5. SessionsKept BY <1>0, <1>11, FinishKeeps DEF RejectCommit
  <2>6. PaymentsOfRows BY <1>11 DEF RejectCommit, PaymentsOfRows
  <2> QED BY <1>0, <1>11, <2>4, <2>5, <2>6, SeatStep DEF RejectCommit
<1>12. ASSUME NEW s \in Sessions, CheckInCommit(s) PROVE SeatInv'
  <2>1. sess[s] \in [op : {"verify", "release", "refund", "checkin"}, on : Regs, reg : RowStatus]
    BY <1>0, <1>12 DEF CheckInCommit, TypeOK, SessionState, Idle, Rereading
  <2>2. reg[sess[s].on] # "none" BY <1>12 DEF CheckInCommit, SeatInv, SessionOK, RegOps
  <2>3. Flush(sess[s].reg, "checked_in", reg[sess[s].on]) \in RegStatus
    BY <1>0, <2>1, <2>2 DEF Flush, RegStatus, ActiveStatus, RowStatus, TypeOK
  <2>4. SeatsKept /\ RowsKept BY <1>0, <1>12, <2>1, <2>2, <2>3, SetRegKeeps DEF CheckInCommit
  <2>5. SessionsKept BY <1>0, <1>12, FinishKeeps DEF CheckInCommit
  <2>6. PaymentsOfRows BY <1>12 DEF CheckInCommit, PaymentsOfRows
  <2> QED BY <1>0, <1>12, <2>4, <2>5, <2>6, SeatStep DEF CheckInCommit
<1> QED BY <1>1, <1>2, <1>3, <1>4, <1>5, <1>6, <1>7, <1>8, <1>9, <1>10, <1>11, <1>12
      DEF RegistrationStep

LEMMA PaymentStepSeats == SeatInv /\ TypeOK' /\ PaymentStep => SeatInv'
<1> SUFFICES ASSUME SeatInv, TypeOK', PaymentStep PROVE SeatInv' OBVIOUS
<1> USE DEF moneyVars, waitVars
<1>0. TypeOK /\ capacity \in Nat /\ peak \in Nat /\ capacity <= peak BY DEF SeatInv, TypeOK
<1>1. ASSUME NEW r \in Regs, RejectPayment(r) PROVE SeatInv'
  <2>1. SessionsKept BY <1>1 DEF RejectPayment, SessionsKept
  <2>2. PaymentsOfRows BY <1>0, <1>1 DEF RejectPayment, PaymentsOfRows, TypeOK
  <2> QED BY <1>0, <1>1, <2>1, <2>2, UnchangedKeeps, SeatStep DEF RejectPayment
<1>2. ASSUME NEW r \in Regs, RequestRefund(r) PROVE SeatInv'
  <2>1. reg[r] # "none" BY <1>2 DEF RequestRefund, SeatInv
  <2>2. "cancelled" \in RegStatus /\ "refund_pending" \in RegStatus
    BY DEF RegStatus, ActiveStatus
  <2>3. SeatsKept /\ RowsKept BY <1>0, <1>2, <2>1, <2>2, SetRegKeeps DEF RequestRefund
  <2>4. SessionsKept /\ PaymentsOfRows BY <1>2 DEF RequestRefund, SessionsKept, PaymentsOfRows
  <2> QED BY <1>0, <1>2, <2>3, <2>4, SeatStep DEF RequestRefund
<1>3. ASSUME NEW s \in Sessions, NEW r \in Regs, InitiateLoad(s, r) PROVE SeatInv'
  <2>1. SessionOK([op |-> "initiate", on |-> r, pay |-> pay[r]], reg, peak)
    BY <1>3 DEF SessionOK, InitiateLoad, Payable
  <2> QED BY <1>3, <2>1, LoadKeeps DEF InitiateLoad
<1>4. ASSUME NEW s \in Sessions, InitiateCommit(s) PROVE SeatInv'
  <2>1. sess[s].on \in Regs BY <1>0, <1>4 DEF InitiateCommit, TypeOK, SessionState, Idle, Rereading
  <2>2. reg[sess[s].on] # "none" BY <1>4 DEF InitiateCommit, SeatInv, SessionOK, RegOps
  <2>3. SessionsKept BY <1>0, <1>4, FinishKeeps DEF InitiateCommit
  <2>4. PaymentsOfRows
    BY <1>0, <1>4, <2>1, <2>2 DEF InitiateCommit, PaymentsOfRows, TypeOK
  <2> QED BY <1>0, <1>4, <2>3, <2>4, UnchangedKeeps, SeatStep DEF InitiateCommit
<1>5. ASSUME NEW s \in Sessions, NEW r \in Regs, VerifyLoad(s, r) PROVE SeatInv'
  <2>1. SessionOK([op |-> "verify", on |-> r, reg |-> reg[r]], reg, peak)
    BY <1>5 DEF SessionOK, VerifyLoad, SeatInv
  <2> QED BY <1>5, <2>1, LoadKeeps DEF VerifyLoad
<1>6. ASSUME NEW s \in Sessions, VerifyCommit(s) PROVE SeatInv'
  <2>1. sess[s] \in [op : {"verify", "release", "refund", "checkin"}, on : Regs, reg : RowStatus]
    BY <1>0, <1>6 DEF VerifyCommit, TypeOK, SessionState, Idle, Rereading
  <2>2. reg[sess[s].on] # "none" BY <1>6 DEF VerifyCommit, SeatInv, SessionOK, RegOps
  <2>3. Flush(sess[s].reg, "confirmed", reg[sess[s].on]) \in RegStatus
    BY <1>0, <2>1, <2>2 DEF Flush, RegStatus, ActiveStatus, RowStatus, TypeOK
  <2>4. SeatsKept /\ RowsKept BY <1>0, <1>6, <2>1, <2>2, <2>3, SetRegKeeps DEF VerifyCommit
  <2>5. SessionsKept BY <1>0, <1>6, FinishKeeps DEF VerifyCommit
  <2>6. PaymentsOfRows
    BY <1>0, <1>6, <2>1, <2>2, <2>4 DEF VerifyCommit, PaymentsOfRows, RowsKept, TypeOK
  <2> QED BY <1>0, <1>6, <2>4, <2>5, <2>6, SeatStep DEF VerifyCommit
<1>7. ASSUME NEW s \in Sessions, NEW r \in Regs, ReleaseLoad(s, r) PROVE SeatInv'
  <2>1. SessionOK([op |-> "release", on |-> r, reg |-> reg[r]], reg, peak)
    BY <1>7 DEF SessionOK, ReleaseLoad, SeatInv
  <2> QED BY <1>7, <2>1, LoadKeeps DEF ReleaseLoad
<1>8. ASSUME NEW s \in Sessions, ReleaseCommit(s) PROVE SeatInv'
  <2>1. sess[s].on \in Regs BY <1>0, <1>8 DEF ReleaseCommit, TypeOK, SessionState, Idle, Rereading
  <2>2. reg[sess[s].on] # "none" BY <1>8 DEF ReleaseCommit, SeatInv, SessionOK, RegOps
  <2>3. SeatsKept /\ RowsKept
    <3>1. CASE UNCHANGED <<reg, revived>> BY <3>1, UnchangedKeeps
    <3>2. CASE SetReg(sess[s].on, "cancelled")
      <4>1. "cancelled" \in RegStatus BY DEF RegStatus
      <4> QED BY <1>0, <2>1, <2>2, <3>2, <4>1, SetRegKeeps
    <3> QED BY <1>8, <3>1, <3>2 DEF ReleaseCommit, ReleaseSeat
  <2>4. SessionsKept BY <1>0, <1>8, FinishKeeps DEF ReleaseCommit
  <2>5. PaymentsOfRows
    BY <1>0, <1>8, <2>1, <2>2, <2>3 DEF ReleaseCommit, PaymentsOfRows, RowsKept, TypeOK
  <2> QED BY <1>0, <1>8, <2>3, <2>4, <2>5, SeatStep DEF ReleaseCommit
<1>9. ASSUME NEW s \in Sessions, NEW r \in Regs, RefundLoad(s, r) PROVE SeatInv'
  <2>1. SessionOK([op |-> "refund", on |-> r, reg |-> reg[r]], reg, peak)
    BY <1>9 DEF SessionOK, RefundLoad, SeatInv
  <2> QED BY <1>9, <2>1, LoadKeeps DEF RefundLoad
<1>10. ASSUME NEW s \in Sessions, RefundOk(s) PROVE SeatInv'
  <2>1. sess[s] \in [op : {"verify", "release", "refund", "checkin"}, on : Regs, reg : RowStatus]
    BY <1>0, <1>10 DEF RefundOk, TypeOK, SessionState, Idle, Rereading
  <2>2. reg[sess[s].on] # "none" BY <1>10 DEF RefundOk, SeatInv, SessionOK, RegOps
  <2>3. Flush(sess[s].reg, "cancelled", reg[sess[s].on]) \in RegStatus
    BY <1>0, <2>1, <2>2 DEF Flush, RegStatus, RowStatus, TypeOK
  <2>4. SeatsKept /\ RowsKept
    BY <1>0, <1>10, <2>1, <2>2, <2>3, SetRegKeeps DEF RefundOk, ReleaseSeat
  <2>5. SessionsKept BY <1>0, <1>10, FinishKeeps DEF RefundOk
  <2>6. PaymentsOfRows
    BY <1>0, <1>10, <2>1, <2>2, <2>4 DEF RefundOk, PaymentsOfRows, RowsKept, TypeOK
  <2> QED BY <1>0, <1>10, <2>4, <2>5, <2>6, SeatStep DEF RefundOk
<1>11. ASSUME NEW s \in Sessions, RefundFails(s) PROVE SeatInv'
  <2>1. sess[s].on \in Regs BY <1>0, <1>11 DEF RefundFails, TypeOK, SessionState, Idle, Rereading
  <2>2. reg[sess[s].on] # "none" BY <1>11 DEF RefundFails, SeatInv, SessionOK, RegOps
  <2>3. (IF sess[s].reg = "refund_pending" THEN "refund_failed" ELSE reg[sess[s].on]) \in RegStatus
    BY <1>0, <2>1, <2>2 DEF RegStatus, ActiveStatus, RowStatus, TypeOK
  <2>4. SeatsKept /\ RowsKept BY <1>0, <1>11, <2>1, <2>2, <2>3, SetRegKeeps DEF RefundFails
  <2>5. SessionsKept BY <1>0, <1>11, FinishKeeps DEF RefundFails
  <2>6. PaymentsOfRows BY <1>11 DEF RefundFails, PaymentsOfRows
  <2> QED BY <1>0, <1>11, <2>4, <2>5, <2>6, SeatStep DEF RefundFails
<1> QED BY <1>1, <1>2, <1>3, <1>4, <1>5, <1>6, <1>7, <1>8, <1>9, <1>10, <1>11
      DEF PaymentStep

LEMMA WaitlistStepSeats == SeatInv /\ TypeOK' /\ WaitlistStep => SeatInv'
<1> SUFFICES ASSUME SeatInv, TypeOK', WaitlistStep PROVE SeatInv' OBVIOUS
<1> USE DEF moneyVars, waitVars
<1>0. TypeOK /\ capacity \in Nat /\ peak \in Nat /\ capacity <= peak BY DEF SeatInv, TypeOK
<1>1. CASE ExpireAndPromote
  <2>1. SessionsKept /\ PaymentsOfRows
    BY <1>1 DEF ExpireAndPromote, SessionsKept, PaymentsOfRows
  <2> QED BY <1>0, <1>1, <2>1, UnchangedKeeps, SeatStep DEF ExpireAndPromote
<1>2. ASSUME NEW s \in Sessions, NEW e \in Entries, JoinLoad(s, e) PROVE SeatInv'
  <2>1. SessionOK([op |-> "join", on |-> e, status |-> evStatus, cap |-> capacity], reg, peak)
    BY DEF SessionOK, RegOps
  <2> QED BY <1>2, <2>1, LoadKeeps DEF JoinLoad, LoadEvent
<1>3. ASSUME NEW s \in Sessions, NEW e \in Entries, LeaveLoad(s, e) PROVE SeatInv'
  <2>1. SessionOK([op |-> "leave", on |-> e], reg, peak) BY DEF SessionOK, RegOps
  <2> QED BY <1>3, <2>1, LoadKeeps DEF LeaveLoad
<1>4. ASSUME NEW s \in Sessions, NEW e \in Entries, RetryLoad(s, e) PROVE SeatInv'
  <2>1. SessionOK([op |-> "retry", on |-> e], reg, peak) BY DEF SessionOK, RegOps
  <2> QED BY <1>4, <2>1, LoadKeeps DEF RetryLoad
<1>5. ASSUME NEW s \in Sessions, JoinCommit(s) \/ LeaveCommit(s) \/ RetryCommit(s)
      PROVE SeatInv'
  <2>1. SessionsKept
    BY <1>0, <1>5, FinishKeeps DEF JoinCommit, LeaveCommit, RetryCommit
  <2>2. PaymentsOfRows /\ UNCHANGED <<reg, revived, peak, capacity>>
    BY <1>5 DEF JoinCommit, LeaveCommit, RetryCommit, PaymentsOfRows
  <2> QED BY <1>0, <2>1, <2>2, UnchangedKeeps, SeatStep
<1> QED BY <1>1, <1>2, <1>3, <1>4, <1>5 DEF WaitlistStep

LEMMA SeatsKeep == SeatInv /\ [Next]_vars => SeatInv'
<1> SUFFICES ASSUME SeatInv, [Next]_vars PROVE SeatInv' OBVIOUS
<1>t. TypeOK' BY TypeStep DEF SeatInv
<1>1. CASE UNCHANGED vars
  <2>1. SessionsKept /\ PaymentsOfRows /\ UNCHANGED <<reg, revived, peak, capacity>>
    BY <1>1 DEF vars, moneyVars, SessionsKept, PaymentsOfRows
  <2>2. peak \in Nat /\ capacity <= peak BY DEF SeatInv, TypeOK
  <2> QED BY <1>t, <2>1, <2>2, UnchangedKeeps, SeatStep
<1> QED BY <1>t, <1>1, EventStepSeats, RegistrationStepSeats, PaymentStepSeats,
           WaitlistStepSeats DEF Next

LEMMA SeatInvariant == Spec => []SeatInv
BY InitSeats, SeatsKeep, PTL DEF Spec

\* For any number of requests, registrants and capacities: of the seats that
\* were never given up, there are at most as many as the largest capacity the
\* event was ever configured with.
THEOREM SeatsBounded == Spec => []SeatsWithinPeak
<1>1. SeatInv => SeatsWithinPeak BY DEF SeatInv
<1> QED BY SeatInvariant, <1>1, PTL

\* Nobody gets a second registration by racing with himself: the duplicate
\* check of a creation is made under the capacity lock.
THEOREM NoDoubleSeat == Spec => []OneSeatPerIdent
<1>1. SeatInv => OneSeatPerIdent BY DEF SeatInv
<1> QED BY SeatInvariant, <1>1, PTL
(***************************************************************************)
(* Tickets.  SeatHasTicket needs to know that a verified payment came with *)
(* a ticket, also when the payment is only remembered by a cancellation    *)
(* that loaded it, and that a refund is approved only for a registration   *)
(* with a ticket.  No step takes a ticket's row away again.                *)
(***************************************************************************)

TicketStatuses == Scannable \cup {"refund_pending"}

\* What a session has loaded vouches for a ticket.
Vouches(x, tk) ==
    /\ x.op = "cancel" => (x.pay = "verified" => tk[x.on] # "none")
    /\ x.op = "refund" => tk[x.on] # "none"

TicketInv ==
    /\ TypeOK
    /\ SeatHasTicket
    /\ \A r \in Regs : pay[r] = "verified" => ticket[r] # "none"
    /\ \A s \in Sessions : Vouches(sess[s], ticket)

\* What every step does to one registration, and to the sessions.
TicketsKept(r) ==
    /\ ticket[r] # "none" => ticket'[r] # "none"
    /\ reg'[r] \in TicketStatuses => reg[r] \in TicketStatuses \/ ticket'[r] # "none"
    /\ pay'[r] = "verified" => pay[r] = "verified" \/ ticket'[r] # "none"
VouchersKept == \A s \in Sessions : sess'[s] = sess[s] \/ Vouches(sess'[s], ticket)

LEMMA TicketStep ==
    ASSUME TicketInv, TypeOK', \A r \in Regs : TicketsKept(r), VouchersKept
    PROVE  TicketInv'
<1>1. SeatHasTicket' BY DEF TicketInv, TicketsKept, TicketStatuses, SeatHasTicket
<1>2. \A r \in Regs : pay'[r] = "verified" => ticket'[r] # "none"
  BY DEF TicketInv, TicketsKept
<1>3. \A s \in Sessions : Vouches(sess'[s], ticket')
  <2> SUFFICES ASSUME NEW s \in Sessions PROVE Vouches(sess'[s], ticket') OBVIOUS
  <2>1. Vouches(sess'[s], ticket) BY DEF VouchersKept, TicketInv
  <2>2. sess'[s] \in SessionState BY DEF TypeOK
  <2>3. sess'[s].op \in {"cancel", "refund"} => sess'[s].on \in Regs
    BY <2>2 DEF SessionState, Idle, Rereading
  <2> QED BY <2>1, <2>3 DEF Vouches, TicketsKept
<1> QED BY <1>1, <1>2, <1>3 DEF TicketInv

\* A step that leaves the three columns alone.
LEMMA TicketsStay ==
    ASSUME UNCHANGED <<reg, pay, ticket>> PROVE \A r \in Regs : TicketsKept(r)
BY DEF TicketsKept

LEMMA LoadVouches ==
    ASSUME TicketInv, TypeOK', NEW s \in Sessions, NEW x, Vouches(x, ticket), Load(s, x)
    PROVE  TicketInv'
<1>1. VouchersKept BY DEF VouchersKept, Load, TicketInv, TypeOK
<1> QED BY <1>1, TicketsStay, TicketStep DEF Load, moneyVars

LEMMA FinishVouches ==
    ASSUME TypeOK, NEW s \in Sessions, Finish(s) PROVE VouchersKept
<1> Vouches(Idle, ticket) BY DEF Vouches, Idle
<1> QED BY DEF VouchersKept, Finish, TypeOK

LEMMA EventStepTickets == TicketInv /\ TypeOK' /\ EventStep => TicketInv'
<1> SUFFICES ASSUME TicketInv, TypeOK', EventStep PROVE TicketInv' OBVIOUS
<1> USE DEF moneyVars, waitVars
<1>0. TypeOK BY DEF TicketInv
<1>1. UNCHANGED <<reg, pay, ticket>>
  BY DEF EventStep, PassDeadline, SetCapacity, ReadEvent, TransitionLoad, TransitionCommit,
         SyncLoad, Load, SyncCommit, Abort
<1>2. VouchersKept
  <2>1. CASE PassDeadline \/ \E c \in Capacities : SetCapacity(c)
    BY <2>1 DEF PassDeadline, SetCapacity, VouchersKept
  <2>2. ASSUME NEW s \in Sessions, ReadEvent(s) \/ SyncCommit(s) \/ Abort(s) PROVE VouchersKept
    BY <1>0, <2>2, FinishVouches DEF ReadEvent, SyncCommit, Abort
  <2>3. ASSUME NEW s \in Sessions, NEW to \in EventStatus, TransitionLoad(s, to)
        PROVE VouchersKept
    BY <1>0, <2>3 DEF TransitionLoad, VouchersKept, Vouches, TypeOK
  <2>4. ASSUME NEW s \in Sessions, TransitionCommit(s) PROVE VouchersKept
    BY <1>0, <2>4 DEF TransitionCommit, VouchersKept, Vouches, TypeOK, Rereading
  <2>5. ASSUME NEW s \in Sessions, SyncLoad(s) PROVE VouchersKept
    BY <1>0, <2>5 DEF SyncLoad, Load, VouchersKept, Vouches, TypeOK
  <2> QED BY <2>1, <2>2, <2>3, <2>4, <2>5 DEF EventStep
<1> QED BY <1>1, <1>2, TicketsStay, TicketStep

LEMMA RegistrationStepTickets == TicketInv /\ TypeOK' /\ RegistrationStep => TicketInv'
<1> SUFFICES ASSUME TicketInv, TypeOK', RegistrationStep PROVE TicketInv' OBVIOUS
<1> USE DEF moneyVars, waitVars
<1>0. TypeOK BY DEF TicketInv
<1>1. ASSUME NEW s \in Sessions, NEW i \in Idents, CreateLoad(s, i) PROVE TicketInv'
  <2>1. Vouches([op |-> "create", on |-> i, status |-> evStatus, cap |-> capacity], ticket)
    BY DEF Vouches
  <2> QED BY <1>1, <2>1, LoadVouches DEF CreateLoad, LoadEvent
<1>2. ASSUME NEW s \in Sessions, CreateRefused(s) PROVE TicketInv'
  BY <1>0, <1>2, FinishVouches, TicketsStay, TicketStep DEF CreateRefused
<1>3. ASSUME NEW s \in Sessions, NEW r \in Regs, CreateCommit(s, r) PROVE TicketInv'
  <2>1. VouchersKept BY <1>0, <1>3, FinishVouches DEF CreateCommit
  <2>2. \A q \in Regs : TicketsKept(q)
    BY <1>0, <1>3
       DEF CreateCommit, SetReg, TypeOK, TicketsKept, FirstStatus, TicketStatuses, Scannable
  <2> QED BY <2>1, <2>2, TicketStep
<1>4. ASSUME NEW s \in Sessions, NEW r \in Regs, CancelLoad(s, r) PROVE TicketInv'
  <2>1. Vouches([op |-> "cancel", on |-> r, pay |-> pay[r]], ticket)
    BY DEF Vouches, TicketInv
  <2> QED BY <1>4, <2>1, LoadVouches DEF CancelLoad
<1>5. ASSUME NEW s \in Sessions, CancelPaid(s) PROVE TicketInv'
  <2>1. sess[s].on \in Regs BY <1>0, <1>5 DEF CancelPaid, TypeOK, SessionState, Idle, Rereading
  <2>2. VouchersKept BY <1>0, <1>5, FinishVouches DEF CancelPaid
  <2>3. ticket[sess[s].on] # "none"
    BY <1>5, <2>1 DEF CancelPaid, PaySeen, TicketInv, Vouches
  <2>4. \A q \in Regs : TicketsKept(q)
    BY <1>0, <1>5, <2>1, <2>3 DEF CancelPaid, SetReg, TypeOK, TicketsKept
  <2> QED BY <2>2, <2>4, TicketStep
<1>6. ASSUME NEW s \in Sessions, CancelUnpaid(s) PROVE TicketInv'
  <2>1. sess[s].on \in Regs BY <1>0, <1>6 DEF CancelUnpaid, TypeOK, SessionState, Idle, Rereading
  <2>2. VouchersKept BY <1>0, <1>6, FinishVouches DEF CancelUnpaid
  <2>3. \A q \in Regs : TicketsKept(q)
    BY <1>0, <1>6, <2>1
       DEF CancelUnpaid, ReleaseSeat, SetReg, TypeOK, TicketsKept, TicketStatuses, Scannable,
           CancelledTicket
  <2> QED BY <2>2, <2>3, TicketStep
<1>7. ASSUME NEW s \in Sessions, NEW r \in Regs, ApproveLoad(s, r) PROVE TicketInv'
  <2>1. Vouches([op |-> "approve", on |-> r, ticket |-> ticket[r]], ticket) BY DEF Vouches
  <2> QED BY <1>7, <2>1, LoadVouches DEF ApproveLoad
<1>8. ASSUME NEW s \in Sessions, ApproveCommit(s) PROVE TicketInv'
  <2>1. sess[s].on \in Regs
    BY <1>0, <1>8 DEF ApproveCommit, TypeOK, SessionState, Idle, Rereading
  <2>2. VouchersKept BY <1>0, <1>8, FinishVouches DEF ApproveCommit
  <2>3. \A q \in Regs : TicketsKept(q)
    BY <1>0, <1>8, <2>1
       DEF ApproveCommit, SetReg, TypeOK, TicketsKept, TicketStatuses, Scannable
  <2> QED BY <2>2, <2>3, TicketStep
<1>9. ASSUME NEW s \in Sessions, NEW r \in Regs, RejectLoad(s, r) PROVE TicketInv'
  <2>1. Vouches([op |-> "reject", on |-> r], ticket) BY DEF Vouches
  <2> QED BY <1>9, <2>1, LoadVouches DEF RejectLoad
<1>10. ASSUME NEW s \in Sessions, RejectCommit(s) PROVE TicketInv'
  <2>1. sess[s].on \in Regs
    BY <1>0, <1>10 DEF RejectCommit, TypeOK, SessionState, Idle, Rereading
  <2>2. VouchersKept BY <1>0, <1>10, FinishVouches DEF RejectCommit
  <2>3. \A q \in Regs : TicketsKept(q)
    BY <1>0, <1>10, <2>1
       DEF RejectCommit, SetReg, TypeOK, TicketsKept, TicketStatuses, Scannable
  <2> QED BY <2>2, <2>3, TicketStep
<1>11. ASSUME NEW s \in Sessions, NEW r \in Regs, CheckInLoad(s, r) PROVE TicketInv'
  <2>1. Vouches([op |-> "checkin", on |-> r, reg |-> reg[r]], ticket) BY DEF Vouches
  <2> QED BY <1>11, <2>1, LoadVouches DEF CheckInLoad
<1>12. ASSUME NEW s \in Sessions, CheckInCommit(s) PROVE TicketInv'
  <2>1. sess[s].on \in Regs
    BY <1>0, <1>12 DEF CheckInCommit, TypeOK, SessionState, Idle, Rereading
  <2>2. VouchersKept BY <1>0, <1>12, FinishVouches DEF CheckInCommit
  <2>3. \A q \in Regs : TicketsKept(q)
    BY <1>0, <1>12, <2>1 DEF CheckInCommit, SetReg, TypeOK, TicketsKept
  <2> QED BY <2>2, <2>3, TicketStep
<1> QED BY <1>1, <1>2, <1>3, <1>4, <1>5, <1>6, <1>7, <1>8, <1>9, <1>10, <1>11, <1>12
      DEF RegistrationStep

LEMMA PaymentStepTickets == TicketInv /\ TypeOK' /\ PaymentStep => TicketInv'
<1> SUFFICES ASSUME TicketInv, TypeOK', PaymentStep PROVE TicketInv' OBVIOUS
<1> USE DEF moneyVars, waitVars
<1>0. TypeOK BY DEF TicketInv
<1>1. ASSUME NEW r \in Regs, RejectPayment(r) PROVE TicketInv'
  <2>1. VouchersKept BY <1>1 DEF RejectPayment, VouchersKept
  <2>2. \A q \in Regs : TicketsKept(q) BY <1>0, <1>1 DEF RejectPayment, TypeOK, TicketsKept
  <2> QED BY <2>1, <2>2, TicketStep
<1>2. ASSUME NEW r \in Regs, RequestRefund(r) PROVE TicketInv'
  <2>1. VouchersKept BY <1>2 DEF RequestRefund, VouchersKept
  <2>2. \A q \in Regs : TicketsKept(q)
    BY <1>0, <1>2 DEF RequestRefund, SetReg, TypeOK, TicketsKept, TicketInv
  <2> QED BY <2>1, <2>2, TicketStep
<1>3. ASSUME NEW s \in Sessions, NEW r \in Regs, InitiateLoad(s, r) PROVE TicketInv'
  <2>1. Vouches([op |-> "initiate", on |-> r, pay |-> pay[r]], ticket) BY DEF Vouches
  <2> QED BY <1>3, <2>1, LoadVouches DEF InitiateLoad
<1>4. ASSUME NEW s \in Sessions, InitiateCommit(s) PROVE TicketInv'
  <2>1. VouchersKept BY <1>0, <1>4, FinishVouches DEF InitiateCommit
  <2>2. \A q \in Regs : TicketsKept(q) BY <1>0, <1>4 DEF InitiateCommit, TypeOK, TicketsKept
  <2> QED BY <2>1, <2>2, TicketStep
<1>5. ASSUME NEW s \in Sessions, NEW r \in Regs, VerifyLoad(s, r) PROVE TicketInv'
  <2>1. Vouches([op |-> "verify", on |-> r, reg |-> reg[r]], ticket) BY DEF Vouches
  <2> QED BY <1>5, <2>1, LoadVouches DEF VerifyLoad
<1>6. ASSUME NEW s \in Sessions, VerifyCommit(s) PROVE TicketInv'
  <2>1. sess[s].on \in Regs
    BY <1>0, <1>6 DEF VerifyCommit, TypeOK, SessionState, Idle, Rereading
  <2>2. VouchersKept BY <1>0, <1>6, FinishVouches DEF VerifyCommit
  <2>3. \A q \in Regs : TicketsKept(q)
    BY <1>0, <1>6, <2>1 DEF VerifyCommit, SetReg, TypeOK, TicketsKept, IssuedTicket
  <2> QED BY <2>2, <2>3, TicketStep
<1>7. ASSUME NEW s \in Sessions, NEW r \in Regs, ReleaseLoad(s, r) PROVE TicketInv'
  <2>1. Vouches([op |-> "release", on |-> r, reg |-> reg[r]], ticket) BY DEF Vouches
  <2> QED BY <1>7, <2>1, LoadVouches DEF ReleaseLoad
<1>8. ASSUME NEW s \in Sessions, ReleaseCommit(s) PROVE TicketInv'
  <2>1. sess[s].on \in Regs
    BY <1>0, <1>8 DEF ReleaseCommit, TypeOK, SessionState, Idle, Rereading
  <2>2. VouchersKept BY <1>0, <1>8, FinishVouches DEF ReleaseCommit
  <2>3. \A q \in Regs : pay'[q] = pay[q] \/ pay'[q] = "failed"
    BY <1>0, <1>8, <2>1 DEF ReleaseCommit, TypeOK
  <2>4. \A q \in Regs : reg'[q] = reg[q] \/ reg'[q] = "cancelled"
    BY <1>0, <1>8, <2>1 DEF ReleaseCommit, ReleaseSeat, SetReg, TypeOK
  <2>5. \A q \in Regs : TicketsKept(q)
    BY <1>8, <2>3, <2>4 DEF ReleaseCommit, TicketsKept, TicketStatuses, Scannable
  <2> QED BY <2>2, <2>5, TicketStep
<1>9. ASSUME NEW s \in Sessions, NEW r \in Regs, RefundLoad(s, r) PROVE TicketInv'
  <2>1. Vouches([op |-> "refund", on |-> r, reg |-> reg[r]], ticket)
    BY <1>9 DEF Vouches, RefundLoad, TicketInv
  <2> QED BY <1>9, <2>1, LoadVouches DEF RefundLoad
<1>10. ASSUME NEW s \in Sessions, RefundOk(s) PROVE TicketInv'
  <2>1. sess[s].on \in Regs BY <1>0, <1>10 DEF RefundOk, TypeOK, SessionState, Idle, Rereading
  <2>2. VouchersKept BY <1>0, <1>10, FinishVouches DEF RefundOk
  <2>3. \A q \in Regs : TicketsKept(q)
    BY <1>0, <1>10, <2>1
       DEF RefundOk, ReleaseSeat, SetReg, Flush, TypeOK, TicketsKept, TicketStatuses, Scannable,
           CancelledTicket
  <2> QED BY <2>2, <2>3, TicketStep
<1>11. ASSUME NEW s \in Sessions, RefundFails(s) PROVE TicketInv'
  <2>1. sess[s].on \in Regs
    BY <1>0, <1>11 DEF RefundFails, TypeOK, SessionState, Idle, Rereading
  <2>2. VouchersKept BY <1>0, <1>11, FinishVouches DEF RefundFails
  <2>3. ticket[sess[s].on] # "none" BY <1>11 DEF RefundFails, TicketInv, Vouches
  <2>4. \A q \in Regs : TicketsKept(q)
    BY <1>0, <1>11, <2>1, <2>3 DEF RefundFails, SetReg, TypeOK, TicketsKept
  <2> QED BY <2>2, <2>4, TicketStep
<1> QED BY <1>1, <1>2, <1>3, <1>4, <1>5, <1>6, <1>7, <1>8, <1>9, <1>10, <1>11
      DEF PaymentStep

LEMMA WaitlistStepTickets == TicketInv /\ TypeOK' /\ WaitlistStep => TicketInv'
<1> SUFFICES ASSUME TicketInv, TypeOK', WaitlistStep PROVE TicketInv' OBVIOUS
<1> USE DEF moneyVars, waitVars
<1>0. TypeOK BY DEF TicketInv
<1>1. CASE ExpireAndPromote
  BY <1>1, TicketsStay, TicketStep DEF ExpireAndPromote, VouchersKept
<1>2. ASSUME NEW s \in Sessions, NEW e \in Entries, JoinLoad(s, e) PROVE TicketInv'
  <2>1. Vouches([op |-> "join", on |-> e, status |-> evStatus, cap |-> capacity], ticket)
    BY DEF Vouches
  <2> QED BY <1>2, <2>1, LoadVouches DEF JoinLoad, LoadEvent
<1>3. ASSUME NEW s \in Sessions, NEW e \in Entries, LeaveLoad(s, e) \/ RetryLoad(s, e)
      PROVE TicketInv'
  <2>1. \A op \in {"leave", "retry"} : Vouches([op |-> op, on |-> e], ticket) BY DEF Vouches
  <2> QED BY <1>3, <2>1, LoadVouches DEF LeaveLoad, RetryLoad
<1>4. ASSUME NEW s \in Sessions, JoinCommit(s) \/ LeaveCommit(s) \/ RetryCommit(s)
      PROVE TicketInv'
  BY <1>0, <1>4, FinishVouches, TicketsStay, TicketStep
     DEF JoinCommit, LeaveCommit, RetryCommit
<1> QED BY <1>1, <1>2, <1>3, <1>4 DEF WaitlistStep

\* Whoever may be let in, or may claim a refund, has a ticket: no request
\* confirms a registration, and none records a refund for one, without the
\* ticket being issued in the same transaction or an earlier one.
THEOREM SeatsHaveTickets == Spec => []SeatHasTicket
<1>1. Init => TicketInv
  <2> SUFFICES ASSUME Init PROVE TicketInv OBVIOUS
  <2>1. SeatHasTicket BY DEF Init, SeatHasTicket, Scannable
  <2>2. \A s \in Sessions : Vouches(sess[s], ticket) BY DEF Init, Vouches, Idle
  <2> QED BY <2>1, <2>2, InitType DEF Init, TicketInv
<1>2. TicketInv /\ TypeOK' /\ [Next]_vars => TicketInv'
  <2> SUFFICES ASSUME TicketInv, TypeOK', [Next]_vars PROVE TicketInv' OBVIOUS
  <2>1. CASE UNCHANGED vars
    <3>1. VouchersKept BY <2>1 DEF vars, VouchersKept
    <3> QED BY <2>1, <3>1, TicketsStay, TicketStep DEF vars, moneyVars
  <2> QED BY <2>1, EventStepTickets, RegistrationStepTickets, PaymentStepTickets,
             WaitlistStepTickets DEF Next
<1>3. TicketInv => SeatHasTicket BY DEF TicketInv
<1> QED BY <1>1, <1>2, <1>3, TypeCorrect, PTL DEF Spec
(***************************************************************************)
(* The waitlist.  Both promises about offers are about promote_next; that  *)
(* the offer goes to the one who has waited longest also needs the line to *)
(* hold waiting entries only, and that a step makes no second offer needs  *)
(* it to be a strict total order.                                          *)
(***************************************************************************)

\* The line: who joined before whom, among those who wait.
Line ==
    /\ ahead \subseteq Waiting \X Waiting
    /\ \A e \in Waiting : <<e, e>> \notin ahead
    /\ \A e, f \in Waiting : e # f => <<e, f>> \in ahead \/ <<f, e>> \in ahead
    /\ \A e, f, g \in Waiting : <<e, f>> \in ahead /\ <<f, g>> \in ahead => <<e, g>> \in ahead

\* The steps that write the waitlist; every other step leaves it alone.
Promotes == \E st, n, kinds : PromoteNext(st, n, kinds)
Queues ==
    \E e \in Entries : /\ entry' = [entry EXCEPT ![e] = "waiting"]
                       /\ ahead' = AtTheEnd(e)
Leaves ==
    \E e \in Entries : /\ entry' = [entry EXCEPT ![e] = "left"]
                       /\ ahead' = OffTheLine(e)

LEMMA WaitlistWriters ==
    TypeOK /\ [Next]_vars => UNCHANGED waitVars \/ Promotes \/ Queues \/ Leaves
<1> SUFFICES ASSUME TypeOK, [Next]_vars
             PROVE  UNCHANGED waitVars \/ Promotes \/ Queues \/ Leaves
  OBVIOUS
<1>1. CASE UNCHANGED vars BY <1>1 DEF vars
<1>2. CASE EventStep
  BY <1>2 DEF EventStep, PassDeadline, SetCapacity, ReadEvent, TransitionLoad,
              TransitionCommit, SyncLoad, Load, SyncCommit, Abort
<1>3. CASE RegistrationStep
  <2>1. ASSUME NEW s \in Sessions, CancelUnpaid(s) PROVE Promotes
    BY <2>1, Zenon DEF CancelUnpaid, ReleaseSeat, Promotes
  <2>2. ASSUME RegistrationStep, ~ \E s \in Sessions : CancelUnpaid(s) PROVE UNCHANGED waitVars
    BY <2>2 DEF RegistrationStep, CreateLoad, LoadEvent, CreateRefused, CreateCommit, CancelLoad,
                CancelPaid, ApproveLoad, ApproveCommit, RejectLoad, RejectCommit, CheckInLoad,
                CheckInCommit, Load
  <2> QED BY <1>3, <2>1, <2>2
<1>4. CASE PaymentStep
  <2>1. ASSUME NEW s \in Sessions, RefundOk(s) PROVE Promotes
    BY <2>1, Zenon DEF RefundOk, ReleaseSeat, Promotes
  <2>2. ASSUME NEW s \in Sessions, ReleaseCommit(s) PROVE UNCHANGED waitVars \/ Promotes
    BY <2>2, Zenon DEF ReleaseCommit, ReleaseSeat, Promotes, waitVars
  <2>3. ASSUME PaymentStep, ~ \E s \in Sessions : RefundOk(s) \/ ReleaseCommit(s)
        PROVE  UNCHANGED waitVars
    BY <2>3 DEF PaymentStep, RejectPayment, RequestRefund, InitiateLoad, InitiateCommit,
                VerifyLoad, VerifyCommit, ReleaseLoad, RefundLoad, RefundFails, Load
  <2> QED BY <1>4, <2>1, <2>2, <2>3
<1>5. CASE WaitlistStep
  <2>1. ASSUME ExpireAndPromote PROVE Promotes
    BY <2>1, Zenon DEF ExpireAndPromote, Promotes
  <2>2. ASSUME NEW s \in Sessions, JoinCommit(s) PROVE Queues
    <3>1. sess[s].on \in Entries BY <2>2 DEF JoinCommit, TypeOK, SessionState, Idle, Rereading
    <3> QED BY <2>2, <3>1 DEF JoinCommit, Queues
  <2>3. ASSUME NEW s \in Sessions, RetryCommit(s) PROVE Queues
    <3>1. sess[s].on \in Entries BY <2>3 DEF RetryCommit, TypeOK, SessionState, Idle, Rereading
    <3> QED BY <2>3, <3>1 DEF RetryCommit, Queues
  <2>4. ASSUME NEW s \in Sessions, LeaveCommit(s) PROVE Leaves
    <3>1. sess[s].on \in Entries BY <2>4 DEF LeaveCommit, TypeOK, SessionState, Idle, Rereading
    <3> QED BY <2>4, <3>1 DEF LeaveCommit, Leaves
  <2>5. ASSUME NEW s \in Sessions, NEW e \in Entries,
               JoinLoad(s, e) \/ LeaveLoad(s, e) \/ RetryLoad(s, e)
        PROVE  UNCHANGED waitVars
    BY <2>5 DEF JoinLoad, LoadEvent, LeaveLoad, RetryLoad, Load
  <2> QED BY <1>5, <2>1, <2>2, <2>3, <2>4, <2>5 DEF WaitlistStep
<1> QED BY <1>1, <1>2, <1>3, <1>4, <1>5 DEF Next

\* Promotion adds nobody to the line and takes out of it those who no longer
\* wait.
LEMMA PromotionKeepsLine ==
    ASSUME TypeOK, Line, Promotes PROVE Line'
<1>1. PICK st, n, kinds : PromoteNext(st, n, kinds) BY DEF Promotes
<1>2. \A e \in Entries : entry'[e] = "waiting" => entry[e] = "waiting"
  BY <1>1 DEF PromoteNext, TypeOK
<1>3. Waiting' \subseteq Waiting BY <1>2 DEF Waiting
<1>4. ahead' = {p \in ahead : entry'[p[1]] = "waiting" /\ entry'[p[2]] = "waiting"}
  BY <1>1 DEF PromoteNext
<1>5. \A e, f : <<e, f>> \in ahead' <=> <<e, f>> \in ahead /\ e \in Waiting' /\ f \in Waiting'
  BY <1>4 DEF Line, Waiting
<1>6. ahead' \subseteq Waiting' \X Waiting' BY <1>4 DEF Line, Waiting
<1> QED BY <1>3, <1>5, <1>6 DEF Line

\* Taking an entry out of the line, and putting it at the end.
LEMMA LeavingKeepsLine ==
    ASSUME TypeOK, Line, Leaves PROVE Line'
<1>1. PICK e \in Entries : /\ entry' = [entry EXCEPT ![e] = "left"]
                           /\ ahead' = OffTheLine(e)
  BY DEF Leaves
<1>2. Waiting' = Waiting \ {e} BY <1>1 DEF Waiting, TypeOK
<1>3. \A f, g : <<f, g>> \in ahead' <=> <<f, g>> \in ahead /\ f # e /\ g # e
  BY <1>1 DEF OffTheLine
<1>4. ahead' \subseteq Waiting' \X Waiting' BY <1>1, <1>2 DEF Line, OffTheLine
<1> QED BY <1>2, <1>3, <1>4 DEF Line

LEMMA QueueingKeepsLine ==
    ASSUME TypeOK, Line, Queues PROVE Line'
<1>1. PICK e \in Entries : /\ entry' = [entry EXCEPT ![e] = "waiting"]
                           /\ ahead' = AtTheEnd(e)
  BY DEF Queues
<1>2. Waiting' = Waiting \cup {e} BY <1>1 DEF Waiting, TypeOK
<1>3. \A f, g : <<f, g>> \in ahead' <=> \/ <<f, g>> \in ahead /\ f # e /\ g # e
                                        \/ g = e /\ f \in Waiting \ {e}
  BY <1>1 DEF AtTheEnd, OffTheLine
<1>4. ahead' \subseteq Waiting' \X Waiting' BY <1>1, <1>2 DEF Line, AtTheEnd, OffTheLine
<1>5. \A f \in Waiting' : <<f, f>> \notin ahead' BY <1>2, <1>3 DEF Line
<1>6. \A f, g \in Waiting' : f # g => <<f, g>> \in ahead' \/ <<g, f>> \in ahead'
  BY <1>2, <1>3 DEF Line
<1>7. \A f, g, h \in Waiting' :
          <<f, g>> \in ahead' /\ <<g, h>> \in ahead' => <<f, h>> \in ahead'
  BY <1>2, <1>3 DEF Line
<1> QED BY <1>4, <1>5, <1>6, <1>7 DEF Line

\* Those who wait stand in one line, whichever requests and jobs ran in
\* whichever order: nobody is lost from it, nobody stands in it twice.
THEOREM WaitingStandInLine == Spec => []Line
<1>1. Init => Line BY DEF Init, Line, Waiting
<1>2. TypeOK /\ Line /\ [Next]_vars => Line'
  <2> SUFFICES ASSUME TypeOK, Line, [Next]_vars PROVE Line' OBVIOUS
  <2>1. CASE UNCHANGED waitVars BY <2>1 DEF waitVars, Line, Waiting
  <2> QED BY <2>1, WaitlistWriters, PromotionKeepsLine, LeavingKeepsLine, QueueingKeepsLine
<1> QED BY <1>1, <1>2, TypeCorrect, PTL DEF Spec

\* An entry that is newly offered a place was first in the line of its kinds.
LEMMA OfferedWasFirst ==
    ASSUME TypeOK, NEW e \in Entries, OfferedNow(e), NEW st, NEW n, NEW kinds,
           PromoteNext(st, n, kinds)
    PROVE  e \in Earliest(kinds) /\ Offers(Availability(st, capacity, n))
BY DEF PromoteNext, OfferedNow, TypeOK

\* Only promote_next makes an offer.
LEMMA OfferedByPromotion ==
    ASSUME TypeOK, [Next]_vars, NEW e \in Entries, OfferedNow(e) PROVE Promotes
<1>1. ~ UNCHANGED waitVars BY DEF OfferedNow, waitVars
<1>2. ~ Queues /\ ~ Leaves BY DEF OfferedNow, Queues, Leaves, TypeOK
<1> QED BY <1>1, <1>2, WaitlistWriters

\* Among registrants of the same participation type the offer goes to the one
\* who has waited longest since joining or since the last retry.
THEOREM OffersGoInOrder == Spec => OffersInOrder
<1>1. TypeOK /\ Line /\ [Next]_vars =>
        \A e, f \in Entries : OfferedNow(e) /\ <<f, e>> \in ahead =>
              KindOf[EntryIdent[f]] # KindOf[EntryIdent[e]]
  <2> SUFFICES ASSUME TypeOK, Line, [Next]_vars, NEW e \in Entries, NEW f \in Entries,
                      OfferedNow(e), <<f, e>> \in ahead
               PROVE  KindOf[EntryIdent[f]] # KindOf[EntryIdent[e]]
    OBVIOUS
  <2>1. PICK st, n, kinds : PromoteNext(st, n, kinds) BY OfferedByPromotion DEF Promotes
  <2>2. e \in Earliest(kinds) BY <2>1, OfferedWasFirst
  <2>3. f \in Waiting BY DEF Line
  <2> QED BY <2>2, <2>3 DEF Earliest, Candidates
<1> QED BY <1>1, TypeCorrect, WaitingStandInLine, PTL DEF Spec, OffersInOrder

\* One transaction offers at most one place.
OneOffer == [][\A e, f \in Entries : OfferedNow(e) /\ OfferedNow(f) => e = f]_vars

\* The seat that one registration gives up, and each tick of the job, is
\* offered to one registrant only: no step promotes two entries.
THEOREM OneOfferAtATime == Spec => OneOffer
<1>1. TypeOK /\ Line /\ [Next]_vars =>
        \A e, f \in Entries : OfferedNow(e) /\ OfferedNow(f) => e = f
  <2> SUFFICES ASSUME TypeOK, Line, [Next]_vars, NEW e \in Entries, NEW f \in Entries,
                      OfferedNow(e), OfferedNow(f)
               PROVE  e = f
    OBVIOUS
  <2>1. PICK st, n, kinds : PromoteNext(st, n, kinds) BY OfferedByPromotion DEF Promotes
  <2>2. e \in Earliest(kinds) /\ f \in Earliest(kinds) BY <2>1, OfferedWasFirst
  <2> QED BY <2>2 DEF Earliest, Candidates, Line
<1> QED BY <1>1, TypeCorrect, WaitingStandInLine, PTL DEF Spec, OneOffer

\* The seat that is released is offered if the event has room for it, or not
\* at all.
LEMMA ReleaseOffersRoom ==
    ASSUME TypeOK, NEW r \in Regs, NEW new, ReleaseSeat(r, new), UNCHANGED <<capacity, passed>>,
           NEW e \in Entries, OfferedNow(e)
    PROVE  /\ evStatus' = "registration_open" /\ ~passed'
           /\ Cardinality(Active') < capacity'
<1> DEFINE n == CountActive([reg EXCEPT ![r] = new])
<1>1. evStatus' = Reopened(n) /\ reg' = [reg EXCEPT ![r] = new]
  BY DEF ReleaseSeat, SetReg
<1>2. PromoteNext(Reopened(n), n, {KindOf[IdentOf[r]]}) BY Zenon DEF ReleaseSeat
<1>3. Offers(Availability(evStatus', capacity, n)) BY <1>1, <1>2, OfferedWasFirst
<1>4. n = Cardinality(Active') BY <1>1 DEF CountActive, Active
<1> HIDE DEF n
<1> QED BY <1>3, <1>4 DEF Offers, Availability, HasRoom

\* A place is offered only where there is one: after the transaction that makes
\* the offer the event is open, before its deadline, and has a free seat.
THEOREM OffersOnlyPlaces == Spec => OffersHaveRoom
<1>1. TypeOK /\ [Next]_vars =>
        \A e \in Entries : OfferedNow(e) =>
            /\ evStatus' = "registration_open" /\ ~passed'
            /\ Cardinality(Active') < capacity'
  <2> SUFFICES ASSUME TypeOK, [Next]_vars, NEW e \in Entries, OfferedNow(e)
               PROVE  /\ evStatus' = "registration_open" /\ ~passed'
                      /\ Cardinality(Active') < capacity'
    OBVIOUS
  <2>1. ~ UNCHANGED waitVars BY DEF OfferedNow, waitVars
  <2>2. ASSUME NEW s \in Sessions, CancelUnpaid(s)
        PROVE  \E r \in Regs : \E new : ReleaseSeat(r, new) /\ UNCHANGED <<capacity, passed>>
    <3>1. sess[s].on \in Regs BY <2>2 DEF CancelUnpaid, TypeOK, SessionState, Idle, Rereading
    <3> QED BY <2>2, <3>1, Zenon DEF CancelUnpaid
  <2>3. ASSUME NEW s \in Sessions, ReleaseCommit(s)
        PROVE  \E r \in Regs : \E new : ReleaseSeat(r, new) /\ UNCHANGED <<capacity, passed>>
    <3>1. sess[s].on \in Regs BY <2>3 DEF ReleaseCommit, TypeOK, SessionState, Idle, Rereading
    <3> QED BY <2>1, <2>3, <3>1, Zenon DEF ReleaseCommit
  <2>4. ASSUME NEW s \in Sessions, RefundOk(s)
        PROVE  \E r \in Regs : \E new : ReleaseSeat(r, new) /\ UNCHANGED <<capacity, passed>>
    <3>1. sess[s].on \in Regs BY <2>4 DEF RefundOk, TypeOK, SessionState, Idle, Rereading
    <3> QED BY <2>4, <3>1, Zenon DEF RefundOk
  <2>5. CASE \E r \in Regs : \E new : ReleaseSeat(r, new) /\ UNCHANGED <<capacity, passed>>
    BY <2>5, ReleaseOffersRoom
  <2>6. CASE ExpireAndPromote
    <3>1. /\ UNCHANGED <<evStatus, capacity, passed, reg>>
          /\ PromoteNext(evStatus, CountActive(reg), Kinds)
      BY <2>6 DEF ExpireAndPromote
    <3>2. Offers(Availability(evStatus, capacity, CountActive(reg))) BY <3>1, OfferedWasFirst
    <3> QED BY <3>1, <3>2 DEF Offers, Availability, HasRoom, CountActive, Active
  <2>7. \/ ExpireAndPromote
        \/ \E s \in Sessions : CancelUnpaid(s) \/ ReleaseCommit(s) \/ RefundOk(s)
    <3>1. ~ UNCHANGED vars BY <2>1 DEF vars
    <3>2. ~ EventStep
      BY <2>1 DEF EventStep, PassDeadline, SetCapacity, ReadEvent, TransitionLoad,
                  TransitionCommit, SyncLoad, Load, SyncCommit, Abort, waitVars
    <3>3. CASE RegistrationStep
      BY <2>1, <3>3
         DEF RegistrationStep, CreateLoad, LoadEvent, CreateRefused, CreateCommit, CancelLoad,
             CancelPaid, ApproveLoad, ApproveCommit, RejectLoad, RejectCommit, CheckInLoad,
             CheckInCommit, Load, waitVars
    <3>4. CASE PaymentStep
      BY <2>1, <3>4
         DEF PaymentStep, RejectPayment, RequestRefund, InitiateLoad, InitiateCommit,
             VerifyLoad, VerifyCommit, ReleaseLoad, RefundLoad, RefundFails, Load, waitVars
    <3>5. CASE WaitlistStep
      <4>1. ASSUME NEW s \in Sessions, NEW x \in Entries,
                   JoinLoad(s, x) \/ LeaveLoad(s, x) \/ RetryLoad(s, x)
            PROVE  FALSE
        BY <2>1, <4>1 DEF JoinLoad, LoadEvent, LeaveLoad, RetryLoad, Load
      <4>2. ASSUME NEW s \in Sessions, JoinCommit(s) \/ RetryCommit(s) \/ LeaveCommit(s)
            PROVE  FALSE
        BY <4>2 DEF JoinCommit, RetryCommit, LeaveCommit, OfferedNow, TypeOK
      <4> QED BY <3>5, <4>1, <4>2 DEF WaitlistStep
    <3> QED BY <3>1, <3>2, <3>3, <3>4, <3>5 DEF Next
  <2> QED BY <2>2, <2>3, <2>4, <2>5, <2>6, <2>7
<1> QED BY <1>1, TypeCorrect, PTL DEF Spec, OffersHaveRoom
(***************************************************************************)
(* An event that asks neither for a fee nor for approval.  No payment row  *)
(* is ever written, so nothing but a cancellation ends a registration, a   *)
(* scan keeps the ticket's row from it, and the registrations implement    *)
(* the ledger of SeatLedger.                                               *)
(***************************************************************************)

\* The states such an event's registrations and requests reach.
FreeStatus == {"none", "confirmed", "checked_in", "cancelled"}
FreeSession(x, rg) ==
    /\ x.op \notin {"initiate", "verify", "release", "refund", "approve", "reject"}
    /\ x.op = "cancel" => x.pay = "none"
    /\ x.op = "checkin" => rg[x.on] \in {"confirmed", "checked_in"}

FreeInv ==
    /\ SeatInv
    /\ \A r \in Regs : /\ pay[r] = "none" /\ refund[r] = "none"
                       /\ reg[r] \in FreeStatus
                       /\ ticket[r] = "issued" => reg[r] = "confirmed"
    /\ \A s \in Sessions : FreeSession(sess[s], reg)

\* What a step may do to the registrations of such an event.
Enters(r) ==
    /\ reg[r] = "none" /\ Cardinality(Active) < peak
    /\ UNCHANGED peak
    /\ reg' = [reg EXCEPT ![r] = "confirmed"]
Admits(r) ==
    /\ reg[r] \in {"confirmed", "checked_in"}
    /\ reg' = [reg EXCEPT ![r] = "checked_in"] \/ reg' = reg
    /\ UNCHANGED peak
Cancels(r) ==
    /\ reg[r] \in FreeStatus \ {"none"}
    /\ reg' = [reg EXCEPT ![r] = "cancelled"]
    /\ UNCHANGED peak
    /\ \A s \in Sessions : ~ (sess'[s].op = "checkin" /\ sess'[s].on = r)

FreeStep ==
    /\ UNCHANGED <<pay, refund>>
    /\ \/ UNCHANGED <<reg, ticket>>
       \/ \E r \in Regs : Enters(r) /\ ticket' = [ticket EXCEPT ![r] = "issued"]
       \/ \E r \in Regs : Admits(r) /\ ticket' = [ticket EXCEPT ![r] = "checked_in"]
       \/ \E r \in Regs : Cancels(r) /\ ticket' = [ticket EXCEPT ![r] = CancelledTicket(@)]
    /\ peak' = peak \/ (peak' > peak /\ UNCHANGED reg)
    /\ \A s \in Sessions : sess'[s] = sess[s] \/ FreeSession(sess'[s], reg)

LEMMA FreeFinish ==
    ASSUME TypeOK, NEW s \in Sessions, Finish(s)
    PROVE  \A t \in Sessions : sess'[t] = sess[t] \/ FreeSession(sess'[t], reg)
<1> FreeSession(Idle, reg) BY DEF FreeSession, Idle
<1> QED BY DEF Finish, TypeOK

LEMMA FreeLoad ==
    ASSUME TypeOK, NEW s \in Sessions, NEW x, FreeSession(x, reg), Load(s, x)
    PROVE  \A t \in Sessions : sess'[t] = sess[t] \/ FreeSession(sess'[t], reg)
BY DEF Load, TypeOK

\* Every step does one of these, or leaves the registrations alone.
LEMMA FreeSteps ==
    ASSUME Fee = FALSE, Approval = FALSE, FreeInv, [Next]_vars
    PROVE  FreeStep
<1> USE DEF moneyVars, waitVars
<1>0. TypeOK BY DEF FreeInv, SeatInv
<1>1. CASE UNCHANGED vars BY <1>1 DEF vars, FreeStep
<1>2. CASE EventStep
  <2>1. /\ UNCHANGED <<reg, ticket, pay, refund>>
        /\ peak' = peak \/ peak' > peak
    BY <1>0, <1>2 DEF TypeOK, EventStep, PassDeadline, SetCapacity, ReadEvent, TransitionLoad,
                TransitionCommit, SyncLoad, Load, SyncCommit, Abort
  <2>2. \A s \in Sessions : sess'[s] = sess[s] \/ FreeSession(sess'[s], reg)
    <3>1. CASE PassDeadline \/ \E c \in Capacities : SetCapacity(c)
      BY <3>1 DEF PassDeadline, SetCapacity
    <3>2. ASSUME NEW s \in Sessions, ReadEvent(s) \/ SyncCommit(s) \/ Abort(s)
          PROVE  \A t \in Sessions : sess'[t] = sess[t] \/ FreeSession(sess'[t], reg)
      BY <1>0, <3>2, FreeFinish DEF ReadEvent, SyncCommit, Abort
    <3>3. ASSUME NEW s \in Sessions, NEW to \in EventStatus, TransitionLoad(s, to)
          PROVE  \A t \in Sessions : sess'[t] = sess[t] \/ FreeSession(sess'[t], reg)
      BY <1>0, <3>3 DEF TransitionLoad, FreeSession, TypeOK
    <3>4. ASSUME NEW s \in Sessions, TransitionCommit(s)
          PROVE  \A t \in Sessions : sess'[t] = sess[t] \/ FreeSession(sess'[t], reg)
      BY <1>0, <3>4 DEF TransitionCommit, FreeSession, TypeOK, Rereading
    <3>5. ASSUME NEW s \in Sessions, SyncLoad(s)
          PROVE  \A t \in Sessions : sess'[t] = sess[t] \/ FreeSession(sess'[t], reg)
      BY <1>0, <3>5 DEF SyncLoad, Load, FreeSession, TypeOK
    <3> QED BY <1>2, <3>1, <3>2, <3>3, <3>4, <3>5 DEF EventStep
  <2> QED BY <2>1, <2>2 DEF FreeStep
<1>3. CASE RegistrationStep
  <2>1. ASSUME NEW s \in Sessions, NEW i \in Idents, CreateLoad(s, i) PROVE FreeStep
    <3>1. FreeSession([op |-> "create", on |-> i, status |-> evStatus, cap |-> capacity], reg)
      BY DEF FreeSession
    <3> QED BY <1>0, <2>1, <3>1, FreeLoad DEF FreeStep, CreateLoad, LoadEvent, Load
  <2>2. ASSUME NEW s \in Sessions, CreateRefused(s) PROVE FreeStep
    BY <1>0, <2>2, FreeFinish DEF FreeStep, CreateRefused
  <2>3. ASSUME NEW s \in Sessions, NEW r \in Regs, CreateCommit(s, r) PROVE FreeStep
    <3>1. FirstStatus = "confirmed" BY DEF FirstStatus
    <3>2. Cardinality(Active) < peak
      <4>1. sess[s].cap \in Nat
        BY <1>0, <2>3 DEF CreateCommit, TypeOK, SessionState, Idle, Rereading
      <4>2. sess[s].cap <= peak BY <2>3 DEF CreateCommit, FreeInv, SeatInv, SessionOK
      <4>3. Cardinality(Active) < sess[s].cap
        BY <2>3 DEF CreateCommit, Admissible, HasRoom, CountActive, Active
      <4>4. Cardinality(Active) \in Nat BY FS_Subset, FS_CardinalityType DEF Active, ActiveIn
      <4>5. peak \in Nat BY <1>0 DEF TypeOK
      <4> QED BY <4>1, <4>2, <4>3, <4>4, <4>5
    <3>3. Enters(r) BY <2>3, <3>1, <3>2 DEF CreateCommit, SetReg, Enters
    <3>4. ticket' = [ticket EXCEPT ![r] = "issued"] BY <2>3, <3>1 DEF CreateCommit
    <3>5. \A t \in Sessions : sess'[t] = sess[t] \/ FreeSession(sess'[t], reg)
      BY <1>0, <2>3, FreeFinish DEF CreateCommit
    <3> QED BY <2>3, <3>3, <3>4, <3>5 DEF FreeStep, CreateCommit
  <2>4. ASSUME NEW s \in Sessions, NEW r \in Regs, CancelLoad(s, r) PROVE FreeStep
    <3>1. FreeSession([op |-> "cancel", on |-> r, pay |-> pay[r]], reg)
      BY DEF FreeSession, FreeInv
    <3> QED BY <1>0, <2>4, <3>1, FreeLoad DEF FreeStep, CancelLoad, Load
  <2>5. ASSUME NEW s \in Sessions, CancelPaid(s) PROVE FreeStep
    <3>1. sess[s].on \in Regs BY <1>0, <2>5 DEF CancelPaid, TypeOK, SessionState, Idle, Rereading
    <3> QED BY <2>5, <3>1 DEF CancelPaid, PaySeen, FreeInv, FreeSession
  <2>6. ASSUME NEW s \in Sessions, CancelUnpaid(s) PROVE FreeStep
    <3>1. sess[s].on \in Regs
      BY <1>0, <2>6 DEF CancelUnpaid, TypeOK, SessionState, Idle, Rereading
    <3>2. PaySeen(s) = "none" BY <2>6, <3>1 DEF CancelUnpaid, PaySeen, FreeInv, FreeSession
    <3>3. UNCHANGED pay BY <1>0, <2>6, <3>1, <3>2 DEF CancelUnpaid, TypeOK
    <3>4. reg[sess[s].on] # "none"
      BY <2>6 DEF CancelUnpaid, FreeInv, SeatInv, SessionOK, RegOps
    <3>5. Cancels(sess[s].on)
      BY <1>0, <2>6, <3>1, <3>4
         DEF CancelUnpaid, ReleaseSeat, SetReg, Cancels, FreeInv, TicketRowFree, Finish, TypeOK,
             Idle
    <3>6. \A t \in Sessions : sess'[t] = sess[t] \/ FreeSession(sess'[t], reg)
      BY <1>0, <2>6, FreeFinish DEF CancelUnpaid
    <3> QED BY <2>6, <3>1, <3>3, <3>5, <3>6 DEF FreeStep, CancelUnpaid
  <2>7. ASSUME NEW s \in Sessions, NEW r \in Regs, ApproveLoad(s, r) \/ RejectLoad(s, r)
        PROVE  FreeStep
    BY <2>7 DEF ApproveLoad, RejectLoad, Decidable, FreeInv, FreeStatus
  <2>8. ASSUME NEW s \in Sessions, ApproveCommit(s) \/ RejectCommit(s) PROVE FreeStep
    BY <2>8 DEF ApproveCommit, RejectCommit, FreeInv, FreeSession
  <2>9. ASSUME NEW s \in Sessions, NEW r \in Regs, CheckInLoad(s, r) PROVE FreeStep
    <3>1. FreeSession([op |-> "checkin", on |-> r, reg |-> reg[r]], reg)
      BY <2>9 DEF FreeSession, CheckInLoad, FreeInv
    <3> QED BY <1>0, <2>9, <3>1, FreeLoad DEF FreeStep, CheckInLoad, Load
  <2>10. ASSUME NEW s \in Sessions, CheckInCommit(s) PROVE FreeStep
    <3>1. sess[s].on \in Regs
      BY <1>0, <2>10 DEF CheckInCommit, TypeOK, SessionState, Idle, Rereading
    <3>2. Admits(sess[s].on)
      BY <1>0, <2>10, <3>1
         DEF CheckInCommit, SetReg, Flush, Admits, FreeInv, FreeSession, TypeOK
    <3>3. \A t \in Sessions : sess'[t] = sess[t] \/ FreeSession(sess'[t], reg)
      BY <1>0, <2>10, FreeFinish DEF CheckInCommit
    <3> QED BY <2>10, <3>1, <3>2, <3>3 DEF FreeStep, CheckInCommit
  <2> QED BY <1>3, <2>1, <2>2, <2>3, <2>4, <2>5, <2>6, <2>7, <2>8, <2>9, <2>10
        DEF RegistrationStep
<1>4. CASE PaymentStep
  <2>1. ~ PaymentStep
    BY DEF PaymentStep, RejectPayment, RequestRefund, InitiateLoad, InitiateCommit, VerifyLoad,
           VerifyCommit, ReleaseLoad, ReleaseCommit, RefundLoad, RefundOk, RefundFails,
           FreeInv, FreeSession
  <2> QED BY <1>4, <2>1
<1>5. CASE WaitlistStep
  <2>1. ASSUME ExpireAndPromote PROVE FreeStep BY <2>1 DEF FreeStep, ExpireAndPromote
  <2>2. ASSUME NEW s \in Sessions, NEW e \in Entries, JoinLoad(s, e) PROVE FreeStep
    <3>1. FreeSession([op |-> "join", on |-> e, status |-> evStatus, cap |-> capacity], reg)
      BY DEF FreeSession
    <3> QED BY <1>0, <2>2, <3>1, FreeLoad DEF FreeStep, JoinLoad, LoadEvent, Load
  <2>3. ASSUME NEW s \in Sessions, NEW e \in Entries, LeaveLoad(s, e) \/ RetryLoad(s, e)
        PROVE  FreeStep
    <3>1. \A op \in {"leave", "retry"} : FreeSession([op |-> op, on |-> e], reg)
      BY DEF FreeSession
    <3> QED BY <1>0, <2>3, <3>1, FreeLoad DEF FreeStep, LeaveLoad, RetryLoad, Load
  <2>4. ASSUME NEW s \in Sessions, JoinCommit(s) \/ LeaveCommit(s) \/ RetryCommit(s)
        PROVE  FreeStep
    BY <1>0, <2>4, FreeFinish DEF FreeStep, JoinCommit, LeaveCommit, RetryCommit
  <2> QED BY <1>5, <2>1, <2>2, <2>3, <2>4 DEF WaitlistStep
<1> QED BY <1>1, <1>2, <1>3, <1>4, <1>5 DEF Next

LEMMA FreeStarts == ASSUME Fee = FALSE, Approval = FALSE PROVE Init => FreeInv
<1> SUFFICES ASSUME Init PROVE FreeInv OBVIOUS
<1>1. \A s \in Sessions : FreeSession(sess[s], reg) BY DEF Init, FreeSession, Idle
<1> QED BY <1>1, InitSeats DEF Init, FreeInv, FreeStatus

LEMMA FreeKept == ASSUME Fee = FALSE, Approval = FALSE PROVE FreeInv /\ [Next]_vars => FreeInv'
<1> SUFFICES ASSUME FreeInv, [Next]_vars PROVE FreeInv' OBVIOUS
<1>0. SeatInv' BY SeatsKeep DEF FreeInv
<1>t. TypeOK /\ TypeOK' BY <1>0 DEF FreeInv, SeatInv
<1>1. \A s \in Sessions : sess'[s] = sess[s] \/ FreeSession(sess'[s], reg)
  BY FreeSteps DEF FreeStep
<1>2. \A s \in Sessions : FreeSession(sess'[s], reg) BY <1>1 DEF FreeInv
<1>3. \A s \in Sessions : sess'[s].op = "checkin" => sess'[s].on \in Regs
  BY <1>t DEF TypeOK, SessionState, Idle, Rereading
<1>4. UNCHANGED <<pay, refund>> BY FreeSteps DEF FreeStep
<1>5. CASE UNCHANGED <<reg, ticket>>
  BY <1>0, <1>2, <1>4, <1>5 DEF FreeInv
<1>6. ASSUME NEW r \in Regs, Enters(r), ticket' = [ticket EXCEPT ![r] = "issued"] PROVE FreeInv'
  BY <1>0, <1>t, <1>2, <1>3, <1>4, <1>6 DEF FreeInv, Enters, FreeStatus, FreeSession, TypeOK
<1>7. ASSUME NEW r \in Regs, Admits(r), ticket' = [ticket EXCEPT ![r] = "checked_in"]
      PROVE  FreeInv'
  BY <1>0, <1>t, <1>2, <1>3, <1>4, <1>7 DEF FreeInv, Admits, FreeStatus, FreeSession, TypeOK
<1>8. ASSUME NEW r \in Regs, Cancels(r), ticket' = [ticket EXCEPT ![r] = CancelledTicket(@)]
      PROVE  FreeInv'
  <2>1. \A q \in Regs : ticket'[q] = "issued" => reg'[q] = "confirmed"
    BY <1>t, <1>8 DEF FreeInv, Cancels, CancelledTicket, TypeOK
  <2>2. \A s \in Sessions : FreeSession(sess'[s], reg')
    BY <1>t, <1>1, <1>2, <1>3, <1>8 DEF Cancels, FreeSession, TypeOK
  <2> QED BY <1>0, <1>t, <1>4, <1>8, <2>1, <2>2 DEF FreeInv, Cancels, FreeStatus, TypeOK
<1> QED BY <1>5, <1>6, <1>7, <1>8, FreeSteps DEF FreeStep

LEMMA FreeInvariant == ASSUME Fee = FALSE, Approval = FALSE PROVE Spec => []FreeInv
BY FreeStarts, FreeKept, PTL DEF Spec

\* At an event without fee and approval a valid ticket belongs to a confirmed
\* registration, however cancellation and scan of it overlap.
THEOREM FreeTickets ==
    ASSUME Fee = FALSE, Approval = FALSE PROVE Spec => []TicketMeansConfirmed
<1>1. FreeInv => TicketMeansConfirmed BY DEF FreeInv, TicketMeansConfirmed
<1> QED BY <1>1, FreeInvariant, PTL

\* A registration's seat in the ledger.
LedgerSeat == [r \in Regs |-> CASE reg[r] \in ActiveStatus -> "held"
                                [] reg[r] \in {"rejected", "cancelled"} -> "given_up"
                                [] OTHER -> "never"]

LEMMA LedgerStarts == Init => Ledger!Init
BY ConstantsAssumption DEF Init, Ledger!Init, ActiveStatus

LEMMA LedgerStepsOn ==
    ASSUME Fee = FALSE, Approval = FALSE, FreeInv, [Next]_vars
    PROVE  [Ledger!Next]_<<LedgerSeat, peak>>
<1> DEFINE seat == LedgerSeat
<1> USE DEF LedgerSeat
<1>0. TypeOK /\ FreeStep BY FreeSteps DEF FreeInv, SeatInv
<1>1. Ledger!Held = Active BY DEF Ledger!Held, Active, ActiveIn, ActiveStatus
<1>2. CASE UNCHANGED reg
  <2>1. UNCHANGED seat BY <1>2
  <2>2. peak' = peak \/ (peak' > peak /\ peak' \in Nat) BY <1>0, TypeStep DEF FreeStep, TypeOK
  <2> QED BY <2>1, <2>2 DEF Ledger!Next, Ledger!Offer
<1>3. ASSUME NEW r \in Regs, Enters(r) PROVE Ledger!Take(r)
  <2>1. seat' = [seat EXCEPT ![r] = "held"] /\ seat[r] = "never"
    BY <1>0, <1>3 DEF Enters, TypeOK, ActiveStatus
  <2>2. Cardinality(Ledger!Held) < peak /\ UNCHANGED peak BY <1>1, <1>3 DEF Enters
  <2>3. Ledger!Cardinality(Ledger!Held) = Cardinality(Ledger!Held)
    BY DEF Ledger!Cardinality, Cardinality
  <2> QED BY <2>1, <2>2, <2>3, Zenon DEF Ledger!Take
<1>4. ASSUME NEW r \in Regs, Admits(r) PROVE UNCHANGED <<seat, peak>>
  BY <1>0, <1>4 DEF Admits, TypeOK, ActiveStatus
<1>5. ASSUME NEW r \in Regs, Cancels(r) PROVE Ledger!GiveUp(r) \/ UNCHANGED <<seat, peak>>
  <2>1. seat' = [seat EXCEPT ![r] = "given_up"] /\ seat[r] \in {"held", "given_up"}
    BY <1>0, <1>5 DEF Cancels, TypeOK, ActiveStatus, FreeStatus
  <2> QED BY <1>5, <2>1 DEF Ledger!GiveUp, Cancels
<1> QED BY <1>0, <1>2, <1>3, <1>4, <1>5 DEF FreeStep, Ledger!Next

\* At such an event every step of the concurrent requests and jobs is a step of
\* the ledger or leaves it alone: a seat is taken once, below the largest
\* capacity ever offered, and is not taken back after it was given up.
THEOREM ImplementsTheLedger ==
    ASSUME Fee = FALSE, Approval = FALSE PROVE Spec => Ledger!Spec
<1>1. FreeInv /\ [Next]_vars => [Ledger!Next]_Ledger!ledger
  BY LedgerStepsOn DEF Ledger!ledger, LedgerSeat
<1> QED BY LedgerStarts, <1>1, FreeInvariant, PTL DEF Spec, Ledger!Spec

-----------------------------------------------------------------------------
(* The run SeatsFree, which adds an event with approval: the first event   *)
(* takes the steps of the component.                                       *)

FreeEventInv == part = "free" => FreeInv

LEMMA FreeEvent ==
    ASSUME Fee = FALSE, Approval = FALSE PROVE FreeSpec => []FreeEventInv
<1>1. FreeInit => FreeEventInv BY FreeStarts DEF FreeInit, FreeEventInv
<1>2. FreeEventInv /\ [FreeNext]_<<vars, part>> => FreeEventInv'
  <2> SUFFICES ASSUME FreeEventInv, [FreeNext]_<<vars, part>>, part = "free" PROVE FreeInv'
    BY DEF FreeEventInv, FreeNext
  <2>1. FreeInv /\ [Next]_vars BY DEF FreeEventInv, FreeNext
  <2> QED BY <2>1, FreeKept
<1> QED BY <1>1, <1>2, PTL DEF FreeSpec

\* MCSeatsFree.TicketsWithoutApproval: a valid ticket of the event without
\* approval belongs to a registration that is confirmed.
THEOREM FreeEventTickets ==
    ASSUME Fee = FALSE, Approval = FALSE PROVE FreeSpec => []TicketsWithoutApproval
<1>1. FreeEventInv => TicketsWithoutApproval
  BY DEF FreeEventInv, TicketsWithoutApproval, FreeInv, TicketMeansConfirmed
<1> QED BY <1>1, FreeEvent, PTL

\* MCSeatsFree.ImplementsLedger: the steps of that event are steps of the ledger.
THEOREM FreeEventLedger ==
    ASSUME Fee = FALSE, Approval = FALSE PROVE FreeSpec => ImplementsLedger
<1> DEFINE FirstEvent == part = "free" => Ledger!Next
<1>1. FreeInit => (part = "free" => Ledger!Init) BY LedgerStarts DEF FreeInit
<1>2. FreeEventInv /\ [FreeNext]_<<vars, part>> => [FirstEvent]_<<part, Ledger!ledger>>
  <2> SUFFICES ASSUME FreeEventInv, [FreeNext]_<<vars, part>>, part = "free"
               PROVE  [Ledger!Next]_<<part, Ledger!ledger>>
    OBVIOUS
  <2>1. FreeInv /\ [Next]_vars /\ UNCHANGED part BY DEF FreeEventInv, FreeNext
  <2>2. [Ledger!Next]_Ledger!ledger BY <2>1, LedgerStepsOn DEF Ledger!ledger, LedgerSeat
  <2> QED BY <2>1, <2>2
<1> QED BY <1>1, <1>2, FreeEvent, PTL DEF FreeSpec, ImplementsLedger
=============================================================================
