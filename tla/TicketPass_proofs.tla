-------------------------- MODULE TicketPass_proofs --------------------------
(***************************************************************************)
(* Theorems about TicketPass, for every set of tickets, users, access      *)
(* types, policies, device keys and concurrent requests.                   *)
(***************************************************************************)
EXTENDS TicketPass, TLAPS

USE TicketConstants

(***************************************************************************)
(* Type correctness.                                                       *)
(***************************************************************************)

\* What the database keeps of a written copy is a ticket again.
LEMMA WrittenType ==
    ASSUME NEW seen \in Ticket, NEW new \in Ticket, NEW row \in Ticket
    PROVE  Written(seen, new, row) \in Ticket
BY DEF Written, Flush, Ticket

LEMMA AdmittedType ==
    ASSUME NEW seen \in Ticket
    PROVE  Admitted(seen) \in Ticket
<1> DEFINE st == IF seen.count = 0 THEN "checked_in" ELSE "used"
<1>1. st \in TicketStatus BY DEF TicketStatus, Used
<1>2. seen.count + 1 \in Nat BY DEF Ticket
<1>3. [seen EXCEPT !.count = seen.count + 1] \in Ticket BY <1>2 DEF Ticket
<1>4. [[seen EXCEPT !.count = seen.count + 1] EXCEPT !.status = st] \in Ticket
  BY <1>1, <1>3 DEF Ticket
<1> QED BY <1>4 DEF Admitted

\* A request that is not idle has seen a ticket.
LEMMA Seen ==
    ASSUME TypeOK, NEW s \in Sessions, sess[s].op # "idle"
    PROVE  sess[s].on \in Tickets /\ sess[s].seen \in Ticket
BY DEF TypeOK, SessionState, Idle

LEMMA FinishType ==
    ASSUME TypeOK, NEW s \in Sessions, Finish(s)
    PROVE  sess' \in [Sessions -> SessionState]
<1> Idle \in SessionState BY DEF SessionState
<1> QED BY DEF TypeOK, Finish

LEMMA LoadType ==
    ASSUME TypeOK, NEW s \in Sessions, NEW t \in Tickets, NEW x \in SessionState,
           ConsoleLoad(s, t, x)
    PROVE  TypeOK'
BY DEF TypeOK, ConsoleLoad

LEMMA AdmitType ==
    ASSUME TypeOK, NEW t \in Tickets, NEW seen \in Ticket, NEW k \in Keys \cup {NoKey},
           Admit(t, seen, k)
    PROVE  /\ tk' \in [Tickets -> Ticket]
           /\ rows' \subseteq [on : Tickets, n : Nat, key : Keys \cup {NoKey}]
<1>1. Written(seen, Admitted(seen), tk[t]) \in Ticket
  BY AdmittedType, WrittenType DEF TypeOK
<1>2. seen.count + 1 \in Nat BY DEF Ticket
<1> QED BY <1>1, <1>2 DEF Admit, Write, TypeOK

LEMMA ConsoleType ==
    ASSUME TypeOK, NEW s \in Sessions, sess[s].op # "idle", NEW new \in Ticket,
           ConsoleCommit(s, new)
    PROVE  TypeOK'
<1>1. Written(sess[s].seen, new, tk[sess[s].on]) \in Ticket
  BY Seen, WrittenType DEF TypeOK
<1> QED BY <1>1, Seen, FinishType DEF ConsoleCommit, Write, TypeOK

LEMMA InitType == Init => TypeOK
BY DEF Init, TypeOK, Ticket, TicketStatus, Unused, SessionState

LEMMA GateStepType == TypeOK /\ GateStep => TypeOK'
<1> SUFFICES ASSUME TypeOK, GateStep PROVE TypeOK' OBVIOUS
<1>1. ASSUME NEW t \in Tickets, NEW k \in Keys \cup {NoKey}, CheckIn(t, k) PROVE TypeOK'
  <2>1. tk[t] \in Ticket BY DEF TypeOK
  <2> QED BY <1>1, <2>1, AdmitType DEF CheckIn, Admit, TypeOK
<1>2. ASSUME NEW s \in Sessions, NEW t \in Tickets, OfflineResolve(s, t) PROVE TypeOK'
  <2>1. [op |-> "offline", on |-> t, seen |-> tk[t]] \in SessionState
    BY DEF TypeOK, SessionState
  <2> QED BY <1>2, <2>1 DEF OfflineResolve, TypeOK
<1>3. ASSUME NEW s \in Sessions, NEW k \in Keys, OfflineCommit(s, k) PROVE TypeOK'
  <2>1. sess[s] \in [op : {"offline"}, on : Tickets, seen : Ticket]
    BY <1>3 DEF OfflineCommit, TypeOK, SessionState, Idle
  <2>2. Admitted(sess[s].seen) \in Ticket BY <2>1, AdmittedType
  <2>3. [sess[s] EXCEPT !.seen = Admitted(@)] \in SessionState
    BY <2>1, <2>2 DEF SessionState
  <2>4. sess' \in [Sessions -> SessionState]
    BY <1>3, <2>3 DEF OfflineCommit, TypeOK
  <2> QED BY <1>3, <2>1, <2>4, AdmitType DEF OfflineCommit, Admit, TypeOK
<1> QED BY <1>1, <1>2, <1>3 DEF GateStep

LEMMA ConsoleStepType == TypeOK /\ ConsoleStep => TypeOK'
<1> SUFFICES ASSUME TypeOK, ConsoleStep PROVE TypeOK' OBVIOUS
<1>1. ASSUME NEW s \in Sessions, NEW t \in Tickets, RevokeLoad(s, t) PROVE TypeOK'
  <2>1. [op |-> "revoke", on |-> t, seen |-> tk[t]] \in SessionState BY DEF SessionState, TypeOK
  <2> QED BY <1>1, <2>1, LoadType DEF RevokeLoad
<1>2. ASSUME NEW s \in Sessions, NEW t \in Tickets, ReplaceLoad(s, t) PROVE TypeOK'
  <2>1. [op |-> "replace", on |-> t, seen |-> tk[t]] \in SessionState BY DEF SessionState, TypeOK
  <2> QED BY <1>2, <2>1, LoadType DEF ReplaceLoad
<1>3. ASSUME NEW s \in Sessions, NEW t \in Tickets, NEW u \in Users, ReassignLoad(s, t, u)
      PROVE TypeOK'
  <2>1. [op |-> "reassign", on |-> t, seen |-> tk[t], to |-> u] \in SessionState
    BY DEF SessionState, TypeOK
  <2> QED BY <1>3, <2>1, LoadType DEF ReassignLoad
<1>4. ASSUME NEW s \in Sessions, NEW t \in Tickets, NEW a \in Types, RetypeLoad(s, t, a)
      PROVE TypeOK'
  <2>1. [op |-> "retype", on |-> t, seen |-> tk[t], to |-> a] \in SessionState
    BY DEF SessionState, TypeOK
  <2> QED BY <1>4, <2>1, LoadType DEF RetypeLoad
<1>5. ASSUME NEW s \in Sessions, Revoke(s) PROVE TypeOK'
  <2>1. [sess[s].seen EXCEPT !.status = "revoked"] \in Ticket
    BY <1>5, Seen DEF Revoke, Ticket, TicketStatus, Ended
  <2> QED BY <1>5, <2>1, ConsoleType DEF Revoke
<1>6. ASSUME NEW s \in Sessions, Replace(s) PROVE TypeOK'
  <2> DEFINE new == [sess[s].seen EXCEPT !.code = tk[sess[s].on].code + 1, !.status = "active"]
  <2>1. sess[s].on \in Tickets /\ sess[s].seen \in Ticket BY <1>6, Seen DEF Replace
  <2>2. tk[sess[s].on].code + 1 \in Nat BY <2>1 DEF TypeOK, Ticket
  <2>3. new \in Ticket BY <2>1, <2>2 DEF Ticket, TicketStatus, Unused
  <2>4. ConsoleCommit(s, new) BY <1>6 DEF Replace
  <2> QED BY <1>6, <2>3, <2>4, ConsoleType DEF Replace
<1>7. ASSUME NEW s \in Sessions, Reassign(s) PROVE TypeOK'
  <2>1. sess[s].to \in Users BY <1>7 DEF Reassign, TypeOK, SessionState, Idle
  <2>2. [sess[s].seen EXCEPT !.owner = sess[s].to] \in Ticket
    BY <1>7, <2>1, Seen DEF Reassign, Ticket
  <2> QED BY <1>7, <2>2, ConsoleType DEF Reassign
<1>8. ASSUME NEW s \in Sessions, Retype(s) PROVE TypeOK'
  <2>1. sess[s].to \in Types BY <1>8 DEF Retype, TypeOK, SessionState, Idle
  <2>2. [sess[s].seen EXCEPT !.type = sess[s].to] \in Ticket
    BY <1>8, <2>1, Seen DEF Retype, Ticket
  <2> QED BY <1>8, <2>2, ConsoleType DEF Retype
<1>9. ASSUME NEW s \in Sessions, Abort(s) PROVE TypeOK'
  BY <1>9, FinishType DEF Abort, TypeOK
<1>10. ASSUME NEW a \in Types, NEW n \in Limits, UpsertPolicy(a, n) PROVE TypeOK'
  BY <1>10 DEF UpsertPolicy, TypeOK
<1> QED
  BY <1>1, <1>2, <1>3, <1>4, <1>5, <1>6, <1>7, <1>8, <1>9, <1>10 DEF ConsoleStep

\* A transfer that has a status other than none is complete.
LEMMA TransferRow ==
    ASSUME TypeOK, NEW x \in Transfers, Pending(x)
    PROVE  xf[x] \in [status : TransferStatus, on : Tickets, from : Users, to : Users]
BY DEF TypeOK, Pending

LEMMA TransferStepType == TypeOK /\ TransferStep => TypeOK'
<1> SUFFICES ASSUME TypeOK, TransferStep PROVE TypeOK' OBVIOUS
<1> DEFINE Row == [status : TransferStatus, on : Tickets, from : Users, to : Users]
<1>1. ASSUME NEW x \in Transfers, NEW t \in Tickets, NEW u \in Users, Initiate(x, t, u)
      PROVE TypeOK'
  <2>1. tk[t].owner \in Users BY DEF TypeOK, Ticket
  <2>2. [status |-> "pending", on |-> t, from |-> tk[t].owner, to |-> u] \in Row
    BY <2>1 DEF TransferStatus
  <2> QED BY <1>1, <2>2 DEF Initiate, TypeOK
<1>2. ASSUME NEW x \in Transfers, Accept(x) PROVE TypeOK'
  <2>1. xf[x] \in Row BY <1>2, TransferRow DEF Accept, Answerable
  <2>2. [xf[x] EXCEPT !.status = "accepted"] \in Row BY <2>1 DEF TransferStatus
  <2>3. [tk[xf[x].on] EXCEPT !.owner = xf[x].to] \in Ticket BY <2>1 DEF TypeOK, Ticket
  <2>4. tk' \in [Tickets -> Ticket] BY <1>2, <2>1, <2>3 DEF Accept, TypeOK
  <2>5. xf' \in [Transfers -> {[status |-> "none"]} \cup Row]
    BY <1>2, <2>2 DEF Accept, TypeOK
  <2> QED BY <1>2, <2>4, <2>5 DEF Accept, TypeOK
<1>3. ASSUME NEW x \in Transfers, Reject(x) PROVE TypeOK'
  <2>1. xf[x] \in Row BY <1>3, TransferRow DEF Reject, Answerable
  <2>2. [xf[x] EXCEPT !.status = "rejected"] \in Row BY <2>1 DEF TransferStatus
  <2> QED BY <1>3, <2>2 DEF Reject, TypeOK
<1>4. ASSUME NEW x \in Transfers, CancelTransfer(x) PROVE TypeOK'
  <2>1. xf[x] \in Row BY <1>4, TransferRow DEF CancelTransfer
  <2>2. [xf[x] EXCEPT !.status = "cancelled"] \in Row BY <2>1 DEF TransferStatus
  <2> QED BY <1>4, <2>2 DEF CancelTransfer, TypeOK
<1> QED BY <1>1, <1>2, <1>3, <1>4 DEF TransferStep

LEMMA RegistrationStepType == TypeOK /\ RegistrationStep => TypeOK'
<1> SUFFICES ASSUME TypeOK, RegistrationStep PROVE TypeOK' OBVIOUS
<1>1. ASSUME NEW t \in Tickets, SetValid(t) PROVE TypeOK'
  BY <1>1 DEF SetValid, TypeOK
<1>2. ASSUME NEW t \in Tickets, EndRegistration(t) PROVE TypeOK'
  <2>1. [tk[t] EXCEPT !.status = "cancelled"] \in Ticket
    BY DEF TypeOK, Ticket, TicketStatus, Ended
  <2> QED BY <1>2, <2>1 DEF EndRegistration, TypeOK
<1> QED BY <1>1, <1>2 DEF RegistrationStep

LEMMA StepType == TypeOK /\ [Next]_vars => TypeOK'
<1>1. TypeOK /\ UNCHANGED vars => TypeOK' BY DEF TypeOK, vars
<1> QED
  BY <1>1, GateStepType, ConsoleStepType, TransferStepType, RegistrationStepType DEF Next

\* Every reachable state is well typed.
THEOREM TypeCorrect == Spec => []TypeOK
BY InitType, StepType, PTL DEF Spec

(***************************************************************************)
(* The entries of a ticket.  A copy that a request holds is never ahead of *)
(* the row: entries and replacements only grow.  A used copy has entries,  *)
(* and an unused one, of a ticket that was not replaced, has none.         *)
(***************************************************************************)

Sound(c) ==
    /\ c.status \in Used => c.count > 0
    /\ c.status \in Unused /\ c.code = 0 => c.count = 0

Behind(c, row) == c.count <= row.count /\ c.code <= row.code

CopiesBehind ==
    \A s \in Sessions :
        sess[s].op # "idle" => Sound(sess[s].seen) /\ Behind(sess[s].seen, tk[sess[s].on])

RowsSound == \A t \in Tickets : Sound(tk[t])

EntryInv ==
    /\ TypeOK
    /\ EntriesNumbered
    /\ EntryLimit
    /\ CopiesBehind
    /\ RowsSound

LEMMA InitInv == Init => EntryInv
<1> SUFFICES ASSUME Init PROVE EntryInv OBVIOUS
<1>1. TypeOK BY InitType
<1>2. EntriesNumbered BY DEF Init, EntriesNumbered, EntriesOf
<1>3. EntryLimit BY DEF Init, EntryLimit
<1>4. CopiesBehind BY DEF Init, CopiesBehind, Idle
<1>5. RowsSound BY DEF Init, RowsSound, Sound, Used
<1> QED BY <1>1, <1>2, <1>3, <1>4, <1>5 DEF EntryInv

\* A step that adds no entry, keeps the copies of the requests or replaces one
\* by a sound copy, and writes only sound rows that are not behind the old
\* ones, preserves the invariant.
Quiet ==
    /\ rows' = rows
    /\ \A t \in Tickets : /\ tk'[t].count = tk[t].count
                          /\ tk[t].code <= tk'[t].code
                          /\ Sound(tk'[t])
    /\ \A s \in Sessions :
          sess'[s].op # "idle" =>
              \/ sess'[s] = sess[s]
              \/ sess'[s].on \in Tickets /\ sess'[s].seen = tk[sess'[s].on]

LEMMA QuietStep ==
    ASSUME EntryInv, TypeOK', Quiet
    PROVE  EntryInv'
<1>1. \A t \in Tickets : tk[t] \in Ticket /\ tk'[t] \in Ticket BY DEF EntryInv, TypeOK
<1>2. EntriesNumbered'
  BY DEF EntryInv, EntriesNumbered, EntriesOf, Quiet
<1>3. EntryLimit'
  <2>1. ASSUME NEW row \in rows, tk'[row.on].code = 0 PROVE \E m \in Limits : row.n <= m
    <3>1. row.on \in Tickets BY DEF EntryInv, TypeOK
    <3>2. tk[row.on].code = 0 BY <1>1, <2>1, <3>1 DEF Quiet, Ticket
    <3> QED BY <3>2 DEF EntryInv, EntryLimit
  <2> QED BY <2>1 DEF EntryLimit, Quiet
<1>4. RowsSound' BY DEF RowsSound, Quiet
<1>5. ASSUME NEW s \in Sessions, sess'[s].op # "idle"
      PROVE  Sound(sess'[s].seen) /\ Behind(sess'[s].seen, tk'[sess'[s].on])
  <2>1. CASE sess'[s] = sess[s]
    <3>1. sess[s].on \in Tickets /\ sess[s].seen \in Ticket
      BY <1>5, <2>1, Seen DEF EntryInv
    <3>2. Sound(sess[s].seen) /\ Behind(sess[s].seen, tk[sess[s].on])
      BY <1>5, <2>1 DEF EntryInv, CopiesBehind
    <3> QED BY <1>1, <2>1, <3>1, <3>2 DEF Behind, Quiet, Ticket
  <2>2. CASE sess'[s].on \in Tickets /\ sess'[s].seen = tk[sess'[s].on]
    BY <1>1, <2>2 DEF EntryInv, RowsSound, Behind, Quiet, Ticket
  <2> QED BY <1>5, <2>1, <2>2 DEF Quiet
<1>6. CopiesBehind' BY <1>5 DEF CopiesBehind
<1> QED BY <1>2, <1>3, <1>4, <1>6 DEF EntryInv

\* An admission that the unique constraint lets through is the next entry.
LEMMA NextEntry ==
    ASSUME EntryInv, NEW t \in Tickets, NEW seen \in Ticket, NEW k,
           Behind(seen, tk[t]), Admit(t, seen, k)
    PROVE  seen.count = tk[t].count
<1>1. tk[t].count \in Nat /\ seen.count \in Nat BY DEF EntryInv, TypeOK, Ticket
<1>2. {row.n : row \in EntriesOf(t)} = 1 .. tk[t].count BY DEF EntryInv, EntriesNumbered
<1>3. seen.count + 1 \notin {row.n : row \in EntriesOf(t)}
  BY DEF Admit, EntryTaken, EntriesOf
<1>4. seen.count + 1 \notin 1 .. tk[t].count BY <1>2, <1>3
<1> QED BY <1>1, <1>4 DEF Behind

\* What an admission does to the row, the entries and the invariant's parts
\* about them.
LEMMA AdmitStep ==
    ASSUME EntryInv, NEW t \in Tickets, NEW seen \in Ticket, NEW k \in Keys \cup {NoKey},
           Sound(seen), Behind(seen, tk[t]), Admit(t, seen, k)
    PROVE  /\ EntriesNumbered' /\ EntryLimit' /\ RowsSound'
           /\ \A u \in Tickets : Behind(tk[u], tk'[u])
           /\ Sound(Admitted(seen)) /\ Behind(Admitted(seen), tk'[t])
<1> DEFINE n == seen.count + 1
           new == [on |-> t, n |-> n, key |-> k]
<1>1. seen.count = tk[t].count BY NextEntry
<1>2. \A u \in Tickets : tk[u] \in Ticket BY DEF EntryInv, TypeOK
<1>3. n \in Nat /\ n > 0 BY DEF Ticket
<1>4. Admitted(seen) \in Ticket BY AdmittedType
<1>5. /\ Admitted(seen).count = n /\ Admitted(seen).code = seen.code
      /\ Admitted(seen).status \in Used
  BY DEF Admitted, Ticket, Used
<1>6. tk' = [tk EXCEPT ![t] = Written(seen, Admitted(seen), tk[t])] BY DEF Admit, Write
<1>7. \A u \in Tickets \ {t} : tk'[u] = tk[u] BY <1>6 DEF EntryInv, TypeOK
<1>8. tk'[t] = Written(seen, Admitted(seen), tk[t]) BY <1>6 DEF EntryInv, TypeOK
<1>9. tk'[t].count = n /\ tk'[t].code = tk[t].code
  BY <1>3, <1>5, <1>8 DEF Written, Flush, Ticket
<1>10. rows' = rows \cup {new} BY DEF Admit
<1>11. \A u \in Tickets : Behind(tk[u], tk'[u])
  BY <1>1, <1>2, <1>3, <1>7, <1>9 DEF Behind, Ticket
<1>12. Sound(tk'[t])
  <2>1. tk'[t].status \in Used \/ (tk'[t].status = tk[t].status /\ seen.status \in Used)
    BY <1>5, <1>8 DEF Written, Flush
  <2>2. Sound(tk[t]) BY DEF EntryInv, RowsSound
  <2>3. CASE tk'[t].status \in Used
    BY <1>3, <1>9, <2>3 DEF Sound, Used, Unused
  <2>4. CASE tk'[t].status = tk[t].status /\ seen.status \in Used
    <3>1. tk[t].count > 0 BY <1>1, <2>4 DEF Sound
    <3>2. tk[t].count \in Nat BY <1>2 DEF Ticket
    <3> QED BY <1>3, <1>9, <2>2, <2>4, <3>1, <3>2 DEF Sound
  <2> QED BY <2>1, <2>3, <2>4
<1>13. RowsSound' BY <1>7, <1>12 DEF RowsSound, EntryInv
<1>14. Sound(Admitted(seen)) /\ Behind(Admitted(seen), tk'[t])
  BY <1>2, <1>3, <1>5, <1>9 DEF Sound, Behind, Used, Unused, Ticket
<1>15. EntryLimit'
  <2>1. ASSUME NEW row \in rows', tk'[row.on].code = 0 PROVE \E m \in Limits : row.n <= m
    <3>1. CASE row \in rows
      <4>1. row.on \in Tickets BY <3>1 DEF EntryInv, TypeOK
      <4>2. tk[row.on].code = 0 BY <1>7, <1>9, <2>1, <4>1
      <4> QED BY <3>1, <4>2 DEF EntryInv, EntryLimit
    <3>2. CASE row = new
      <4>0. row.n = n BY <3>2
      <4>1. seen.code = 0
        BY <1>2, <1>9, <2>1, <3>2 DEF Behind, Ticket
      <4>2. /\ limit[General] \in Limits /\ limit[seen.type] \in Limits
        BY DEF EntryInv, TypeOK, Ticket
      <4>a. limit[General] \in Nat \ {0} BY <4>2, TicketConstants
      <4>3. CASE seen.status \in Unused
        <5>1. n = 1 BY <4>1, <4>3 DEF Sound
        <5>2. \A m \in Nat \ {0} : 1 <= m OBVIOUS
        <5>3. n <= limit[General] BY <4>a, <5>1, <5>2
        <5> QED BY <4>0, <4>2, <5>3
      <4>4. CASE seen.status \in Used /\ seen.count < limit[seen.type]
        <5>1. seen.count \in Nat BY DEF Ticket
        <5>2. limit[seen.type] \in Nat BY <4>2, TicketConstants
        <5>3. n <= limit[seen.type] BY <4>4, <5>1, <5>2
        <5> QED BY <4>0, <4>2, <5>3
      <4> QED BY <4>3, <4>4 DEF Admit, Admissible
    <3> QED BY <1>10, <2>1, <3>1, <3>2
  <2> QED BY <2>1 DEF EntryLimit
<1>16. EntriesNumbered'
  <2>1. ASSUME NEW u \in Tickets, u # t
        PROVE  /\ {row.n : row \in EntriesOf(u)'} = 1 .. tk'[u].count
               /\ \A p, q \in EntriesOf(u)' : p.n = q.n => p = q
    <3>1. EntriesOf(u)' = EntriesOf(u) BY <1>10, <2>1 DEF EntriesOf
    <3> QED BY <1>7, <2>1, <3>1 DEF EntryInv, EntriesNumbered
  <2>2. /\ {row.n : row \in EntriesOf(t)'} = 1 .. tk'[t].count
        /\ \A p, q \in EntriesOf(t)' : p.n = q.n => p = q
    <3>1. EntriesOf(t)' = EntriesOf(t) \cup {new} BY <1>10 DEF EntriesOf
    <3>2. {row.n : row \in EntriesOf(t)'} = {row.n : row \in EntriesOf(t)} \cup {n}
      <4>1. new.n = n OBVIOUS
      <4> HIDE DEF new, n
      <4> QED BY <3>1, <4>1
    <3>3. {row.n : row \in EntriesOf(t)} = 1 .. tk[t].count
      BY DEF EntryInv, EntriesNumbered
    <3>4. tk[t].count \in Nat BY <1>2 DEF Ticket
    <3>5. {row.n : row \in EntriesOf(t)'} = 1 .. n
      <4>1. n = tk[t].count + 1 BY <1>1, <1>9, <3>4 DEF Behind
      <4>2. 1 .. n = (1 .. tk[t].count) \cup {n} BY <3>4, <4>1
      <4> QED BY <3>2, <3>3, <4>2
    <3>6. \A p \in EntriesOf(t) : p.n # n BY DEF Admit, EntryTaken, EntriesOf
    <3>7. \A p, q \in EntriesOf(t) : p.n = q.n => p = q BY DEF EntryInv, EntriesNumbered
    <3> QED BY <1>9, <3>1, <3>5, <3>6, <3>7
  <2> QED BY <2>1, <2>2 DEF EntriesNumbered
<1> QED BY <1>11, <1>13, <1>14, <1>15, <1>16

\* Copies that are not touched stay behind rows that only grow.
LEMMA StillBehind ==
    ASSUME EntryInv, TypeOK', NEW s \in Sessions, sess[s].op # "idle",
           \A u \in Tickets : Behind(tk[u], tk'[u])
    PROVE  Sound(sess[s].seen) /\ Behind(sess[s].seen, tk'[sess[s].on])
<1>1. sess[s].on \in Tickets /\ sess[s].seen \in Ticket BY Seen DEF EntryInv
<1>2. Sound(sess[s].seen) /\ Behind(sess[s].seen, tk[sess[s].on])
  BY DEF EntryInv, CopiesBehind
<1>3. tk[sess[s].on] \in Ticket /\ tk'[sess[s].on] \in Ticket BY <1>1 DEF EntryInv, TypeOK
<1> QED BY <1>1, <1>2, <1>3 DEF Behind, Ticket

LEMMA GateStepInv == EntryInv /\ GateStep => EntryInv'
<1> SUFFICES ASSUME EntryInv, GateStep PROVE EntryInv' OBVIOUS
<1>0. TypeOK' BY GateStepType DEF EntryInv
<1>1. ASSUME NEW t \in Tickets, NEW k \in Keys \cup {NoKey}, CheckIn(t, k) PROVE EntryInv'
  <2>1. tk[t] \in Ticket /\ Sound(tk[t]) /\ Behind(tk[t], tk[t])
    BY DEF EntryInv, TypeOK, RowsSound, Behind, Ticket
  <2>2. Admit(t, tk[t], k) BY <1>1 DEF CheckIn
  <2>3. /\ EntriesNumbered' /\ EntryLimit' /\ RowsSound'
        /\ \A u \in Tickets : Behind(tk[u], tk'[u])
    BY <2>1, <2>2, AdmitStep
  <2>4. sess' = sess BY <1>1 DEF CheckIn
  <2>5. CopiesBehind' BY <1>0, <2>3, <2>4, StillBehind DEF CopiesBehind
  <2> QED BY <1>0, <2>3, <2>5 DEF EntryInv
<1>2. ASSUME NEW s \in Sessions, NEW t \in Tickets, OfflineResolve(s, t) PROVE EntryInv'
  <2>1. Quiet
    BY <1>2 DEF OfflineResolve, Quiet, EntryInv, TypeOK, RowsSound, Ticket
  <2> QED BY <1>0, <2>1, QuietStep
<1>3. ASSUME NEW s \in Sessions, NEW k \in Keys, OfflineCommit(s, k) PROVE EntryInv'
  <2> DEFINE t == sess[s].on
             seen == sess[s].seen
  <2>1. sess[s].op = "offline" BY <1>3 DEF OfflineCommit
  <2>2. t \in Tickets /\ seen \in Ticket BY <2>1, Seen DEF EntryInv
  <2>3. Sound(seen) /\ Behind(seen, tk[t]) BY <2>1 DEF EntryInv, CopiesBehind
  <2>4. Admit(t, seen, k) BY <1>3 DEF OfflineCommit
  <2>5. /\ EntriesNumbered' /\ EntryLimit' /\ RowsSound'
        /\ \A u \in Tickets : Behind(tk[u], tk'[u])
        /\ Sound(Admitted(seen)) /\ Behind(Admitted(seen), tk'[t])
    BY <2>2, <2>3, <2>4, AdmitStep
  <2>6. sess' = [sess EXCEPT ![s] = [sess[s] EXCEPT !.seen = Admitted(seen)]]
    BY <1>3 DEF OfflineCommit
  <2>7. sess[s] \in [op : {"offline"}, on : Tickets, seen : Ticket]
    BY <2>1 DEF EntryInv, TypeOK, SessionState, Idle
  <2>8. sess'[s].seen = Admitted(seen) /\ sess'[s].on = t
    BY <2>6, <2>7 DEF EntryInv, TypeOK
  <2>9. \A p \in Sessions \ {s} : sess'[p] = sess[p] BY <2>6 DEF EntryInv, TypeOK
  <2>10. CopiesBehind'
    <3>1. ASSUME NEW p \in Sessions, sess'[p].op # "idle"
          PROVE  Sound(sess'[p].seen) /\ Behind(sess'[p].seen, tk'[sess'[p].on])
      <4>1. CASE p = s BY <2>5, <2>8, <4>1
      <4>2. CASE p # s
        <5>1. sess'[p] = sess[p] BY <2>9, <4>2
        <5>2. Sound(sess[p].seen) /\ Behind(sess[p].seen, tk'[sess[p].on])
          BY <1>0, <2>5, <3>1, <5>1, StillBehind
        <5> QED BY <5>1, <5>2
      <4> QED BY <4>1, <4>2
    <3> QED BY <3>1 DEF CopiesBehind
  <2> QED BY <1>0, <2>5, <2>10 DEF EntryInv
<1> QED BY <1>1, <1>2, <1>3 DEF GateStep

\* A console request writes a sound row and no entry.
LEMMA ConsoleQuiet ==
    ASSUME EntryInv, NEW s \in Sessions, sess[s].op # "idle", NEW new \in Ticket,
           ConsoleCommit(s, new), new.count = sess[s].seen.count,
           tk[sess[s].on].code <= Flush(sess[s].seen.code, new.code, tk[sess[s].on].code),
           \/ new.status = sess[s].seen.status
           \/ new.status \in Ended
           \/ new.status = "active" /\ new.code > tk[sess[s].on].code
    PROVE  Quiet
<1> DEFINE t == sess[s].on
           seen == sess[s].seen
           row == Written(seen, new, tk[t])
<1>1. t \in Tickets /\ seen \in Ticket BY Seen DEF EntryInv
<1>2. \A u \in Tickets : tk[u] \in Ticket /\ Sound(tk[u]) BY DEF EntryInv, TypeOK, RowsSound
<1>3. Behind(seen, tk[t]) BY DEF EntryInv, CopiesBehind
<1>4. tk' = [tk EXCEPT ![t] = row] /\ rows' = rows /\ sess' = [sess EXCEPT ![s] = Idle]
  BY DEF ConsoleCommit, Write, Finish
<1>5. tk'[t] = row /\ \A u \in Tickets \ {t} : tk'[u] = tk[u]
  BY <1>1, <1>4 DEF EntryInv, TypeOK
<1>6. row.count = tk[t].count /\ tk[t].code <= row.code BY DEF Written, Flush
<1>7. Sound(row)
  <2>1. row \in Ticket BY <1>1, <1>2, WrittenType
  <2>2. CASE row.status = tk[t].status
    BY <1>1, <1>2, <1>6, <2>1, <2>2 DEF Sound, Ticket
  <2>3. CASE row.status = new.status /\ new.status \in Ended
    BY <2>3 DEF Sound, Ended, Used, Unused
  <2>4. CASE row.status = new.status /\ new.status = "active" /\ new.code > tk[t].code
    <3>1. row.code # 0
      BY <1>1, <1>2, <1>3, <2>4 DEF Written, Flush, Behind, Ticket
    <3> QED BY <2>4, <3>1 DEF Sound, Used
  <2> QED BY <2>2, <2>3, <2>4 DEF Written, Flush
<1>8. \A p \in Sessions : sess'[p] = IF p = s THEN Idle ELSE sess[p]
  BY <1>4 DEF EntryInv, TypeOK
<1>9. \A u \in Tickets : /\ tk'[u].count = tk[u].count /\ tk[u].code <= tk'[u].code
                         /\ Sound(tk'[u])
  BY <1>1, <1>2, <1>5, <1>6, <1>7 DEF Ticket
<1>10. Idle.op = "idle" BY DEF Idle
<1> QED BY <1>4, <1>8, <1>9, <1>10 DEF Quiet

LEMMA LoadQuiet ==
    ASSUME EntryInv, NEW s \in Sessions, NEW t \in Tickets, NEW x,
           x.on = t, x.seen = tk[t], ConsoleLoad(s, t, x)
    PROVE  Quiet
<1>1. \A u \in Tickets : tk[u] \in Ticket /\ Sound(tk[u]) BY DEF EntryInv, TypeOK, RowsSound
<1>2. \A p \in Sessions : sess'[p] = IF p = s THEN x ELSE sess[p]
  BY DEF ConsoleLoad, EntryInv, TypeOK
<1> QED BY <1>1, <1>2 DEF ConsoleLoad, Quiet, Ticket

LEMMA ConsoleStepInv == EntryInv /\ ConsoleStep => EntryInv'
<1> SUFFICES ASSUME EntryInv, ConsoleStep PROVE Quiet
  BY ConsoleStepType, QuietStep DEF EntryInv
<1>0. \A u \in Tickets : tk[u] \in Ticket /\ Sound(tk[u]) BY DEF EntryInv, TypeOK, RowsSound
<1>1. ASSUME NEW s \in Sessions, NEW t \in Tickets, RevokeLoad(s, t) \/ ReplaceLoad(s, t)
      PROVE Quiet
  BY <1>1, LoadQuiet DEF RevokeLoad, ReplaceLoad
<1>2. ASSUME NEW s \in Sessions, NEW t \in Tickets, NEW u \in Users, ReassignLoad(s, t, u)
      PROVE Quiet
  BY <1>2, LoadQuiet DEF ReassignLoad
<1>3. ASSUME NEW s \in Sessions, NEW t \in Tickets, NEW a \in Types, RetypeLoad(s, t, a)
      PROVE Quiet
  BY <1>3, LoadQuiet DEF RetypeLoad
<1>4. ASSUME NEW s \in Sessions, Revoke(s) PROVE Quiet
  <2> DEFINE new == [sess[s].seen EXCEPT !.status = "revoked"]
  <2>1. sess[s].op # "idle" /\ ConsoleCommit(s, new) BY <1>4 DEF Revoke
  <2>2. sess[s].on \in Tickets /\ sess[s].seen \in Ticket BY <2>1, Seen DEF EntryInv
  <2>3. /\ new \in Ticket /\ new.count = sess[s].seen.count /\ new.code = sess[s].seen.code
        /\ new.status \in Ended
    BY <2>2 DEF Ticket, TicketStatus, Ended
  <2>4. tk[sess[s].on].code <= Flush(sess[s].seen.code, new.code, tk[sess[s].on].code)
    BY <1>0, <2>2, <2>3 DEF Flush, Ticket
  <2> QED BY <2>1, <2>3, <2>4, ConsoleQuiet
<1>5. ASSUME NEW s \in Sessions, Replace(s) PROVE Quiet
  <2> DEFINE fresh == tk[sess[s].on].code + 1
             new == [sess[s].seen EXCEPT !.code = fresh, !.status = "active"]
  <2>1. sess[s].op # "idle" /\ ConsoleCommit(s, new) BY <1>5 DEF Replace
  <2>2. sess[s].on \in Tickets /\ sess[s].seen \in Ticket BY <2>1, Seen DEF EntryInv
  <2>3. fresh \in Nat /\ fresh > tk[sess[s].on].code BY <1>0, <2>2 DEF Ticket
  <2>4. /\ new \in Ticket /\ new.count = sess[s].seen.count /\ new.code = fresh
        /\ new.status = "active"
    BY <2>2, <2>3 DEF Ticket, TicketStatus, Unused
  <2>5. tk[sess[s].on].code <= Flush(sess[s].seen.code, new.code, tk[sess[s].on].code)
    BY <1>0, <2>2, <2>3, <2>4 DEF Flush, Ticket
  <2> QED BY <2>1, <2>3, <2>4, <2>5, ConsoleQuiet
<1>6. ASSUME NEW s \in Sessions, Reassign(s) PROVE Quiet
  <2> DEFINE new == [sess[s].seen EXCEPT !.owner = sess[s].to]
  <2>1. sess[s].op # "idle" /\ ConsoleCommit(s, new) BY <1>6 DEF Reassign
  <2>2. sess[s].on \in Tickets /\ sess[s].seen \in Ticket BY <2>1, Seen DEF EntryInv
  <2>3. sess[s].to \in Users BY <1>6 DEF Reassign, EntryInv, TypeOK, SessionState, Idle
  <2>4. /\ new \in Ticket /\ new.count = sess[s].seen.count /\ new.code = sess[s].seen.code
        /\ new.status = sess[s].seen.status
    BY <2>2, <2>3 DEF Ticket
  <2>5. tk[sess[s].on].code <= Flush(sess[s].seen.code, new.code, tk[sess[s].on].code)
    BY <1>0, <2>2, <2>4 DEF Flush, Ticket
  <2> QED BY <2>1, <2>4, <2>5, ConsoleQuiet
<1>7. ASSUME NEW s \in Sessions, Retype(s) PROVE Quiet
  <2> DEFINE new == [sess[s].seen EXCEPT !.type = sess[s].to]
  <2>1. sess[s].op # "idle" /\ ConsoleCommit(s, new) BY <1>7 DEF Retype
  <2>2. sess[s].on \in Tickets /\ sess[s].seen \in Ticket BY <2>1, Seen DEF EntryInv
  <2>3. sess[s].to \in Types BY <1>7 DEF Retype, EntryInv, TypeOK, SessionState, Idle
  <2>4. /\ new \in Ticket /\ new.count = sess[s].seen.count /\ new.code = sess[s].seen.code
        /\ new.status = sess[s].seen.status
    BY <2>2, <2>3 DEF Ticket
  <2>5. tk[sess[s].on].code <= Flush(sess[s].seen.code, new.code, tk[sess[s].on].code)
    BY <1>0, <2>2, <2>4 DEF Flush, Ticket
  <2> QED BY <2>1, <2>4, <2>5, ConsoleQuiet
<1>8. ASSUME NEW s \in Sessions, Abort(s) PROVE Quiet
  <2>1. \A p \in Sessions : sess'[p] = IF p = s THEN Idle ELSE sess[p]
    BY <1>8 DEF Abort, Finish, EntryInv, TypeOK
  <2>2. Idle.op = "idle" BY DEF Idle
  <2> QED BY <1>0, <1>8, <2>1, <2>2 DEF Abort, Quiet, Ticket
<1>9. ASSUME NEW a \in Types, NEW n \in Limits, UpsertPolicy(a, n) PROVE Quiet
  BY <1>0, <1>9 DEF UpsertPolicy, Quiet, Ticket
<1> QED BY <1>1, <1>2, <1>3, <1>4, <1>5, <1>6, <1>7, <1>8, <1>9 DEF ConsoleStep

LEMMA TransferStepInv == EntryInv /\ TransferStep => EntryInv'
<1> SUFFICES ASSUME EntryInv, TransferStep PROVE Quiet
  BY TransferStepType, QuietStep DEF EntryInv
<1>0. \A u \in Tickets : tk[u] \in Ticket /\ Sound(tk[u]) BY DEF EntryInv, TypeOK, RowsSound
<1>1. ASSUME NEW x \in Transfers, Accept(x) PROVE Quiet
  <2>1. xf[x].on \in Tickets
    BY <1>1, TransferRow DEF Accept, Answerable, EntryInv
  <2>2. tk' = [tk EXCEPT ![xf[x].on] = [tk[xf[x].on] EXCEPT !.owner = xf[x].to]]
    BY <1>1 DEF Accept
  <2>3. \A u \in Tickets : /\ tk'[u].count = tk[u].count /\ tk'[u].code = tk[u].code
                           /\ tk'[u].status = tk[u].status
    BY <1>0, <2>1, <2>2 DEF EntryInv, TypeOK, Ticket
  <2> QED BY <1>0, <1>1, <2>3 DEF Accept, Quiet, Sound, Ticket
<1>2. ASSUME NEW x \in Transfers, Reject(x) \/ CancelTransfer(x) PROVE Quiet
  BY <1>0, <1>2 DEF Reject, CancelTransfer, Quiet, Ticket
<1>3. ASSUME NEW x \in Transfers, NEW t \in Tickets, NEW u \in Users, Initiate(x, t, u)
      PROVE Quiet
  BY <1>0, <1>3 DEF Initiate, Quiet, Ticket
<1> QED BY <1>1, <1>2, <1>3 DEF TransferStep

LEMMA RegistrationStepInv == EntryInv /\ RegistrationStep => EntryInv'
<1> SUFFICES ASSUME EntryInv, RegistrationStep PROVE Quiet
  BY RegistrationStepType, QuietStep DEF EntryInv
<1>0. \A u \in Tickets : tk[u] \in Ticket /\ Sound(tk[u]) BY DEF EntryInv, TypeOK, RowsSound
<1>1. ASSUME NEW t \in Tickets, SetValid(t) PROVE Quiet
  BY <1>0, <1>1 DEF SetValid, Quiet, Ticket
<1>2. ASSUME NEW t \in Tickets, EndRegistration(t) PROVE Quiet
  <2>1. \A u \in Tickets : /\ tk'[u].count = tk[u].count /\ tk'[u].code = tk[u].code
                           /\ tk'[u].status = IF u = t THEN "cancelled" ELSE tk[u].status
    BY <1>0, <1>2 DEF EndRegistration, EntryInv, TypeOK, Ticket
  <2> QED BY <1>0, <1>2, <2>1 DEF EndRegistration, Quiet, Sound, Ticket, Used, Unused
<1> QED BY <1>1, <1>2 DEF RegistrationStep

LEMMA StepInv == EntryInv /\ [Next]_vars => EntryInv'
<1>1. EntryInv /\ UNCHANGED vars => EntryInv'
  BY DEF EntryInv, TypeOK, EntriesNumbered, EntriesOf, EntryLimit, CopiesBehind, RowsSound,
         Behind, vars
<1> QED
  BY <1>1, GateStepInv, ConsoleStepInv, TransferStepInv, RegistrationStepInv DEF Next

LEMMA EntryInvariant == Spec => []EntryInv
BY InitInv, StepInv, PTL DEF Spec

\* The entries of every ticket are numbered 1 to entry_count, each once, in
\* spite of the copies that offline batches and console requests work on: what
\* the unique constraint and the row lock of check_in are for.
THEOREM EntriesAreNumbered == Spec => []EntriesNumbered
<1>1. EntryInv => EntriesNumbered BY DEF EntryInv
<1> QED BY <1>1, EntryInvariant, PTL

\* A ticket that was never replaced admits at most as often as some policy
\* allowed, whoever edits policies and access types between the scans.
THEOREM EntriesAreLimited == Spec => []EntryLimit
<1>1. EntryInv => EntryLimit BY DEF EntryInv
<1> QED BY <1>1, EntryInvariant, PTL

(***************************************************************************)
(* Device keys, and transfers.                                             *)
(***************************************************************************)

\* An admission uses a key that no entry has, whichever ticket it was for.
LEMMA AdmitCountsOnce ==
    ASSUME ScanCountedOnce, NEW t, NEW seen, NEW k, Admit(t, seen, k)
    PROVE  ScanCountedOnce'
<1> DEFINE new == [on |-> t, n |-> seen.count + 1, key |-> k]
<1>1. rows' = rows \cup {new} BY DEF Admit
<1>2. k # NoKey => \A row \in rows : row.key # k BY DEF Admit, KeyUsed
<1>3. new.key = k OBVIOUS
<1> HIDE DEF new
<1> QED BY <1>1, <1>2, <1>3 DEF ScanCountedOnce

\* Only the gate adds entries.
LEMMA OthersAddNoEntry == ConsoleStep \/ TransferStep \/ RegistrationStep => rows' = rows
BY DEF ConsoleStep, RevokeLoad, ReplaceLoad, ReassignLoad, RetypeLoad, ConsoleLoad, Revoke,
       Replace, Reassign, Retype, ConsoleCommit, Abort, UpsertPolicy, TransferStep, Initiate,
       Accept, Reject, CancelTransfer, RegistrationStep, SetValid, EndRegistration

\* A scan that a device sends again, online or in a batch, for the same or for
\* another ticket, is not counted again: what offline_batch_id is for.
THEOREM ScansAreCountedOnce == Spec => []ScanCountedOnce
<1>1. Init => ScanCountedOnce BY DEF Init, ScanCountedOnce
<1>2. ASSUME ScanCountedOnce, [Next]_vars PROVE ScanCountedOnce'
  <2>1. CASE GateStep
    <3>1. ASSUME NEW t \in Tickets, NEW k \in Keys \cup {NoKey}, CheckIn(t, k)
          PROVE  ScanCountedOnce'
      BY <1>2, <3>1, AdmitCountsOnce DEF CheckIn
    <3>2. ASSUME NEW s \in Sessions, NEW t \in Tickets, OfflineResolve(s, t)
          PROVE  ScanCountedOnce'
      BY <1>2, <3>2 DEF OfflineResolve, ScanCountedOnce
    <3>3. ASSUME NEW s \in Sessions, NEW k \in Keys, OfflineCommit(s, k)
          PROVE  ScanCountedOnce'
      BY <1>2, <3>3, AdmitCountsOnce DEF OfflineCommit
    <3> QED BY <2>1, <3>1, <3>2, <3>3 DEF GateStep
  <2>2. CASE ConsoleStep \/ TransferStep \/ RegistrationStep
    BY <1>2, <2>2, OthersAddNoEntry DEF ScanCountedOnce
  <2>3. CASE UNCHANGED vars BY <1>2, <2>3 DEF vars, ScanCountedOnce
  <2> QED BY <1>2, <2>1, <2>2, <2>3 DEF Next
<1> QED BY <1>1, <1>2, PTL DEF Spec

\* A ticket whose count is zero has no entries.
LEMMA NobodyEntered ==
    ASSUME EntryInv, NEW t \in Tickets, tk[t].count = 0
    PROVE  EntriesOf(t) = {}
<1>1. {row.n : row \in EntriesOf(t)} = 1 .. 0 BY DEF EntryInv, EntriesNumbered
<1>2. ASSUME NEW row \in EntriesOf(t) PROVE FALSE
  <2>1. row.n \in 1 .. 0 BY <1>1
  <2> QED BY <2>1
<1> QED BY <1>2

\* A transfer is accepted while its offer can still be answered.
LEMMA OwnersStep == ASSUME EntryInv, Next PROVE TransferIsOwners
<1> SUFFICES ASSUME NEW x \in Transfers, Pending(x), xf'[x].status = "accepted"
             PROVE  /\ tk[xf[x].on].owner = xf[x].from
                    /\ EntriesOf(xf[x].on) = {}
  BY DEF TransferIsOwners
<1>1. xf[x].status = "pending" /\ xf \in [Transfers -> {[status |-> "none"]} \cup
          [status : TransferStatus, on : Tickets, from : Users, to : Users]]
  BY DEF Pending, EntryInv, TypeOK
<1>2. Accept(x)
  <2>1. CASE TransferStep
    BY <1>1, <2>1 DEF TransferStep, Initiate, Accept, Reject, CancelTransfer, Pending
  <2>2. CASE GateStep
    BY <1>1, <2>2 DEF GateStep, CheckIn, OfflineResolve, OfflineCommit, Admit
  <2>3. CASE ConsoleStep
    BY <1>1, <2>3 DEF ConsoleStep, RevokeLoad, ReplaceLoad, ReassignLoad, RetypeLoad,
          ConsoleLoad, Revoke, Replace, Reassign, Retype, ConsoleCommit, Abort, UpsertPolicy
  <2>4. CASE RegistrationStep
    BY <1>1, <2>4 DEF RegistrationStep, SetValid, EndRegistration
  <2> QED BY <2>1, <2>2, <2>3, <2>4 DEF Next
<1>3. Answerable(x) BY <1>2 DEF Accept
<1>4. xf[x].on \in Tickets BY TransferRow DEF EntryInv
<1> QED BY <1>3, <1>4, NobodyEntered DEF Answerable, Transferable

\* A transfer takes the ticket from the one who offered it, and only while
\* nobody has entered with it, although revocation, reassignment, replacement
\* and scans do not look at pending transfers.
THEOREM TransfersAreOwners == Spec => [][TransferIsOwners]_vars
<1>1. EntryInv /\ Next => TransferIsOwners BY OwnersStep
<1> QED BY <1>1, EntryInvariant, PTL DEF Spec
============================================================================
