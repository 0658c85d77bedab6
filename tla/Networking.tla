----------------------------- MODULE Networking -----------------------------
(***************************************************************************)
(* The connection between two participants of an event: one row for the    *)
(* pair, whoever asked first.  A request is sent, answered, withdrawn or   *)
(* blocked, and the service decides each of these on a row that it has     *)
(* read without a lock; only block_participant and unblock_participant     *)
(* lock it.                                                                *)
(***************************************************************************)
EXTENDS StaleCopy, FiniteSets

CONSTANTS
    Users,    \* the two participants
    Managers, \* those of them who manage the event
    Sessions  \* requests that run concurrently

ConnectionStatus == {"pending", "accepted", "rejected", "cancelled", "blocked"}
None == [status |-> "none", by |-> "nobody"]
Row == {None} \cup [status : ConnectionStatus, by : Users]
Idle == [op |-> "idle"]
Asking == [op : {"send", "answer", "block"}, who : Users, copy : Row]

VARIABLES
    conn,     \* networking_connections, the row of the pair
    eligible, \* users with an active registration, of an allowed type
    visible,  \* users whose profile is visible
    wanted,   \* history: users who have asked for the connection or accepted it
    late,     \* history: a row was written from a copy that was out of date
    sess      \* what each request has read

vars == <<conn, eligible, visible, wanted, late, sess>>

TypeOK ==
    /\ conn \in Row
    /\ eligible \subseteq Users /\ visible \subseteq Users /\ wanted \subseteq Users
    /\ late \in BOOLEAN
    /\ sess \in [Sessions -> {Idle} \cup Asking]

Init ==
    /\ conn = None
    /\ eligible = Users
    /\ visible = {}
    /\ wanted = {}
    /\ late = FALSE
    /\ sess = [s \in Sessions |-> Idle]

Begin(s, op, u) ==
    /\ sess[s] = Idle
    /\ sess' = [sess EXCEPT ![s] = [op |-> op, who |-> u, copy |-> conn]]
    /\ UNCHANGED <<conn, eligible, visible, wanted, late>>

\* The row as request s writes it; an insert meets the unique constraint.
Save(s, new) ==
    /\ sess[s].copy = None => conn = None
    /\ conn' = IF conn = None THEN new ELSE Written(conn, sess[s].copy, new)
    /\ late' = (late \/ sess[s].copy # conn)
    /\ sess' = [sess EXCEPT ![s] = Idle]

\* No request holds the lock of the row.
RowFree == \A s \in Sessions : sess[s].op # "block"
----------------------------------------------------------------------------
(* Registrations and profiles.                                             *)

ChangeEligible(u) ==
    /\ eligible' = IF u \in eligible THEN eligible \ {u} ELSE eligible \cup {u}
    /\ UNCHANGED <<conn, visible, wanted, late, sess>>

SaveProfile(u) ==
    /\ u \in eligible
    /\ visible' = IF u \in visible THEN visible \ {u} ELSE visible \cup {u}
    /\ UNCHANGED <<conn, eligible, wanted, late, sess>>

\* public_profile.
CanSee(other) == other \in visible /\ other \in eligible /\ conn.status # "blocked"
----------------------------------------------------------------------------
(* The connection.                                                         *)

MayAsk(row) == row.status \notin {"pending", "accepted", "blocked"}

SendLoad(s, u) ==
    /\ Users \subseteq eligible
    /\ MayAsk(conn)
    /\ \A other \in Users \ {u} : CanSee(other)
    /\ Begin(s, "send", u)

SendCommit(s) ==
    LET u == sess[s].who IN
    /\ sess[s].op = "send"
    /\ RowFree
    /\ Save(s, [status |-> "pending", by |-> u])
    /\ wanted' = wanted \cup {u}
    /\ UNCHANGED <<eligible, visible>>

AnswerLoad(s, u) ==
    /\ u \in eligible
    /\ conn # None
    /\ Begin(s, "answer", u)

\* Mutant: whoever asked may accept.
AnyTargets(row, u) ==
    CASE row.status = "pending" -> {"accepted", "rejected", "cancelled", "blocked"}
      [] row.status = "accepted" -> {"blocked"}
      [] OTHER -> {}
Targets(row, u) ==
    CASE row.status = "pending" ->
             {"blocked"} \cup (IF row.by = u THEN {"cancelled"} ELSE {"accepted", "rejected"})
      [] row.status = "accepted" -> {"blocked"}
      [] OTHER -> {}

\* transition
AnswerCommit(s, target) ==
    LET u == sess[s].who IN
    /\ sess[s].op = "answer"
    /\ RowFree
    /\ target \in Targets(sess[s].copy, u)
    /\ Save(s, [sess[s].copy EXCEPT !.status = target])
    /\ wanted' = IF target = "accepted" THEN wanted \cup {u} ELSE wanted
    /\ UNCHANGED <<eligible, visible>>

\* block_participant: FOR UPDATE, by a manager.
BlockLoad(s, u) ==
    /\ u \in Managers
    /\ Users \ {u} \subseteq eligible
    /\ RowFree
    /\ Begin(s, "block", u)

BlockCommit(s) ==
    /\ sess[s].op = "block"
    /\ IF sess[s].copy = None
       THEN Save(s, [status |-> "blocked", by |-> sess[s].who])
       ELSE Save(s, [sess[s].copy EXCEPT !.status = "blocked"])
    /\ UNCHANGED <<eligible, visible, wanted>>

\* The row is deleted: a request that has read it can no longer update it.
Unblock(u) ==
    /\ u \in eligible
    /\ RowFree
    /\ conn.status = "blocked"
    /\ conn' = None
    /\ sess' = [s \in Sessions |->
                  IF sess[s] # Idle /\ sess[s].copy # None THEN Idle ELSE sess[s]]
    /\ UNCHANGED <<eligible, visible, wanted, late>>

\* A request that is refused or fails.
Abort(s) ==
    /\ sess[s] # Idle
    /\ sess' = [sess EXCEPT ![s] = Idle]
    /\ UNCHANGED <<conn, eligible, visible, wanted, late>>

Next ==
    \/ \E u \in Users : ChangeEligible(u) \/ SaveProfile(u) \/ Unblock(u)
    \/ \E s \in Sessions :
          \/ \E u \in Users : SendLoad(s, u) \/ AnswerLoad(s, u) \/ BlockLoad(s, u)
          \/ SendCommit(s) \/ BlockCommit(s) \/ Abort(s)
          \/ \E target \in ConnectionStatus : AnswerCommit(s, target)

Spec == Init /\ [][Next]_vars
----------------------------------------------------------------------------
(* Properties.                                                             *)

\* Two participants are connected only after each of them asked for the
\* connection or accepted it, whichever copies their requests worked on.
BothWanted == conn.status = "accepted" => wanted = Users

\* A blocked pair stays blocked until the block is lifted, which deletes the
\* row, unless somebody answers on a copy from before the block.
BlockHolds == conn.status = "blocked" /\ conn'.status \notin {"blocked", "none"} => late'
=============================================================================
