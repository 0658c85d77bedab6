------------------------------ MODULE UniqueRows ------------------------------
(***************************************************************************)
(* What a person or a thing may have once: the requests that look for a    *)
(* row, find none and create it.  The search takes no lock, so two of them *)
(* create the row twice unless a unique constraint stops the second one.   *)
(***************************************************************************)
EXTENDS Integers, FiniteSets

CONSTANTS
    Ids,     \* rows that may be created
    Keys,    \* what must be unique: a category of feedback, a child's name and birth date, ...
    Sessions \* requests that run concurrently

Kinds == {"feedback", "child", "highlight", "main_category"}
\* Kinds whose table has a unique constraint on the key.
Constrained == {"feedback", "highlight", "main_category"}
\* Kinds whose key an update may change; child profiles and highlights have no update.
Movable == {"feedback", "main_category"}
\* Kinds whose rows can be deleted, which takes them out of the constraint.
Deletable == {"main_category"}

VARIABLES
    row,     \* the tables
    open,    \* the event is live or has ended, so that it accepts feedback
    late,    \* a row was created although one had appeared since the search
    sess     \* what every request is about to do

vars == <<row, open, late, sess>>

Row == [kind : Kinds, key : Keys, rating : 1 .. 2]
NoRow == [kind |-> "none"]
Gone == [kind |-> "deleted"]
Idle == [at |-> "idle"]

TypeOK ==
    /\ row \in [Ids -> Row \cup {NoRow, Gone}]
    /\ open \in BOOLEAN /\ late \in BOOLEAN
    /\ sess \in [Sessions -> {Idle} \cup [at : {"create"}, kind : Kinds, key : Keys]
                               \cup [at : {"move"}, id : Ids, key : Keys]
                               \cup [at : {"rate"}, id : Ids]]

Init ==
    /\ row = [i \in Ids |-> NoRow]
    /\ open = FALSE /\ late = FALSE
    /\ sess = [s \in Sessions |-> Idle]

To(s, step) == sess' = [sess EXCEPT ![s] = step]
Having(kind, key) == {i \in Ids : row[i].kind = kind /\ row[i].key = key}

\* The event goes live and afterwards only ends or is archived.
GoLive == ~open /\ open' = TRUE /\ UNCHANGED <<row, late, sess>>

\* A request that finds the row is refused; feedback is then rated anew.
Look(s, kind, key) ==
    /\ sess[s] = Idle
    /\ kind = "feedback" => open
    /\ \/ Having(kind, key) = {} /\ To(s, [at |-> "create", kind |-> kind, key |-> key])
       \/ kind = "feedback" /\ \E i \in Having(kind, key) : To(s, [at |-> "rate", id |-> i])
    /\ UNCHANGED <<row, open, late>>

\* Mutant: no unique constraint on any table.
NoConstraint(kind, key) == kind \in Kinds /\ key \in Keys
Unique(kind, key) == kind \in Constrained => Having(kind, key) = {}

Create(s, i) ==
    /\ sess[s].at = "create"
    /\ row[i] = NoRow
    /\ Unique(sess[s].kind, sess[s].key)
    /\ row' = [row EXCEPT ![i] = [kind |-> sess[s].kind, key |-> sess[s].key, rating |-> 1]]
    /\ late' = (late \/ Having(sess[s].kind, sess[s].key) # {})
    /\ To(s, Idle)
    /\ UNCHANGED open

Rate(s, n) ==
    /\ sess[s].at = "rate"
    /\ row' = [row EXCEPT ![sess[s].id].rating = n]
    /\ To(s, Idle)
    /\ UNCHANGED <<open, late>>

\* An update searches for another row that has the new key.
LookMove(s, i, key) ==
    /\ sess[s] = Idle
    /\ row[i].kind \in Movable
    /\ Having(row[i].kind, key) \subseteq {i}
    /\ To(s, [at |-> "move", id |-> i, key |-> key])
    /\ UNCHANGED <<row, open, late>>

Move(s) ==
    /\ sess[s].at = "move"
    /\ LET i == sess[s].id
       IN /\ row[i] # Gone
          /\ Unique(row[i].kind, sess[s].key) \/ Having(row[i].kind, sess[s].key) = {i}
          /\ row' = [row EXCEPT ![i].key = sess[s].key]
    /\ To(s, Idle)
    /\ UNCHANGED <<open, late>>

Delete(i) ==
    /\ row[i].kind \in Deletable
    /\ row' = [row EXCEPT ![i] = Gone]
    /\ UNCHANGED <<open, late, sess>>

\* The constraint is violated, or the request is lost.
Fails(s) ==
    /\ sess[s] # Idle
    /\ To(s, Idle)
    /\ UNCHANGED <<row, open, late>>

Next ==
    \/ GoLive
    \/ \E i \in Ids : Delete(i)
    \/ \E s \in Sessions :
          \/ \E kind \in Kinds, key \in Keys : Look(s, kind, key)
          \/ \E i \in Ids : Create(s, i)
          \/ \E i \in Ids, key \in Keys : LookMove(s, i, key)
          \/ \E n \in 1 .. 2 : Rate(s, n)
          \/ Move(s)
          \/ Fails(s)

Spec == Init /\ [][Next]_vars
----------------------------------------------------------------------------
(* Properties.                                                             *)

\* However requests overlap, nobody gives two pieces of feedback in one
\* category and no media item has two highlights; unless they overlap, no child
\* has two profiles either.
OnceEach ==
    \A kind \in Kinds, key \in Keys :
        kind \in Constrained \/ ~late => Cardinality(Having(kind, key)) <= 1

=============================================================================
