----------------------------- MODULE Competition -----------------------------
(***************************************************************************)
(* A competition of an event: its stages, the entries of registrations,    *)
(* the jury's decisions and the public's votes, the fixtures and their     *)
(* results, and the table.  An endpoint loads its row before the service   *)
(* locks or decides, and writes the columns it changed at its commit.      *)
(***************************************************************************)
EXTENDS Integers, FiniteSets, FiniteSetsExt, StaleCopy

CONSTANTS
    Entries,    \* rows of entries that may be created
    Regs,       \* registrations that are confirmed
    Fixtures,   \* rows of competition_matches that may be created
    StageType,  \* function from the order_index of a stage to its type
    Threshold,  \* votes that carry an entry over a public vote
    Scores,     \* scores a result may report
    Sessions    \* requests that run concurrently

None == 0
Orders == DOMAIN StageType

CompetitionMoves ==
    {<<"draft", "open">>, <<"draft", "cancelled">>, <<"open", "in_progress">>,
     <<"open", "cancelled">>, <<"in_progress", "completed">>, <<"in_progress", "cancelled">>}
CompetitionStatus == {m[1] : m \in CompetitionMoves} \cup {m[2] : m \in CompetitionMoves}
Ended == {"completed", "cancelled"}
MaxVotes == Threshold + 1   \* bound of the model: a fixture may send a carried entry back to the vote
EntryStatus == {"active", "advanced", "eliminated", "completed"}
Entry == [reg : Regs, status : EntryStatus, stage : Orders \cup {None}, votes : 0 .. MaxVotes]
Result == {"win", "draw", "forfeit"}
Match == [stage : Orders, a : Entries, b : Entries \cup {None}, status : {"scheduled", "completed"},
          result : Result \cup {"pending"}, winner : Entries \cup {None},
          scoreA : Scores, scoreB : Scores]
Absent == [status |-> "absent"]

VARIABLES
    comp,    \* status of the competition
    stages,  \* the order_index of every stage created so far
    entry,   \* entries
    match,   \* competition_matches
    sess     \* what each request has loaded

vars == <<comp, stages, entry, match, sess>>

Idle == [op |-> "idle"]
Loaded == [op : {"status"}, copy : CompetitionStatus]
            \cup [op : {"enter"}, on : Entries, reg : Regs]
            \cup [op : {"advance", "vote"}, on : Entries, copy : Entry]
            \cup [op : {"result"}, on : Fixtures, copy : Match]

TypeOK ==
    /\ comp \in CompetitionStatus
    /\ stages \subseteq Orders
    /\ entry \in [Entries -> Entry \cup {Absent}]
    /\ match \in [Fixtures -> Match \cup {Absent}]
    /\ sess \in [Sessions -> Loaded \cup {Idle}]

Init ==
    /\ comp = "draft"
    /\ stages = {}
    /\ entry = [e \in Entries |-> Absent]
    /\ match = [f \in Fixtures |-> Absent]
    /\ sess = [s \in Sessions |-> Idle]

Load(s, row) ==
    /\ sess[s] = Idle
    /\ sess' = [sess EXCEPT ![s] = row]
    /\ UNCHANGED <<comp, stages, entry, match>>

Finish(s) == sess' = [sess EXCEPT ![s] = Idle]
----------------------------------------------------------------------------
(* The competition and its stages.                                         *)

LoadStatus(s) == Load(s, [op |-> "status", copy |-> comp])

Unresolved == {f \in Fixtures : match[f].status = "scheduled"}

ChangeStatus(s, target) ==
    /\ sess[s].op = "status"
    /\ <<sess[s].copy, target>> \in CompetitionMoves
    /\ target = "completed" => Unresolved = {}
    /\ comp' = target
    /\ Finish(s)
    /\ UNCHANGED <<stages, entry, match>>

\* order_index is unique in the event.
CreateStage(o) ==
    /\ o \in Orders \ stages
    /\ stages' = stages \cup {o}
    /\ UNCHANGED <<comp, entry, match, sess>>

FirstStage == IF stages = {} THEN None ELSE Min(stages)
Later(o) == {p \in stages : p > o}
----------------------------------------------------------------------------
(* Entries.                                                                *)

\* The unique constraint, which decides between two requests that both
\* found no entry.
EntryFree(e, reg) == entry[e] = Absent /\ \A d \in Entries : entry[d] # Absent => entry[d].reg # reg

EnterCheck(s, e, reg) ==
    /\ comp \notin Ended
    /\ EntryFree(e, reg)
    /\ Load(s, [op |-> "enter", on |-> e, reg |-> reg])

EnterCommit(s) ==
    /\ sess[s].op = "enter"
    /\ LET e == sess[s].on IN
       /\ EntryFree(e, sess[s].reg)
       /\ entry' = [entry EXCEPT ![e] =
              [reg |-> sess[s].reg, status |-> "active", stage |-> FirstStage, votes |-> 0]]
    /\ Finish(s)
    /\ UNCHANGED <<comp, stages, match>>

\* Where an entry goes from its stage: the search for the next stage asks for
\* at most one row, and raises when two or more stages follow.
Onward(row) ==
    IF Later(row.stage) = {} THEN [row EXCEPT !.status = "completed", !.stage = None]
    ELSE [row EXCEPT !.status = "advanced", !.stage = Min(Later(row.stage))]

LoadAdvance(s, e) ==
    /\ entry[e] # Absent
    /\ Load(s, [op |-> "advance", on |-> e, copy |-> entry[e]])

Update(s, row) ==
    /\ entry' = [entry EXCEPT ![sess[s].on] = Written(@, sess[s].copy, row)]
    /\ Finish(s)
    /\ UNCHANGED <<comp, stages, match>>

Advance(s, eliminate) ==
    /\ sess[s].op = "advance"
    /\ sess[s].copy.stage # None
    /\ Cardinality(Later(sess[s].copy.stage)) <= 1
    /\ Update(s, IF eliminate THEN [sess[s].copy EXCEPT !.status = "eliminated"]
                              ELSE Onward(sess[s].copy))

LoadVote(s, e) ==
    /\ entry[e] # Absent
    /\ entry[e].stage # None
    /\ StageType[entry[e].stage] = "public_vote"
    /\ Load(s, [op |-> "vote", on |-> e, copy |-> entry[e]])

Counted(row) ==
    LET voted == [row EXCEPT !.votes = @ + 1]
    IN  IF voted.votes >= Threshold THEN Onward(voted) ELSE voted

\* The count is incremented on the copy: of two votes at once one is lost.
Vote(s) ==
    /\ sess[s].op = "vote"
    /\ sess[s].copy.votes < MaxVotes
    /\ LET new == Counted(sess[s].copy) IN
       /\ new.stage # sess[s].copy.stage => Cardinality(Later(sess[s].copy.stage)) <= 1
       /\ Update(s, new)
----------------------------------------------------------------------------
(* Fixtures and results.  Creating one does not ask for the competition's  *)
(* status; its place in the schedule is the subject of VenueSchedule.      *)

CreateMatch(f, stage, a, b) ==
    /\ match[f] = Absent
    /\ stage \in stages
    /\ entry[a] # Absent
    /\ b # None => entry[b] # Absent
    /\ match' = [match EXCEPT ![f] =
          [stage |-> stage, a |-> a, b |-> b, status |-> "scheduled", result |-> "pending",
           winner |-> None, scoreA |-> 0, scoreB |-> 0]]
    /\ UNCHANGED <<comp, stages, entry, sess>>

LoadResult(s, f) ==
    /\ match[f] # Absent
    /\ Load(s, [op |-> "result", on |-> f, copy |-> match[f]])

\* The checks of record_result, on the copy: locking the row again does not
\* refresh it.
Recordable(copy, result, winner, x, y) ==
    /\ copy.status # "completed"
    /\ result = "draw" => x = y
    /\ result = "win" => winner \in {copy.a, copy.b} /\ x # y
    /\ result # "draw" => winner # None

\* The winner goes to the next stage, or stays where the fixture was played;
\* the other participant is eliminated.
Decided(f, winner) ==
    LET next  == Later(match[f].stage)
        loser == IF winner = match[f].a THEN match[f].b ELSE match[f].a
        won   == [entry EXCEPT ![winner].stage = IF next = {} THEN match[f].stage ELSE Min(next),
                               ![winner].status = IF next = {} THEN "completed" ELSE "advanced"]
    IN  IF loser = None THEN won ELSE [won EXCEPT ![loser].status = "eliminated"]

RecordResult(s, result, winner, x, y) ==
    /\ sess[s].op = "result"
    /\ winner # None => entry[winner] # Absent
    /\ LET f == sess[s].on  copy == sess[s].copy IN
       /\ Recordable(copy, result, winner, x, y)
       /\ match' = [match EXCEPT ![f] = Written(@, copy,
              [copy EXCEPT !.status = "completed", !.result = result, !.winner = winner,
                           !.scoreA = x, !.scoreB = y])]
       /\ entry' = IF result # "draw" THEN Decided(f, winner) ELSE entry
    /\ Finish(s)
    /\ UNCHANGED <<comp, stages>>

\* A request that is refused or fails.
Abort(s) ==
    /\ sess[s] # Idle
    /\ Finish(s)
    /\ UNCHANGED <<comp, stages, entry, match>>

Next ==
    \/ \E o \in Orders : CreateStage(o)
    \/ \E f \in Fixtures, o \in Orders, a \in Entries, b \in Entries \cup {None} : CreateMatch(f, o, a, b)
    \/ \E s \in Sessions :
          \/ LoadStatus(s) \/ \E t \in CompetitionStatus : ChangeStatus(s, t)
          \/ \E e \in Entries :
                \/ LoadAdvance(s, e) \/ LoadVote(s, e)
                \/ \E reg \in Regs : EnterCheck(s, e, reg)
          \/ EnterCommit(s) \/ Vote(s) \/ Abort(s)
          \/ \E eliminate \in BOOLEAN : Advance(s, eliminate)
          \/ \E f \in Fixtures : LoadResult(s, f)
          \/ \E r \in Result, w \in Entries \cup {None}, x, y \in Scores : RecordResult(s, r, w, x, y)

Spec == Init /\ [][Next]_vars
----------------------------------------------------------------------------
(* The table: what each side of every completed fixture brings its entry.  *)

Sides(e) ==
    {p \in Fixtures \X {"a", "b"} :
        match[p[1]].status = "completed" /\ match[p[1]].b # None /\ match[p[1]][p[2]] = e}
Drawn(p) == match[p[1]].result = "draw"
Winner(p) == match[p[1]].winner
Home(p) == match[p[1]].a
Away(p) == match[p[1]].b
WonSide(p) == IF Winner(p) = Home(p) THEN "a" ELSE IF Winner(p) = Away(p) THEN "b" ELSE "none"
Wins(e) == Cardinality({p \in Sides(e) : ~Drawn(p) /\ WonSide(p) = p[2]})
\* Mutant: only the home side can lose.
HomeLosses(e) == Cardinality({p \in Sides(e) : ~Drawn(p) /\ WonSide(p) = "b" /\ p[2] = "a"})
Losses(e) == Cardinality({p \in Sides(e) : ~Drawn(p) /\ WonSide(p) \in {"a", "b"} \ {p[2]}})
Draws(e) == Cardinality({p \in Sides(e) : Drawn(p)})
Scored(p, own) == IF (p[2] = "a") = own THEN match[p[1]].scoreA ELSE match[p[1]].scoreB
Goals(e, own) == MapThenSumSet(LAMBDA p : Scored(p, own), Sides(e))
Difference(e) == Goals(e, TRUE) - Goals(e, FALSE)
Total(points) == MapThenSumSet(LAMBDA e : points[e], Entries)
----------------------------------------------------------------------------
(* Properties.                                                             *)

\* However many requests enter a registration at the same time, it takes part
\* in the competition once.
OneEntryEach ==
    \A d, e \in Entries : d # e /\ entry[d] # Absent /\ entry[e] # Absent => entry[d].reg # entry[e].reg

\* An entry that is still in a public vote has not enough votes: whichever
\* votes and decisions overlap, the vote that reaches the threshold also
\* carries the entry over.  Only a fixture played in the vote's own stage, or
\* in one before it, sends an entry back.
VoteCarriesOver ==
    \A e \in Entries :
        /\ entry[e] # Absent
        /\ entry[e].stage # None
        /\ \A f \in Fixtures : match[f] # Absent => match[f].stage > entry[e].stage
        => (StageType[entry[e].stage] = "public_vote" => entry[e].votes < Threshold)

\* Whatever two managers record over each other, and whoever is named winner,
\* the table balances: wins with defeats, and what was scored with what was
\* conceded.
TableBalances ==
    /\ Total([e \in Entries |-> Wins(e)]) = Total([e \in Entries |-> Losses(e)])
    /\ Total([e \in Entries |-> Difference(e)]) = 0
=============================================================================
