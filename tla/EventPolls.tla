----------------------------- MODULE EventPolls -----------------------------
(***************************************************************************)
(* A poll and a question of an event.  A vote locks the poll's row before  *)
(* it reads anything, so its copy is current; the managers' endpoints load *)
(* the poll, or the question, before the service locks it, and decide on   *)
(* that copy.  Reading a poll whose time has come shows it live or closed  *)
(* without saving that.                                                    *)
(***************************************************************************)
EXTENDS Integers, FiniteSets, StaleCopy

CONSTANTS
    Voters,     \* users with an active registration
    Options,    \* options of the poll
    MaxSelections, \* max_selections; 1 for a single choice
    MayChange,  \* allow_vote_change
    StartsAt, EndsAt,  \* times of the poll
    MaxTime,    \* bound of the clock
    Sessions    \* requests that run concurrently

PollMoves ==
    {<<"draft", "scheduled">>, <<"draft", "closed">>, <<"scheduled", "live">>,
     <<"scheduled", "closed">>, <<"live", "closed">>, <<"closed", "archived">>}
PollStatus == {m[1] : m \in PollMoves} \cup {m[2] : m \in PollMoves}
QuestionStatus == {"submitted", "pending", "approved", "answered", "rejected", "hidden", "archived"}
Public == {"approved", "answered"}
Question == [status : QuestionStatus, answer : BOOLEAN]
Ballots == [Voters -> SUBSET Options]

VARIABLES
    poll,     \* event_polls.status
    ballot,   \* poll_responses and their poll_votes; {} without a response
    shown,    \* history: the ballots that final results were shown of, if they were
    question, \* event_questions
    upvotes,  \* question_upvotes
    sess,     \* what each request has read
    late,     \* history: a manager's request wrote from a copy that was out of date
    now       \* the clock

vars == <<poll, ballot, shown, question, upvotes, sess, late, now>>

Idle == [op |-> "idle"]
NotShown == <<>>

TypeOK ==
    /\ poll \in PollStatus
    /\ ballot \in Ballots
    /\ shown \in Ballots \cup {NotShown}
    /\ question \in Question
    /\ upvotes \subseteq Voters
    /\ sess \in [Sessions -> {Idle} \cup [op : {"status"}, copy : PollStatus]
                    \cup [op : {"question"}, copy : Question]
                    \cup [op : {"vote"}, who : Voters, old : SUBSET Options, new : SUBSET Options]]
    /\ late \in BOOLEAN
    /\ now \in 0 .. MaxTime

Init ==
    /\ poll = "draft"
    /\ ballot = [v \in Voters |-> {}]
    /\ shown = NotShown
    /\ question = [status |-> "pending", answer |-> FALSE]
    /\ upvotes = {}
    /\ sess = [s \in Sessions |-> Idle]
    /\ late = FALSE
    /\ now = 0

Tick ==
    /\ now < MaxTime
    /\ \A s \in Sessions : sess[s].op # "vote"   \* a vote is timed by its check
    /\ now' = now + 1
    /\ UNCHANGED <<poll, ballot, shown, question, upvotes, sess, late>>

Finish(s) == sess' = [sess EXCEPT ![s] = Idle]
----------------------------------------------------------------------------
(* The poll.                                                               *)

\* refresh_poll: the status that the clock gives the poll.
Refreshed ==
    LET begun == IF poll = "scheduled" /\ now >= StartsAt THEN "live" ELSE poll
    IN  IF begun = "live" /\ now >= EndsAt THEN "closed" ELSE begun

\* Mutant: the row is read without FOR UPDATE.
PollUnlocked == Sessions # {}
PollFree == \A s \in Sessions : sess[s].op # "vote"

LoadStatus(s) ==
    /\ sess[s] = Idle
    /\ sess' = [sess EXCEPT ![s] = [op |-> "status", copy |-> poll]]
    /\ UNCHANGED <<poll, ballot, shown, question, upvotes, late, now>>

ChangeStatus(s, target) ==
    /\ sess[s].op = "status"
    /\ PollFree
    /\ <<sess[s].copy, target>> \in PollMoves
    /\ poll' = target
    /\ late' = (late \/ sess[s].copy # poll)
    /\ Finish(s)
    /\ UNCHANGED <<ballot, shown, question, upvotes, now>>

VoteCheck(s, v, choice) ==
    /\ sess[s] = Idle
    /\ PollFree
    /\ Refreshed = "live"
    /\ Cardinality(choice) \in 1 .. MaxSelections
    /\ ballot[v] # {} => MayChange
    /\ sess' = [sess EXCEPT ![s] = [op |-> "vote", who |-> v, old |-> ballot[v], new |-> choice]]
    /\ UNCHANGED <<poll, ballot, shown, question, upvotes, late, now>>

\* The votes that the request saw are deleted, the new ones are inserted; a
\* first response is unique; the refreshed status is saved.
VoteCommit(s) ==
    /\ sess[s].op = "vote"
    /\ LET v == sess[s].who IN
       /\ sess[s].old = {} => ballot[v] = {}
       /\ ballot' = [ballot EXCEPT ![v] = (@ \ sess[s].old) \cup sess[s].new]
    /\ poll' = Refreshed
    /\ Finish(s)
    /\ UNCHANGED <<shown, question, upvotes, late, now>>

\* results, for a poll whose result_visibility is after_close.
ShowResults ==
    /\ Refreshed \in {"closed", "archived"}
    /\ shown = NotShown
    /\ shown' = ballot
    /\ UNCHANGED <<poll, ballot, question, upvotes, sess, late, now>>
----------------------------------------------------------------------------
(* The question.                                                           *)

LoadQuestion(s) ==
    /\ sess[s] = Idle
    /\ sess' = [sess EXCEPT ![s] = [op |-> "question", copy |-> question]]
    /\ UNCHANGED <<poll, ballot, shown, question, upvotes, late, now>>

WriteQuestion(s, new) ==
    /\ question' = Written(question, sess[s].copy, new)
    /\ late' = (late \/ sess[s].copy # question)
    /\ Finish(s)
    /\ UNCHANGED <<poll, ballot, shown, upvotes, now>>

Moderate(s, st) ==
    /\ sess[s].op = "question"
    /\ st \notin {"answered", "archived"}
    /\ WriteQuestion(s, [sess[s].copy EXCEPT !.status = st])

Answerable(copy) == copy.status = "approved"

Answer(s) ==
    /\ sess[s].op = "question"
    /\ Answerable(sess[s].copy)
    /\ WriteQuestion(s, [status |-> "answered", answer |-> TRUE])

\* upvote: the second one takes the first one back.
Upvote(v) ==
    /\ question.status \in Public
    /\ upvotes' = IF v \in upvotes THEN upvotes \ {v} ELSE upvotes \cup {v}
    /\ UNCHANGED <<poll, ballot, shown, question, sess, late, now>>

\* A request that is refused or fails.
Abort(s) ==
    /\ sess[s] # Idle
    /\ Finish(s)
    /\ UNCHANGED <<poll, ballot, shown, question, upvotes, late, now>>

Next ==
    \/ Tick \/ ShowResults
    \/ \E s \in Sessions :
          \/ LoadStatus(s) \/ \E t \in PollStatus : ChangeStatus(s, t)
          \/ \E v \in Voters, choice \in SUBSET Options : VoteCheck(s, v, choice)
          \/ VoteCommit(s) \/ Abort(s)
          \/ LoadQuestion(s) \/ Answer(s) \/ \E st \in QuestionStatus : Moderate(s, st)
    \/ \E v \in Voters : Upvote(v)

Spec == Init /\ [][Next]_vars
----------------------------------------------------------------------------
(* Properties.                                                             *)

\* However a voter's requests overlap, no ballot holds more than its options.
BallotFits == \A v \in Voters : Cardinality(ballot[v]) <= MaxSelections

\* Results that are shown when a poll has closed are final, by the clock or by
\* a manager, unless two managers changed the status over each other.
ResultsAreFinal == ~late /\ shown # NotShown => ballot = shown

\* A question that was rejected or hidden does not become public by being
\* answered, unless it was hidden while the answer was being written.
HiddenStaysHidden == question.status \in {"rejected", "hidden"} /\ question'.status = "answered" => late'
=============================================================================
