-------------------------- MODULE MCProgramme_proofs --------------------------
(***************************************************************************)
(* The invariants of the run Programme, for every set of requests and for  *)
(* all finite sets of rows and of the people and devices they concern.     *)
(* Each component brings the inductive invariant of its own theorems; here *)
(* they are put together.                                                  *)
(***************************************************************************)
EXTENDS MCProgramme, FiniteSetTheorems, TLAPS

(***************************************************************************)
(* What the run fixes is what the theorems ask of their constants.         *)
(***************************************************************************)
\* The sets of the run are finite.
LEMMA FiniteModels ==
    /\ IsFiniteSet({}) /\ IsFiniteSet({alpha}) /\ IsFiniteSet({alpha, beta})
    /\ IsFiniteSet(Xs) /\ IsFiniteSet(Ys) /\ IsFiniteSet(Ys \cup {none})
<1>1. IsFiniteSet({alpha} \cup {beta}) BY FS_Singleton, FS_Union
<1>2. {alpha} \cup {beta} = {alpha, beta} OBVIOUS
<1>3. IsFiniteSet(Ys \cup {none}) BY ModelValues, FS_AddElement
<1> QED BY <1>1, <1>2, <1>3, FS_EmptySet, FS_Singleton, ModelValues

\* The terms of access have days and numbers of entries.
LEMMA TermsOfAccess ==
    GateTerms \subseteq [zones : SUBSET {alpha}, max : Nat, from : Nat, until : Nat, dates : SUBSET Nat]
BY DEF GateTerms

\* The dates of the run are dates.
LEMMA DatesOfEntry == EntryDates \subseteq Int \X Int \X Int /\ EntryBirthdays \subseteq Int \X Int \X Int
BY DEF EntryDates, EntryBirthdays

\* The limits of the run are numbers, or none.
LEMMA RulesOfEntry ==
    LET limit == {2, 3, 17, 18} \cup {none}
    IN  EntryRules \subseteq [min : limit, max : limit, least : limit, most : limit, documents : SUBSET {beta}]
BY DEF EntryRules, NoRule

\* The forms and the payloads of the run are what a request may bring.
LEMMA FormsOfEntry == EntryForms \subseteq [{alpha} -> [required : BOOLEAN, options : SUBSET {beta}]]
<1>1. ASSUME NEW r \in BOOLEAN, NEW o \in SUBSET {beta}
      PROVE  [k \in {alpha} |-> [required |-> r, options |-> o]] \in [{alpha} -> [required : BOOLEAN, options : SUBSET {beta}]]
  OBVIOUS
<1> QED BY <1>1 DEF EntryForms

LEMMA PayloadsOfEntry ==
    EntryPayloads \subseteq [birth : EntryBirthdays \cup {none}, size : (1 .. 4) \cup {none}, documents : SUBSET {beta},
                             answers : [{alpha} -> {beta} \cup {none, ""}]]
<1> DEFINE answers == [{alpha} -> {beta} \cup {none, ""}]
           births == EntryBirthdays \cup {none}
           payload == [birth : births, size : (1 .. 4) \cup {none}, documents : SUBSET {beta}, answers : answers]
           given(a) == [k \in {alpha} |-> a]
           first(b, a) == [birth |-> b, size |-> none, documents |-> {beta}, answers |-> given(a)]
           second(n) == [birth |-> none, size |-> n, documents |-> {}, answers |-> given(beta)]
<1>1. \A a \in {none, "", beta} : given(a) \in answers OBVIOUS
<1>2. none \in births OBVIOUS
<1>3. EntryPayloads = {first(x[1], x[2]) : x \in births \X {none, "", beta}} \cup {second(n) : n \in 1 .. 4}
  BY DEF EntryPayloads
<1> HIDE DEF answers, births, given
<1>4. \A x \in births \X {none, "", beta} : first(x[1], x[2]) \in payload
  BY <1>1
<1>5. \A n \in 1 .. 4 : second(n) \in payload
  BY <1>1, <1>2
<1> HIDE DEF payload
<1>6. EntryPayloads \subseteq payload BY <1>3, <1>4, <1>5
<1> QED BY <1>6 DEF payload, births, answers

(***************************************************************************)
(* The components with their theorems.  Programme_proofs and               *)
(* EventDay_proofs declare what all of theirs use; the names an instance   *)
(* does not give are given here, and the variables, of which every         *)
(* instance gives its own, play no part in what it says.                   *)
(***************************************************************************)
Sessions == Ss
Venues == {alpha}
Borrowed == {beta}
NoVenue == none
Items == Xs
Zones == Xs
Types == {none}
Copies == {alpha}
Keys == {alpha}
NoKey == none
Managers == {beta}
Nobody == none
Ids == Xs
Reviewers == {alpha}
Amounts == {0, 1, 2}
NoCode == none
Staff == Xs
Docs == {alpha, beta}
DocType == alpha :> "runner_up" @@ beta :> "badge"
AttendanceMin == alpha :> 0 @@ beta :> 1
Participants == {beta}
Rows == Xs
MaxScans == 1
Registrations == Ys
Captain == alpha
Users == Ys \cup {alpha}
Regs == Xs
NoReg == none
MinSize == 2
MaxSize == 2
Requests == {beta}
Mains == Xs
Subs == {beta}
Events == Xs
Resources == {}
Slots == {<<0, 1>>, <<1, 2>>}
Kinds == {"lead_capture", "booth_visit"}
Devices == Ys
Workers == Ss
MaxAttempts == 2
MaxRetries == 2
MaxLosses == 1
Dates == EntryDates
Birthdays == EntryBirthdays
NoDate == none
Limits == {2, 3, 17, 18}
NoLimit == none
Documents == {beta}
Sizes == 1 .. 4
NoTeam == none
Values == {beta}
Missing == none
Empty == ""
RuleSets == EntryRules
Forms == EntryForms
Payloads == EntryPayloads
NoZone == none
Policies == Xs
NoPolicy == none
Contents == GateTerms
LastDay == 2
Ends == {1, 3}
Tickets == Ys \cup {none}
OfReg == [t \in Ys \cup {none} |-> IF t = none THEN beta ELSE alpha]
Refunds == Xs
Fee == 2
Parts == {1, 2}
Capacity == 1
Entries == Xs
Fixtures == {}
StageType == <<"knockout">>
Threshold == 1
Scores == {0, 1}

sess == v1
source == v1
template == v1
copy == v1
image == v1
item == v1
object == v1
row == v1
open == v1
late == v1
team == v1
request == v1
code == v1
incident == v1
recipients == v1
told == v1
completed == v1
reg == v1
scans == v1
final == v1
award == v1
lock == v1
profile == v1
total == v1
reward == v1
pay == v1
visits == v1
verified == v1
members == v1
invite == v1
join == v1
req == v1
main == v1
sub == v1
event == v1
stale == v1
inquiry == v1
sponsor == v1
deliverable == v1
lead == v1
note == v1
due == v1
wanted == v1
active == v1
got == v1
batch == v1
worker == v1
losses == v1
seat == v1
peak == v1
start == v1
rules == v1
form == v1
entry == v1
tk == v1
policy == v1
zone == v1
end == v1
today == v1
refund == v1
ticket == v1
report == v1
comp == v1
stages == v1
match == v1


(***************************************************************************)
(* Each component: the instance that is checked is the instance that is    *)
(* proved, and so its invariant holds at the start, lasts, and says what   *)
(* is checked.                                                             *)
(***************************************************************************)

Voted == INSTANCE EventDay_proofs WITH
    Regs <- {alpha}, StageType <- <<"public_vote", "knockout">>, Threshold <- 2, sess <- v1, entry <- v2,
    comp <- v3, stages <- v4, match <- v5

\* The vote of the run is that of the theorems.
LEMMA VoteSame ==
    /\ Vote!Init => Voted!Contests!Init
    /\ Vote!Next => Voted!Contests!Next
    /\ Voted!Contests!TypeOK => Vote!TypeOK
    /\ Voted!Contests!OneEntryEach => Vote!OneEntryEach
    /\ Voted!Contests!VoteCarriesOver => Vote!VoteCarriesOver
<1>1. Vote!Init => Voted!Contests!Init
  BY Zenon
  DEF Vote!Absent, Vote!Idle, Vote!Init, Voted!Contests!Absent, Voted!Contests!Idle, Voted!Contests!Init, Entries,
      Fixtures, Sessions
<1>2. Vote!Next => Voted!Contests!Next
  BY Zenon
  DEF Vote!Min, Vote!Cardinality, Vote!Written, Vote!None, Vote!Orders, Vote!CompetitionMoves,
      Vote!CompetitionStatus, Vote!Ended, Vote!MaxVotes, Vote!Result, Vote!Absent, Vote!Idle, Vote!Load, Vote!Finish,
      Vote!LoadStatus, Vote!Unresolved, Vote!ChangeStatus, Vote!CreateStage, Vote!FirstStage, Vote!Later,
      Vote!EntryFree, Vote!EnterCheck, Vote!EnterCommit, Vote!Onward, Vote!LoadAdvance, Vote!Update, Vote!Advance,
      Vote!LoadVote, Vote!Counted, Vote!Vote, Vote!CreateMatch, Vote!LoadResult, Vote!Recordable, Vote!Decided,
      Vote!RecordResult, Vote!Abort, Vote!Next, Voted!Contests!Min, Voted!Contests!Cardinality,
      Voted!Contests!Written, Voted!Contests!None, Voted!Contests!Orders, Voted!Contests!CompetitionMoves,
      Voted!Contests!CompetitionStatus, Voted!Contests!Ended, Voted!Contests!MaxVotes, Voted!Contests!Result,
      Voted!Contests!Absent, Voted!Contests!Idle, Voted!Contests!Load, Voted!Contests!Finish,
      Voted!Contests!LoadStatus, Voted!Contests!Unresolved, Voted!Contests!ChangeStatus, Voted!Contests!CreateStage,
      Voted!Contests!FirstStage, Voted!Contests!Later, Voted!Contests!EntryFree, Voted!Contests!EnterCheck,
      Voted!Contests!EnterCommit, Voted!Contests!Onward, Voted!Contests!LoadAdvance, Voted!Contests!Update,
      Voted!Contests!Advance, Voted!Contests!LoadVote, Voted!Contests!Counted, Voted!Contests!Vote,
      Voted!Contests!CreateMatch, Voted!Contests!LoadResult, Voted!Contests!Recordable, Voted!Contests!Decided,
      Voted!Contests!RecordResult, Voted!Contests!Abort, Voted!Contests!Next, Entries, Fixtures, Scores, Sessions
<1>3. Voted!Contests!TypeOK => Vote!TypeOK
  BY Zenon
  DEF Vote!None, Vote!Orders, Vote!CompetitionMoves, Vote!CompetitionStatus, Vote!MaxVotes, Vote!EntryStatus,
      Vote!Entry, Vote!Result, Vote!Match, Vote!Absent, Vote!Idle, Vote!Loaded, Vote!TypeOK, Voted!Contests!None,
      Voted!Contests!Orders, Voted!Contests!CompetitionMoves, Voted!Contests!CompetitionStatus,
      Voted!Contests!MaxVotes, Voted!Contests!EntryStatus, Voted!Contests!Entry, Voted!Contests!Result,
      Voted!Contests!Match, Voted!Contests!Absent, Voted!Contests!Idle, Voted!Contests!Loaded, Voted!Contests!TypeOK,
      Entries, Fixtures, Scores, Sessions
<1>4. Voted!Contests!OneEntryEach => Vote!OneEntryEach
  BY Zenon
  DEF Vote!Absent, Vote!OneEntryEach, Voted!Contests!Absent, Voted!Contests!OneEntryEach, Entries
<1>5. Voted!Contests!VoteCarriesOver => Vote!VoteCarriesOver
  BY Zenon
  DEF Vote!None, Vote!Absent, Vote!VoteCarriesOver, Voted!Contests!None, Voted!Contests!Absent,
      Voted!Contests!VoteCarriesOver, Entries, Fixtures
<1> QED BY <1>1, <1>2, <1>3, <1>4, <1>5

\* The invariant of the vote in the run.
LEMMA VotePart ==
    /\ part = "votes" /\ Init => Voted!ContestInv /\ Voted!Contests!VoteCarriesOver
    /\ part = "votes" /\ Voted!ContestInv /\ Voted!Contests!VoteCarriesOver /\ [Next]_vars =>
          Voted!ContestInv' /\ Voted!Contests!VoteCarriesOver'
    /\ Voted!ContestInv /\ Voted!Contests!VoteCarriesOver =>
          Vote!TypeOK /\ Vote!OneEntryEach /\ Vote!VoteCarriesOver
<1>1. Voted!ContestWorld
  BY FiniteModels, ModelValues
  DEF Voted!ContestWorld, Entries, Fixtures, Scores, IsFiniteSet, Voted!IsFiniteSet
<1>2. Voted!VoteComesFirst
  BY ModelValues
  DEF Voted!VoteComesFirst
<1>3. Voted!ContestInv /\ Voted!Contests!VoteCarriesOver =>
      Voted!Contests!TypeOK /\ Voted!Contests!OneEntryEach /\ Voted!Contests!VoteCarriesOver
  BY <1>1, <1>2 DEF Voted!ContestInv
<1>4. part = "votes" /\ [Next]_vars => [Voted!Contests!Next]_Voted!Contests!vars
  BY VoteSame DEF Next, vars, Vote!vars, Voted!Contests!vars
<1>5. part = "votes" /\ Init => Voted!Contests!Init BY VoteSame DEF Init
<1> QED BY <1>1, <1>2, <1>3, <1>4, <1>5, VoteSame, Voted!ContestStart, Voted!ContestStep, Voted!FairKept

Played == INSTANCE EventDay_proofs WITH
    Regs <- Ys, Fixtures <- {alpha}, sess <- v1, entry <- v2, comp <- v3, stages <- v4, match <- v5

\* The fixtures of the run are those of the theorems.
LEMMA CupSame ==
    /\ Cup!Init => Played!Contests!Init
    /\ Cup!Next => Played!Contests!Next
    /\ Played!Contests!TypeOK => Cup!TypeOK
    /\ Played!Contests!OneEntryEach => Cup!OneEntryEach
    /\ Played!Contests!TableBalances => Cup!TableBalances
<1>1. Cup!Init => Played!Contests!Init
  BY Zenon
  DEF Cup!Absent, Cup!Idle, Cup!Init, Played!Contests!Absent, Played!Contests!Idle, Played!Contests!Init, Entries,
      Sessions
<1>2. Cup!Next => Played!Contests!Next
  BY Zenon
  DEF Cup!Min, Cup!Cardinality, Cup!Written, Cup!None, Cup!Orders, Cup!CompetitionMoves, Cup!CompetitionStatus,
      Cup!Ended, Cup!MaxVotes, Cup!Result, Cup!Absent, Cup!Idle, Cup!Load, Cup!Finish, Cup!LoadStatus,
      Cup!Unresolved, Cup!ChangeStatus, Cup!CreateStage, Cup!FirstStage, Cup!Later, Cup!EntryFree, Cup!EnterCheck,
      Cup!EnterCommit, Cup!Onward, Cup!LoadAdvance, Cup!Update, Cup!Advance, Cup!LoadVote, Cup!Counted, Cup!Vote,
      Cup!CreateMatch, Cup!LoadResult, Cup!Recordable, Cup!Decided, Cup!RecordResult, Cup!Abort, Cup!Next,
      Played!Contests!Min, Played!Contests!Cardinality, Played!Contests!Written, Played!Contests!None,
      Played!Contests!Orders, Played!Contests!CompetitionMoves, Played!Contests!CompetitionStatus,
      Played!Contests!Ended, Played!Contests!MaxVotes, Played!Contests!Result, Played!Contests!Absent,
      Played!Contests!Idle, Played!Contests!Load, Played!Contests!Finish, Played!Contests!LoadStatus,
      Played!Contests!Unresolved, Played!Contests!ChangeStatus, Played!Contests!CreateStage,
      Played!Contests!FirstStage, Played!Contests!Later, Played!Contests!EntryFree, Played!Contests!EnterCheck,
      Played!Contests!EnterCommit, Played!Contests!Onward, Played!Contests!LoadAdvance, Played!Contests!Update,
      Played!Contests!Advance, Played!Contests!LoadVote, Played!Contests!Counted, Played!Contests!Vote,
      Played!Contests!CreateMatch, Played!Contests!LoadResult, Played!Contests!Recordable, Played!Contests!Decided,
      Played!Contests!RecordResult, Played!Contests!Abort, Played!Contests!Next, Entries, StageType, Threshold,
      Scores, Sessions
<1>3. Played!Contests!TypeOK => Cup!TypeOK
  BY Zenon
  DEF Cup!None, Cup!Orders, Cup!CompetitionMoves, Cup!CompetitionStatus, Cup!MaxVotes, Cup!EntryStatus, Cup!Entry,
      Cup!Result, Cup!Match, Cup!Absent, Cup!Idle, Cup!Loaded, Cup!TypeOK, Played!Contests!None,
      Played!Contests!Orders, Played!Contests!CompetitionMoves, Played!Contests!CompetitionStatus,
      Played!Contests!MaxVotes, Played!Contests!EntryStatus, Played!Contests!Entry, Played!Contests!Result,
      Played!Contests!Match, Played!Contests!Absent, Played!Contests!Idle, Played!Contests!Loaded,
      Played!Contests!TypeOK, Entries, StageType, Threshold, Scores, Sessions
<1>4. Played!Contests!OneEntryEach => Cup!OneEntryEach
  BY Zenon
  DEF Cup!Absent, Cup!OneEntryEach, Played!Contests!Absent, Played!Contests!OneEntryEach, Entries
<1>5. Played!Contests!TableBalances => Cup!TableBalances
  BY Zenon
  DEF Cup!MapThenSumSet, Cup!MapThenFoldSet, Cup!Cardinality, Cup!None, Cup!Sides, Cup!Drawn, Cup!Winner, Cup!Home,
      Cup!Away, Cup!WonSide, Cup!Wins, Cup!Losses, Cup!Scored, Cup!Goals, Cup!Difference, Cup!Total,
      Cup!TableBalances, Played!Contests!MapThenSumSet, Played!Contests!MapThenFoldSet, Played!Contests!Cardinality,
      Played!Contests!None, Played!Contests!Sides, Played!Contests!Drawn, Played!Contests!Winner,
      Played!Contests!Home, Played!Contests!Away, Played!Contests!WonSide, Played!Contests!Wins,
      Played!Contests!Losses, Played!Contests!Scored, Played!Contests!Goals, Played!Contests!Difference,
      Played!Contests!Total, Played!Contests!TableBalances, Entries
<1> QED BY <1>1, <1>2, <1>3, <1>4, <1>5

\* The invariant of the fixtures in the run.
LEMMA CupPart ==
    /\ part = "fixtures" /\ Init => Played!ContestInv
    /\ part = "fixtures" /\ Played!ContestInv /\ [Next]_vars => Played!ContestInv'
    /\ Played!ContestInv => Cup!TypeOK /\ Cup!OneEntryEach /\ Cup!TableBalances
<1>1. Played!ContestWorld
  BY FiniteModels, ModelValues
  DEF Played!ContestWorld, Entries, StageType, Threshold, Scores, IsFiniteSet, Played!IsFiniteSet
<1>2. Played!ContestInv => Played!Contests!TypeOK /\ Played!Contests!OneEntryEach /\ Played!Contests!TableBalances
  BY <1>1, Played!TableIsBalanced DEF Played!ContestInv
<1>3. part = "fixtures" /\ [Next]_vars => [Played!Contests!Next]_Played!Contests!vars
  BY CupSame DEF Next, vars, Cup!vars, Played!Contests!vars
<1>4. part = "fixtures" /\ Init => Played!Contests!Init BY CupSame DEF Init
<1> QED BY <1>1, <1>2, <1>3, <1>4, CupSame, Played!ContestStart, Played!ContestStep

Held == INSTANCE EventDay_proofs WITH
    Regs <- {alpha, beta}, Zones <- {alpha}, Sessions <- {alpha}, reg <- v1, pay <- v2, refund <- v3, ticket <- v4,
    scans <- v5, report <- v6, tk <- v3, policy <- v4, zone <- v5, visits <- v6, end <- v7, today <- v8, sess <- v1,
    entry <- v2, start <- v3, rules <- v4, form <- v5

\* The reports of the run are those of the theorems.
LEMMA FiguresSame ==
    /\ Figures!Init => Held!Sheets!Init
    /\ Figures!Next => Held!Sheets!Next
    /\ Held!Sheets!TypeOK => Figures!TypeOK
    /\ Held!Sheets!NetNotOverstated => Figures!NetNotOverstated
    /\ Held!Sheets!NoShowsListed => Figures!NoShowsListed
    /\ Held!Sheets!RefundsAlerted => Figures!RefundsAlerted
<1>1. Figures!Init => Held!Sheets!Init
  BY Zenon
  DEF Figures!NoRefund, Figures!Idle, Figures!Init, Held!Sheets!NoRefund, Held!Sheets!Idle, Held!Sheets!Init,
      Tickets, Refunds
<1>2. Figures!Next => Held!Sheets!Next
  BY Zenon
  DEF Figures!MapThenSumSet, Figures!MapThenFoldSet, Figures!Cardinality, Figures!NoRefund, Figures!Idle,
      Figures!TicketsOf, Figures!AmountOf, Figures!RefundsOf, Figures!Refunded, Figures!Register, Figures!Verify,
      Figures!CancelUnpaid, Figures!CheckIn, Figures!Revoke, Figures!RequestRefund, Figures!ProcessRefund,
      Figures!FailRefund, Figures!Paid, Figures!VerifiedSum, Figures!ProcessedRefunds, Figures!Held,
      Figures!ReadPayments, Figures!ReadRefunds, Figures!Close, Figures!Next, Held!Sheets!MapThenSumSet,
      Held!Sheets!MapThenFoldSet, Held!Sheets!Cardinality, Held!Sheets!NoRefund, Held!Sheets!Idle,
      Held!Sheets!TicketsOf, Held!Sheets!AmountOf, Held!Sheets!RefundsOf, Held!Sheets!Refunded, Held!Sheets!Register,
      Held!Sheets!Verify, Held!Sheets!CancelUnpaid, Held!Sheets!CheckIn, Held!Sheets!Revoke,
      Held!Sheets!RequestRefund, Held!Sheets!ProcessRefund, Held!Sheets!FailRefund, Held!Sheets!Paid,
      Held!Sheets!VerifiedSum, Held!Sheets!ProcessedRefunds, Held!Sheets!Held, Held!Sheets!ReadPayments,
      Held!Sheets!ReadRefunds, Held!Sheets!Close, Held!Sheets!Next, Tickets, OfReg, Refunds, Fee, Parts, MaxScans
<1>3. Held!Sheets!TypeOK => Figures!TypeOK
  BY Zenon
  DEF Figures!RegistrationStatus, Figures!PaymentStatus, Figures!TicketStatus, Figures!RefundStatus,
      Figures!NoRefund, Figures!Idle, Figures!TypeOK, Held!Sheets!RegistrationStatus, Held!Sheets!PaymentStatus,
      Held!Sheets!TicketStatus, Held!Sheets!RefundStatus, Held!Sheets!NoRefund, Held!Sheets!Idle, Held!Sheets!TypeOK,
      Tickets, Refunds, Parts, MaxScans
<1>4. Held!Sheets!NetNotOverstated => Figures!NetNotOverstated
  BY Zenon
  DEF Figures!NetNotOverstated, Held!Sheets!NetNotOverstated
<1>5. Held!Sheets!NoShowsListed => Figures!NoShowsListed
  BY Zenon
  DEF Figures!Cardinality, Figures!Max, Figures!TicketsOf, Figures!InStatus, Figures!AttendanceEligible,
      Figures!ValidTicket, Figures!CheckedInTickets, Figures!NoShows, Figures!Attended, Figures!NoShowsListed,
      Held!Sheets!Cardinality, Held!Sheets!Max, Held!Sheets!TicketsOf, Held!Sheets!InStatus,
      Held!Sheets!AttendanceEligible, Held!Sheets!ValidTicket, Held!Sheets!CheckedInTickets, Held!Sheets!NoShows,
      Held!Sheets!Attended, Held!Sheets!NoShowsListed, Tickets, OfReg
<1>6. Held!Sheets!RefundsAlerted => Figures!RefundsAlerted
  BY Zenon
  DEF Figures!Cardinality, Figures!InStatus, Figures!ActiveRegistrations, Figures!Available, Figures!RefundsIn,
      Figures!Alerts, Figures!RefundsAlerted, Held!Sheets!Cardinality, Held!Sheets!InStatus,
      Held!Sheets!ActiveRegistrations, Held!Sheets!Available, Held!Sheets!RefundsIn, Held!Sheets!Alerts,
      Held!Sheets!RefundsAlerted, Refunds, Capacity
<1> QED BY <1>1, <1>2, <1>3, <1>4, <1>5, <1>6

\* The invariant of the reports in the run.
LEMMA FiguresPart ==
    /\ part = "reports" /\ Init => Held!ReportInv
    /\ part = "reports" /\ Held!ReportInv /\ [Next]_vars => Held!ReportInv'
    /\ Held!ReportInv =>
          Figures!TypeOK /\ Figures!NetNotOverstated /\ Figures!NoShowsListed /\ Figures!RefundsAlerted
<1>1. Held!SheetWorld
  <2>1. Held!IsFiniteSet({alpha, beta}) /\ Held!IsFiniteSet(Tickets) /\ Held!IsFiniteSet(Refunds)
    BY FiniteModels DEF Tickets, Refunds, IsFiniteSet, Held!IsFiniteSet
  <2>2. OfReg \in [Tickets -> {alpha, beta}] BY DEF OfReg, Tickets
  <2>3. Fee \in Nat /\ Parts \subseteq Nat /\ MaxScans \in Nat BY DEF Fee, Parts, MaxScans
  <2> QED BY <2>1, <2>2, <2>3 DEF Held!SheetWorld
<1>2. Held!ReportInv =>
      Held!Sheets!TypeOK /\ Held!Sheets!NetNotOverstated /\ Held!Sheets!NoShowsListed /\ Held!Sheets!RefundsAlerted
  BY <1>1, Held!AbsenteesListed, Held!RefundsShown DEF Held!ReportInv
<1>3. part = "reports" /\ [Next]_vars => [Held!Sheets!Next]_Held!Sheets!vars
  BY FiguresSame DEF Next, vars, Figures!vars, Held!Sheets!vars
<1>4. part = "reports" /\ Init => Held!Sheets!Init BY FiguresSame DEF Init
<1> QED BY <1>1, <1>2, <1>3, <1>4, FiguresSame, Held!ReportsStart, Held!ReportsNext

\* The gate of the run is that of the theorems.
LEMMA GateSame ==
    /\ Gate!Init => Held!Gates!Init
    /\ Gate!Next => Held!Gates!Next
    /\ Held!Gates!TypeOK => Gate!TypeOK
    /\ Held!Gates!PreviewAgrees => Gate!PreviewAgrees
    /\ Held!Gates!EntriesCounted => Gate!EntriesCounted
BY Zenon
DEF Gate!Desk, Gate!Missing, Gate!Used, Gate!Ended, Gate!Confirmed, Gate!Scan, Gate!TypeOK, Gate!Grantable,
   Gate!Terms, Gate!Init, Gate!EntriesLeft, Gate!AllowedZones, Gate!ZoneAllowed, Gate!ZoneOpen, Gate!Reasons,
   Gate!Preview, Gate!Resolves, Gate!MayCheckIn, Gate!CheckIn, Gate!CheckOut, Gate!Revoke, Gate!Replace,
   Gate!AssignAccessType, Gate!UpsertPolicy, Gate!CreateZone, Gate!MoveEnd, Gate!NextDay, Gate!AskRefund,
   Gate!EndRefund, Gate!Cancelled, Gate!EndRegistration, Gate!Next, Gate!PreviewAgrees, Gate!EntriesCounted,
   Held!Gates!Desk, Held!Gates!Missing, Held!Gates!Used, Held!Gates!Ended, Held!Gates!Confirmed, Held!Gates!Scan,
   Held!Gates!TypeOK, Held!Gates!Grantable, Held!Gates!Terms, Held!Gates!Init, Held!Gates!EntriesLeft,
   Held!Gates!AllowedZones, Held!Gates!ZoneAllowed, Held!Gates!ZoneOpen, Held!Gates!Reasons, Held!Gates!Preview,
   Held!Gates!Resolves, Held!Gates!MayCheckIn, Held!Gates!CheckIn, Held!Gates!CheckOut, Held!Gates!Revoke,
   Held!Gates!Replace, Held!Gates!AssignAccessType, Held!Gates!UpsertPolicy, Held!Gates!CreateZone,
   Held!Gates!MoveEnd, Held!Gates!NextDay, Held!Gates!AskRefund, Held!Gates!EndRefund, Held!Gates!Cancelled,
   Held!Gates!EndRegistration, Held!Gates!Next, Held!Gates!PreviewAgrees, Held!Gates!EntriesCounted, NoZone,
   Policies, NoPolicy, Contents, LastDay, Ends

\* The invariant of the gate in the run.
LEMMA GatePart ==
    /\ part = "gate" /\ Init => Held!GateInv
    /\ part = "gate" /\ Held!GateInv /\ [Next]_vars => Held!GateInv'
    /\ Held!GateInv => Gate!TypeOK /\ Gate!PreviewAgrees /\ Gate!EntriesCounted
<1>1. Held!GateWorld
  BY TermsOfAccess
  DEF Held!GateWorld, Contents, LastDay, Ends
<1>2. Held!GateInv => Held!Gates!TypeOK /\ Held!Gates!PreviewAgrees /\ Held!Gates!EntriesCounted
  BY <1>1, Held!PreviewIsCheckIn DEF Held!GateInv
<1>3. part = "gate" /\ [Next]_vars => [Held!Gates!Next]_Held!Gates!vars
  BY GateSame DEF Next, vars, Gate!vars, Held!Gates!vars
<1>4. part = "gate" /\ Init => Held!Gates!Init BY GateSame DEF Init
<1> QED BY <1>1, <1>2, <1>3, <1>4, GateSame, Held!InitGate, Held!GateStep

\* The rules of entry of the run are those of the theorems.
LEMMA EntrySame ==
    /\ Entry!Init => Held!Entrants!Init
    /\ Entry!Next => Held!Entrants!Next
    /\ Held!Entrants!TypeOK => Entry!TypeOK
    /\ Held!Entrants!EntrantsMetTheRules => Entry!EntrantsMetTheRules
BY Zenon
DEF Entry!Cardinality, Entry!Rules, Entry!Form, Entry!Payload, Entry!Idle, Entry!TypeOK, Entry!Init, Entry!Earlier,
   Entry!CalculateAge, Entry!AgeErrors, Entry!SizeErrors, Entry!CheckEligibility, Entry!ValidateFieldAnswers,
   Entry!ValidateRegistration, Entry!Begin, Entry!Register, Entry!Abort, Entry!UpsertConfiguration,
   Entry!UpsertFieldSchema, Entry!MoveStart, Entry!Next, Entry!Lexical, Entry!YearsLived, Entry!EntrantsMetTheRules,
   Held!Entrants!Cardinality, Held!Entrants!Rules, Held!Entrants!Form, Held!Entrants!Payload, Held!Entrants!Idle,
   Held!Entrants!TypeOK, Held!Entrants!Init, Held!Entrants!Earlier, Held!Entrants!CalculateAge,
   Held!Entrants!AgeErrors, Held!Entrants!SizeErrors, Held!Entrants!CheckEligibility,
   Held!Entrants!ValidateFieldAnswers, Held!Entrants!ValidateRegistration, Held!Entrants!Begin,
   Held!Entrants!Register, Held!Entrants!Abort, Held!Entrants!UpsertConfiguration, Held!Entrants!UpsertFieldSchema,
   Held!Entrants!MoveStart, Held!Entrants!Next, Held!Entrants!Lexical, Held!Entrants!YearsLived,
   Held!Entrants!EntrantsMetTheRules, Dates, Birthdays, NoDate, Limits, NoLimit, Documents, Sizes, NoTeam, Keys,
   Values, Missing, Empty, RuleSets, Forms, Payloads

\* The invariant of the rules of entry in the run.
LEMMA EntryPart ==
    /\ part = "entry" /\ Init => Held!EligibilityInv
    /\ part = "entry" /\ Held!EligibilityInv /\ [Next]_vars => Held!EligibilityInv'
    /\ Held!EligibilityInv => Entry!TypeOK /\ Entry!EntrantsMetTheRules
<1>1. Held!EntryWorld
  <2>1. Dates \subseteq Held!Calendar /\ Birthdays \subseteq Held!Calendar
    BY DatesOfEntry DEF Dates, Birthdays, Held!Calendar
  <2>2. Limits \subseteq Nat /\ Sizes \subseteq Nat BY DEF Limits, Sizes
  <2>3. Payloads \subseteq Held!Entrants!Payload
    BY PayloadsOfEntry
    DEF Payloads, Held!Entrants!Payload, Birthdays, NoDate, Sizes, NoTeam, Documents, Keys, Values, Missing, Empty
  <2>4. RuleSets \subseteq Held!Entrants!Rules
    BY RulesOfEntry DEF RuleSets, Held!Entrants!Rules, Limits, NoLimit, Documents
  <2>5. Forms \subseteq Held!Entrants!Form BY FormsOfEntry DEF Forms, Held!Entrants!Form, Keys, Values
  <2> QED BY <2>1, <2>2, <2>3, <2>4, <2>5 DEF Held!EntryWorld
<1>2. Held!EligibilityInv => Held!Entrants!TypeOK /\ Held!Entrants!EntrantsMetTheRules
  BY <1>1, Held!ValidMeetsTheRules DEF Held!EligibilityInv
<1>3. part = "entry" /\ [Next]_vars => [Held!Entrants!Next]_Held!Entrants!vars
  BY EntrySame DEF Next, vars, Entry!vars, Held!Entrants!vars
<1>4. part = "entry" /\ Init => Held!Entrants!Init BY EntrySame DEF Init
<1> QED BY <1>1, <1>2, <1>3, <1>4, EntrySame, Held!InitEligibility, Held!EligibilityStep

Usual == INSTANCE Programme_proofs WITH
    members <- v1, invite <- v2, team <- v3, reg <- v4, join <- v5, req <- v6, sess <- v1, item <- v2, stale <- v3,
    completed <- v1, scans <- v2, final <- v3, award <- v5, lock <- v6, late <- v2, inquiry <- v3, sponsor <- v4,
    deliverable <- v5, lead <- v6, profile <- v3, total <- v5, reward <- v6, pay <- v7, visits <- v8,
    verified <- v9, incident <- v2, recipients <- v3, told <- v4, request <- v4, code <- v5, note <- v1, due <- v2,
    wanted <- v3, active <- v4, got <- v5, batch <- v6, worker <- v7, losses <- v8

\* The teams of the run are those of the theorems.
LEMMA TeamSame ==
    /\ Team!Init => Usual!Roster!Init
    /\ Team!Next => Usual!Roster!Next
    /\ Usual!Roster!TypeOK => Team!TypeOK
    /\ Usual!Roster!MembersAgreed => Team!MembersAgreed
    /\ Usual!Roster!SubmittedRosterFits => Team!SubmittedRosterFits
BY Zenon
DEF Team!Cardinality, Team!TeamStatus, Team!Answer, Team!Live, Team!Registration, Team!None, Team!Team, Team!Idle,
   Team!TypeOK, Team!Init, Team!Load, Team!Finish, Team!Abort, Team!Flushed, Team!SizeAllowed, Team!Invite,
   Team!AnswerInvitation, Team!MayRequest, Team!RequestToJoin, Team!AnswerJoin, Team!RemoveMember, Team!Leave,
   Team!NoDuplicate, Team!SubmitRead, Team!SubmitCreate, Team!SubmitLink, Team!ApproveDecide, Team!ApproveCommit,
   Team!RegisterDirectly, Team!EndRegistration, Team!RosterStep, Team!SubmitStep, Team!Next, Team!MembersAgreed,
   Team!SubmittedRosterFits, Usual!Roster!Cardinality, Usual!Roster!TeamStatus, Usual!Roster!Answer,
   Usual!Roster!Live, Usual!Roster!Registration, Usual!Roster!None, Usual!Roster!Team, Usual!Roster!Idle,
   Usual!Roster!TypeOK, Usual!Roster!Init, Usual!Roster!Load, Usual!Roster!Finish, Usual!Roster!Abort,
   Usual!Roster!Flushed, Usual!Roster!SizeAllowed, Usual!Roster!Invite, Usual!Roster!AnswerInvitation,
   Usual!Roster!MayRequest, Usual!Roster!RequestToJoin, Usual!Roster!AnswerJoin, Usual!Roster!RemoveMember,
   Usual!Roster!Leave, Usual!Roster!NoDuplicate, Usual!Roster!SubmitRead, Usual!Roster!SubmitCreate,
   Usual!Roster!SubmitLink, Usual!Roster!ApproveDecide, Usual!Roster!ApproveCommit, Usual!Roster!RegisterDirectly,
   Usual!Roster!EndRegistration, Usual!Roster!RosterStep, Usual!Roster!SubmitStep, Usual!Roster!Next,
   Usual!Roster!MembersAgreed, Usual!Roster!SubmittedRosterFits, Captain, Users, Regs, NoReg, MinSize, MaxSize,
   Requests

\* The invariant of the teams in the run.
LEMMA TeamPart ==
    /\ part = "team" /\ Init => Usual!RosterInv
    /\ part = "team" /\ Usual!RosterInv /\ [Next]_vars => Usual!RosterInv'
    /\ Usual!RosterInv => Team!TypeOK /\ Team!MembersAgreed /\ Team!SubmittedRosterFits
<1>1. Usual!CaptainIsUser
  BY ModelValues
  DEF Usual!CaptainIsUser, Captain, Users, Regs, NoReg
<1>2. Usual!RosterInv => Usual!Roster!TypeOK /\ Usual!Roster!MembersAgreed /\ Usual!Roster!SubmittedRosterFits
  BY <1>1, Usual!RosterTyped
<1>3. part = "team" /\ [Next]_vars => [Usual!Roster!Next]_Usual!Roster!vars
  BY TeamSame DEF Next, vars, Team!vars, Usual!Roster!vars
<1>4. part = "team" /\ Init => Usual!Roster!Init BY TeamSame DEF Init
<1> QED BY <1>1, <1>2, <1>3, <1>4, TeamSame, Usual!InitRoster, Usual!RosterNext

\* The schedule of the run is that of the theorems.
LEMMA VenueSame ==
    /\ Venue!Init => Usual!Rooms!Init
    /\ Venue!Next => Usual!Rooms!Next
    /\ Usual!Rooms!TypeOK => Venue!TypeOK
    /\ Usual!Rooms!SeparateEditsKeepApart => Venue!SeparateEditsKeepApart
BY Zenon
DEF Venue!Written, Venue!None, Venue!Row, Venue!NoItem, Venue!Idle, Venue!TypeOK, Venue!Init, Venue!Overlap,
   Venue!Conflicts, Venue!Scope, Venue!LockFree, Venue!Validated, Venue!Add, Venue!Insert, Venue!LoadEdit,
   Venue!CheckEdit, Venue!WriteEdit, Venue!Abort, Venue!Cancel, Venue!Delete, Venue!Next, Venue!Booked,
   Venue!SeparateEditsKeepApart, Usual!Rooms!Written, Usual!Rooms!None, Usual!Rooms!Row, Usual!Rooms!NoItem,
   Usual!Rooms!Idle, Usual!Rooms!TypeOK, Usual!Rooms!Init, Usual!Rooms!Overlap, Usual!Rooms!Conflicts,
   Usual!Rooms!Scope, Usual!Rooms!LockFree, Usual!Rooms!Validated, Usual!Rooms!Add, Usual!Rooms!Insert,
   Usual!Rooms!LoadEdit, Usual!Rooms!CheckEdit, Usual!Rooms!WriteEdit, Usual!Rooms!Abort, Usual!Rooms!Cancel,
   Usual!Rooms!Delete, Usual!Rooms!Next, Usual!Rooms!Booked, Usual!Rooms!SeparateEditsKeepApart, Items, Venues,
   Resources, Slots, Sessions

\* The invariant of the schedule in the run.
LEMMA VenuePart ==
    /\ part = "venues" /\ Init => Usual!VenueInv
    /\ part = "venues" /\ Usual!VenueInv /\ [Next]_vars => Usual!VenueInv'
    /\ Usual!VenueInv => Venue!TypeOK /\ Venue!SeparateEditsKeepApart
<1>1. Usual!SlotsAreTimes
  BY ModelValues
  DEF Usual!SlotsAreTimes, Slots
<1>2. Usual!VenueInv => Usual!Rooms!TypeOK /\ Usual!Rooms!SeparateEditsKeepApart
  BY <1>1 DEF Usual!VenueInv, Usual!Rooms!SeparateEditsKeepApart, Usual!Apart, Usual!Together
<1>3. part = "venues" /\ [Next]_vars => [Usual!Rooms!Next]_Usual!Rooms!vars
  BY VenueSame DEF Next, vars, Venue!vars, Usual!Rooms!vars
<1>4. part = "venues" /\ Init => Usual!Rooms!Init BY VenueSame DEF Init
<1> QED BY <1>1, <1>2, <1>3, <1>4, VenueSame, Usual!InitVenue, Usual!VenueNext

\* The awards of the run are those of the theorems.
LEMMA AwardSame ==
    /\ Award!Init => Usual!Prizes!Init
    /\ Award!Next => Usual!Prizes!Next
    /\ Usual!Prizes!TypeOK => Award!TypeOK
    /\ Usual!Prizes!OneActiveAward => Award!OneActiveAward
BY Zenon
DEF Award!Cardinality, Award!Registrant, Award!Recipients, Award!Final, Award!Award, Award!NoAward, Award!Free,
   Award!TypeOK, Award!Init, Award!CompleteEvent, Award!MoveRegistration, Award!Scan, Award!PlayFinal,
   Award!Attendance, Award!Eligible, Award!Active, Award!LockFree, Award!IssueCheck, Award!Unique, Award!IssueCommit,
   Award!IssueFails, Award!Revoke, Award!Next, Award!OneActiveAward, Usual!Prizes!Cardinality,
   Usual!Prizes!Registrant, Usual!Prizes!Recipients, Usual!Prizes!Final, Usual!Prizes!Award, Usual!Prizes!NoAward,
   Usual!Prizes!Free, Usual!Prizes!TypeOK, Usual!Prizes!Init, Usual!Prizes!CompleteEvent,
   Usual!Prizes!MoveRegistration, Usual!Prizes!Scan, Usual!Prizes!PlayFinal, Usual!Prizes!Attendance,
   Usual!Prizes!Eligible, Usual!Prizes!Active, Usual!Prizes!LockFree, Usual!Prizes!IssueCheck, Usual!Prizes!Unique,
   Usual!Prizes!IssueCommit, Usual!Prizes!IssueFails, Usual!Prizes!Revoke, Usual!Prizes!Next,
   Usual!Prizes!OneActiveAward, Docs, DocType, AttendanceMin, Participants, Rows, MaxScans, Sessions

\* The invariant of the awards in the run.
LEMMA AwardPart ==
    /\ part = "awards" /\ Init => Usual!AwardInv /\ Usual!CountersOK
    /\ part = "awards" /\ Usual!AwardInv /\ Usual!CountersOK /\ [Next]_vars => Usual!AwardInv' /\ Usual!CountersOK'
    /\ Usual!AwardInv /\ Usual!CountersOK => Award!TypeOK /\ Award!OneActiveAward
<1>1. MaxScans \in Nat BY ModelValues DEF MaxScans
<1>2. Usual!AwardInv /\ Usual!CountersOK => Usual!Prizes!TypeOK /\ Usual!Prizes!OneActiveAward
  BY <1>1, Usual!ActiveOnce DEF Usual!AwardInv, Usual!CountersOK, Usual!Prizes!TypeOK
<1>3. part = "awards" /\ [Next]_vars => [Usual!Prizes!Next]_Usual!Prizes!vars
  BY AwardSame DEF Next, vars, Award!vars, Usual!Prizes!vars
<1>4. part = "awards" /\ Init => Usual!Prizes!Init BY AwardSame DEF Init
<1> QED BY <1>1, <1>2, <1>3, <1>4, AwardSame, Usual!InitAward, Usual!AwardNext, Usual!CountersNext DEF MaxScans

\* The sponsors of the run are those of the theorems.
LEMMA SponsorSame ==
    /\ Sponsor!Init => Usual!Sponsors!Init
    /\ Sponsor!Next => Usual!Sponsors!Next
    /\ Usual!Sponsors!TypeOK => Sponsor!TypeOK
    /\ Usual!Sponsors!SponsorshipAgrees => Sponsor!SponsorshipAgrees
BY Zenon
DEF Sponsor!Written, Sponsor!InquiryMoves, Sponsor!InquiryStatus, Sponsor!SponsorMoves, Sponsor!SponsorStatus,
   Sponsor!DeliverableMoves, Sponsor!DeliverableStatus, Sponsor!Working, Sponsor!LeadMoves, Sponsor!LeadStatus,
   Sponsor!Consent, Sponsor!NoLead, Sponsor!Lead, Sponsor!Deliverable, Sponsor!Idle, Sponsor!TypeOK, Sponsor!Init,
   Sponsor!Begin, Sponsor!Finish, Sponsor!LoadInquiry, Sponsor!Review, Sponsor!MayAssign, Sponsor!AssignSponsor,
   Sponsor!LoadSponsor, Sponsor!UpdateSponsor, Sponsor!CreateDeliverable, Sponsor!LoadDeliverable,
   Sponsor!UpdateDeliverable, Sponsor!Engaged, Sponsor!MayCapture, Sponsor!Capture, Sponsor!LoadLead,
   Sponsor!WriteLead, Sponsor!UpdateLeadStatus, Sponsor!GiveConsent, Sponsor!WithdrawConsent, Sponsor!Abort,
   Sponsor!Next, Sponsor!SponsoredOnce, Sponsor!ConsentRespected, Sponsor!CompletionDated, Sponsor!SponsorshipAgrees,
   Usual!Sponsors!Written, Usual!Sponsors!InquiryMoves, Usual!Sponsors!InquiryStatus, Usual!Sponsors!SponsorMoves,
   Usual!Sponsors!SponsorStatus, Usual!Sponsors!DeliverableMoves, Usual!Sponsors!DeliverableStatus,
   Usual!Sponsors!Working, Usual!Sponsors!LeadMoves, Usual!Sponsors!LeadStatus, Usual!Sponsors!Consent,
   Usual!Sponsors!NoLead, Usual!Sponsors!Lead, Usual!Sponsors!Deliverable, Usual!Sponsors!Idle,
   Usual!Sponsors!TypeOK, Usual!Sponsors!Init, Usual!Sponsors!Begin, Usual!Sponsors!Finish,
   Usual!Sponsors!LoadInquiry, Usual!Sponsors!Review, Usual!Sponsors!MayAssign, Usual!Sponsors!AssignSponsor,
   Usual!Sponsors!LoadSponsor, Usual!Sponsors!UpdateSponsor, Usual!Sponsors!CreateDeliverable,
   Usual!Sponsors!LoadDeliverable, Usual!Sponsors!UpdateDeliverable, Usual!Sponsors!Engaged,
   Usual!Sponsors!MayCapture, Usual!Sponsors!Capture, Usual!Sponsors!LoadLead, Usual!Sponsors!WriteLead,
   Usual!Sponsors!UpdateLeadStatus, Usual!Sponsors!GiveConsent, Usual!Sponsors!WithdrawConsent, Usual!Sponsors!Abort,
   Usual!Sponsors!Next, Usual!Sponsors!SponsoredOnce, Usual!Sponsors!ConsentRespected,
   Usual!Sponsors!CompletionDated, Usual!Sponsors!SponsorshipAgrees, Events, Kinds, Sessions

\* The invariant of the sponsors in the run.
LEMMA SponsorPart ==
    /\ part = "sponsors" /\ Init => Usual!SponsorInv
    /\ part = "sponsors" /\ Usual!SponsorInv /\ [Next]_vars => Usual!SponsorInv'
    /\ Usual!SponsorInv => Sponsor!TypeOK /\ Sponsor!SponsorshipAgrees
<1>1. Usual!SponsorInv => Usual!Sponsors!TypeOK /\ Usual!Sponsors!SponsorshipAgrees
  BY Usual!SponsorTyped DEF Usual!SponsorInv
<1>2. part = "sponsors" /\ [Next]_vars => [Usual!Sponsors!Next]_Usual!Sponsors!vars
  BY SponsorSame DEF Next, vars, Sponsor!vars, Usual!Sponsors!vars
<1>3. part = "sponsors" /\ Init => Usual!Sponsors!Init BY SponsorSame DEF Init
<1> QED BY <1>1, <1>2, <1>3, SponsorSame, Usual!InitSponsor, Usual!SponsorNext

\* The rewards of the run are those of the theorems.
LEMMA ReferSame ==
    /\ Refer!Init => Usual!Rewards!Init
    /\ Refer!Next => Usual!Rewards!Next
    /\ Usual!Rewards!TypeOK => Refer!TypeOK
    /\ Usual!Rewards!RewardedOnce => Refer!RewardedOnce
BY Zenon
DEF Refer!Cardinality, Refer!NoReward, Refer!Idle, Refer!TypeOK, Refer!Init, Refer!To, Refer!MovePayment,
   Refer!MoveRegistration, Refer!ProfileRead, Refer!ProfileCreate, Refer!Track, Refer!Of, Refer!EvaluateStart,
   Refer!EvaluatePayment, Refer!Qualifying, Refer!EvaluateReward, Refer!EvaluateReferral, Refer!EvaluateCommit,
   Refer!Next, Refer!Issued, Refer!RewardedOnce, Usual!Rewards!Cardinality, Usual!Rewards!NoReward,
   Usual!Rewards!Idle, Usual!Rewards!TypeOK, Usual!Rewards!Init, Usual!Rewards!To, Usual!Rewards!MovePayment,
   Usual!Rewards!MoveRegistration, Usual!Rewards!ProfileRead, Usual!Rewards!ProfileCreate, Usual!Rewards!Track,
   Usual!Rewards!Of, Usual!Rewards!EvaluateStart, Usual!Rewards!EvaluatePayment, Usual!Rewards!Qualifying,
   Usual!Rewards!EvaluateReward, Usual!Rewards!EvaluateReferral, Usual!Rewards!EvaluateCommit, Usual!Rewards!Next,
   Usual!Rewards!Issued, Usual!Rewards!RewardedOnce, Registrations, Rows, Sessions

\* The invariant of the rewards in the run.
LEMMA ReferPart ==
    /\ part = "referrals" /\ Init => Usual!RewardInv
    /\ part = "referrals" /\ Usual!RewardInv /\ [Next]_vars => Usual!RewardInv'
    /\ Usual!RewardInv => Refer!TypeOK /\ Refer!RewardedOnce
<1>1. Usual!FiniteRows
  BY FiniteModels
  DEF Usual!FiniteRows, Rows, IsFiniteSet, Usual!IsFiniteSet
<1>2. Usual!RewardInv => Usual!Rewards!TypeOK /\ Usual!Rewards!RewardedOnce
  BY <1>1, Usual!RewardOnce DEF Usual!RewardInv
<1>3. part = "referrals" /\ [Next]_vars => [Usual!Rewards!Next]_Usual!Rewards!vars
  BY ReferSame DEF Next, vars, Refer!vars, Usual!Rewards!vars
<1>4. part = "referrals" /\ Init => Usual!Rewards!Init BY ReferSame DEF Init
<1> QED BY <1>1, <1>2, <1>3, <1>4, ReferSame, Usual!InitReward, Usual!RewardNext

\* The incidents of the run are those of the theorems.
LEMMA ReportSame ==
    /\ Report!Init => Usual!Reports!Init
    /\ Report!Next => Usual!Reports!Next
    /\ Usual!Reports!TypeOK => Report!TypeOK
    /\ Usual!Reports!FollowedUp => Report!FollowedUp
BY Zenon
DEF Report!Cardinality, Report!Written, Report!Severity, Report!TRANSITIONS, Report!Status, Report!NoIncident,
   Report!Incident, Report!Idle, Report!TypeOK, Report!Init, Report!ChangeRoles, Report!CanEscalate, Report!Create,
   Report!UpdateRead, Report!Raised, Report!UpdateCommit, Report!UpdateFails, Report!Next, Report!FollowedUp,
   Usual!Reports!Cardinality, Usual!Reports!Written, Usual!Reports!Severity, Usual!Reports!TRANSITIONS,
   Usual!Reports!Status, Usual!Reports!NoIncident, Usual!Reports!Incident, Usual!Reports!Idle, Usual!Reports!TypeOK,
   Usual!Reports!Init, Usual!Reports!ChangeRoles, Usual!Reports!CanEscalate, Usual!Reports!Create,
   Usual!Reports!UpdateRead, Usual!Reports!Raised, Usual!Reports!UpdateCommit, Usual!Reports!UpdateFails,
   Usual!Reports!Next, Usual!Reports!FollowedUp, Staff, Sessions

\* The invariant of the incidents in the run.
LEMMA ReportPart ==
    /\ part = "incidents" /\ Init => Usual!IncidentInv
    /\ part = "incidents" /\ Usual!IncidentInv /\ [Next]_vars => Usual!IncidentInv'
    /\ Usual!IncidentInv => Report!TypeOK /\ Report!FollowedUp
<1>1. Usual!FiniteStaff
  BY FiniteModels
  DEF Usual!FiniteStaff, Staff, IsFiniteSet, Usual!IsFiniteSet
<1>2. Usual!IncidentInv => Usual!Reports!TypeOK /\ Usual!Reports!FollowedUp
  BY <1>1, Usual!IncidentMeans DEF Usual!IncidentInv
<1>3. part = "incidents" /\ [Next]_vars => [Usual!Reports!Next]_Usual!Reports!vars
  BY ReportSame DEF Next, vars, Report!vars, Usual!Reports!vars
<1>4. part = "incidents" /\ Init => Usual!Reports!Init BY ReportSame DEF Init
<1> QED BY <1>1, <1>2, <1>3, <1>4, ReportSame, Usual!InitIncident, Usual!StepIncident

\* The requests for assistance of the run are those of the theorems.
LEMMA HelpSame ==
    /\ Help!Init => Usual!Helps!Init
    /\ Help!Next => Usual!Helps!Next
    /\ Usual!Helps!TypeOK => Help!TypeOK
    /\ Usual!Helps!WaiverGranted => Help!WaiverGranted
BY Zenon
DEF Help!Written, Help!NoRequest, Help!Request, Help!Idle, Help!TypeOK, Help!Init, Help!ChangeTeam, Help!CreateCheck,
   Help!CreateCommit, Help!Undecided, Help!DecideRead, Help!Approve, Help!Reject, Help!DecideFails, Help!Next,
   Help!WaiverGranted, Usual!Helps!Written, Usual!Helps!NoRequest, Usual!Helps!Request, Usual!Helps!Idle,
   Usual!Helps!TypeOK, Usual!Helps!Init, Usual!Helps!ChangeTeam, Usual!Helps!CreateCheck, Usual!Helps!CreateCommit,
   Usual!Helps!Undecided, Usual!Helps!DecideRead, Usual!Helps!Approve, Usual!Helps!Reject, Usual!Helps!DecideFails,
   Usual!Helps!Next, Usual!Helps!WaiverGranted, Reviewers, Amounts, NoCode, Sessions

\* The invariant of the requests for assistance in the run.
LEMMA HelpPart ==
    /\ part = "assistance" /\ Init => Usual!ReviewInv
    /\ part = "assistance" /\ Usual!ReviewInv /\ [Next]_vars => Usual!ReviewInv'
    /\ Usual!ReviewInv => Help!TypeOK /\ Help!WaiverGranted
<1>1. Usual!Waivers
  BY ModelValues
  DEF Usual!Waivers, Amounts, NoCode
<1>2. Usual!ReviewInv => Usual!Helps!TypeOK /\ Usual!Helps!WaiverGranted
  BY <1>1 DEF Usual!ReviewInv
<1>3. part = "assistance" /\ [Next]_vars => [Usual!Helps!Next]_Usual!Helps!vars
  BY HelpSame DEF Next, vars, Help!vars, Usual!Helps!vars
<1>4. part = "assistance" /\ Init => Usual!Helps!Init BY HelpSame DEF Init
<1> QED BY <1>1, <1>2, <1>3, <1>4, HelpSame, Usual!InitReview, Usual!StepReview

\* The notifications of the run are those of the theorems.
LEMMA OutboxSame ==
    /\ Outbox!Init => Usual!Pushes!Init
    /\ Outbox!Next => Usual!Pushes!Next
    /\ Usual!Pushes!TypeOK => Outbox!TypeOK
    /\ Usual!Pushes!OncePerKey => Outbox!OncePerKey
    /\ Usual!Pushes!SentIsReceived => Outbox!SentIsReceived
BY Zenon
DEF Outbox!None, Outbox!Note, Outbox!Idle, Outbox!TypeOK, Outbox!Init, Outbox!Window, Outbox!UpdatePreferences,
   Outbox!RegisterDevice, Outbox!RemoveDevice, Outbox!RowsWith, Outbox!Queued, Outbox!ScheduleRead, Outbox!Existing,
   Outbox!Read, Outbox!ScheduleCreate, Outbox!SendCommit, Outbox!SendEnqueue, Outbox!GivesUp, Outbox!Walk,
   Outbox!TakeBatch, Outbox!ReadNext, Outbox!Afterwards, Outbox!BatchDone, Outbox!Skip, Outbox!Attempt,
   Outbox!Outcome, Outbox!Fail, Outbox!PushTaken, Outbox!PushRejected, Outbox!PushFailed, Outbox!Delivered,
   Outbox!Sent, Outbox!Unsent, Outbox!LoseWorker, Outbox!Proceed, Outbox!Tick, Outbox!Next, Outbox!OncePerKey,
   Outbox!SentIsReceived, Usual!Pushes!None, Usual!Pushes!Note, Usual!Pushes!Idle, Usual!Pushes!TypeOK,
   Usual!Pushes!Init, Usual!Pushes!Window, Usual!Pushes!UpdatePreferences, Usual!Pushes!RegisterDevice,
   Usual!Pushes!RemoveDevice, Usual!Pushes!RowsWith, Usual!Pushes!Queued, Usual!Pushes!ScheduleRead,
   Usual!Pushes!Existing, Usual!Pushes!Read, Usual!Pushes!ScheduleCreate, Usual!Pushes!SendCommit,
   Usual!Pushes!SendEnqueue, Usual!Pushes!GivesUp, Usual!Pushes!Walk, Usual!Pushes!TakeBatch, Usual!Pushes!ReadNext,
   Usual!Pushes!Afterwards, Usual!Pushes!BatchDone, Usual!Pushes!Skip, Usual!Pushes!Attempt, Usual!Pushes!Outcome,
   Usual!Pushes!Fail, Usual!Pushes!PushTaken, Usual!Pushes!PushRejected, Usual!Pushes!PushFailed,
   Usual!Pushes!Delivered, Usual!Pushes!Sent, Usual!Pushes!Unsent, Usual!Pushes!LoseWorker, Usual!Pushes!Proceed,
   Usual!Pushes!Tick, Usual!Pushes!Next, Usual!Pushes!OncePerKey, Usual!Pushes!SentIsReceived, Rows, Keys, NoKey,
   Devices, Workers, MaxAttempts, MaxRetries, MaxLosses

\* The invariant of the notifications in the run.
LEMMA OutboxPart ==
    /\ part = "outbox" /\ Init => Usual!DeliveryInv
    /\ part = "outbox" /\ Usual!DeliveryInv /\ [Next]_vars => Usual!DeliveryInv'
    /\ Usual!DeliveryInv => Outbox!TypeOK /\ Outbox!OncePerKey /\ Outbox!SentIsReceived
<1>1. Usual!Attempts
  BY ModelValues
  DEF Usual!Attempts, Keys, NoKey, MaxAttempts, MaxLosses
<1>2. Usual!DeliveryInv => Usual!Pushes!TypeOK /\ Usual!Pushes!OncePerKey /\ Usual!Pushes!SentIsReceived
  BY <1>1, Usual!DeliveryTyped DEF Usual!DeliveryInv
<1>3. part = "outbox" /\ [Next]_vars => [Usual!Pushes!Next]_Usual!Pushes!vars
  BY OutboxSame DEF Next, vars, Outbox!vars, Usual!Pushes!vars
<1>4. part = "outbox" /\ Init => Usual!Pushes!Init BY OutboxSame DEF Init
<1> QED BY <1>1, <1>2, <1>3, <1>4, OutboxSame, Usual!InitDelivery, Usual!DeliveryNext

Listed == INSTANCE Programme_proofs WITH
    Keys <- Xs \cup {alpha}, Events <- {alpha}, Ids <- Ys, sess <- v1, late <- v2, main <- v3, sub <- v4,
    event <- v5, row <- v3, open <- v4, item <- v2, image <- v3, object <- v4

\* The categories of the run are those of the theorems.
LEMMA FileSame ==
    /\ File!Init => Listed!Shelf!Init
    /\ File!Next => Listed!Shelf!Next
    /\ Listed!Shelf!TypeOK => File!TypeOK
    /\ Listed!Shelf!Filed => File!Filed
BY Zenon
DEF File!States, File!Event, File!NoEvent, File!Idle, File!TypeOK, File!Init, File!To, File!Exists, File!Under,
   File!InUse, File!SubRead, File!SubCommit, File!SetActive, File!Deleted, File!Undeleted, File!DeleteMain,
   File!DeleteSub, File!FileRead, File!FileCommit, File!Publish, File!DeleteEvent, File!Next, File!Filed,
   Listed!Shelf!States, Listed!Shelf!Event, Listed!Shelf!NoEvent, Listed!Shelf!Idle, Listed!Shelf!TypeOK,
   Listed!Shelf!Init, Listed!Shelf!To, Listed!Shelf!Exists, Listed!Shelf!Under, Listed!Shelf!InUse,
   Listed!Shelf!SubRead, Listed!Shelf!SubCommit, Listed!Shelf!SetActive, Listed!Shelf!Deleted,
   Listed!Shelf!Undeleted, Listed!Shelf!DeleteMain, Listed!Shelf!DeleteSub, Listed!Shelf!FileRead,
   Listed!Shelf!FileCommit, Listed!Shelf!Publish, Listed!Shelf!DeleteEvent, Listed!Shelf!Next, Listed!Shelf!Filed,
   Mains, Subs, Sessions

\* The invariant of the categories in the run.
LEMMA FilePart ==
    /\ part = "catalog" /\ Init => Listed!ShelfInv
    /\ part = "catalog" /\ Listed!ShelfInv /\ [Next]_vars => Listed!ShelfInv'
    /\ Listed!ShelfInv => File!TypeOK /\ File!Filed
<1>1. Listed!ShelfInv => Listed!Shelf!TypeOK /\ Listed!Shelf!Filed
  BY Listed!ShelfFiled DEF Listed!ShelfInv
<1>2. part = "catalog" /\ [Next]_vars => [Listed!Shelf!Next]_Listed!Shelf!vars
  BY FileSame DEF Next, vars, File!vars, Listed!Shelf!vars
<1>3. part = "catalog" /\ Init => Listed!Shelf!Init BY FileSame DEF Init
<1> QED BY <1>1, <1>2, <1>3, FileSame, Listed!InitShelf, Listed!ShelfNext

\* The unique rows of the run are those of the theorems.
LEMMA RowSame ==
    /\ Row!Init => Listed!Uniques!Init
    /\ Row!Next => Listed!Uniques!Next
    /\ Listed!Uniques!TypeOK => Row!TypeOK
    /\ Listed!Uniques!OnceEach => Row!OnceEach
BY Zenon
DEF Row!Cardinality, Row!Kinds, Row!Constrained, Row!Movable, Row!Deletable, Row!Row, Row!NoRow, Row!Gone, Row!Idle,
   Row!TypeOK, Row!Init, Row!To, Row!Having, Row!GoLive, Row!Look, Row!Unique, Row!Create, Row!Rate, Row!LookMove,
   Row!Move, Row!Delete, Row!Fails, Row!Next, Row!OnceEach, Listed!Uniques!Cardinality, Listed!Uniques!Kinds,
   Listed!Uniques!Constrained, Listed!Uniques!Movable, Listed!Uniques!Deletable, Listed!Uniques!Row,
   Listed!Uniques!NoRow, Listed!Uniques!Gone, Listed!Uniques!Idle, Listed!Uniques!TypeOK, Listed!Uniques!Init,
   Listed!Uniques!To, Listed!Uniques!Having, Listed!Uniques!GoLive, Listed!Uniques!Look, Listed!Uniques!Unique,
   Listed!Uniques!Create, Listed!Uniques!Rate, Listed!Uniques!LookMove, Listed!Uniques!Move, Listed!Uniques!Delete,
   Listed!Uniques!Fails, Listed!Uniques!Next, Listed!Uniques!OnceEach, Sessions

\* The invariant of the unique rows in the run.
LEMMA RowPart ==
    /\ part = "rows" /\ Init => Listed!RowsInv
    /\ part = "rows" /\ Listed!RowsInv /\ [Next]_vars => Listed!RowsInv'
    /\ Listed!RowsInv => Row!TypeOK /\ Row!OnceEach
<1>1. Listed!RowsInv => Listed!Uniques!TypeOK /\ Listed!Uniques!OnceEach
  BY Listed!RowsOnce DEF Listed!RowsInv
<1>2. part = "rows" /\ [Next]_vars => [Listed!Uniques!Next]_Listed!Uniques!vars
  BY RowSame DEF Next, vars, Row!vars, Listed!Uniques!vars
<1>3. part = "rows" /\ Init => Listed!Uniques!Init BY RowSame DEF Init
<1> QED BY <1>1, <1>2, <1>3, RowSame, Listed!InitRows, Listed!StepRows

\* The stored files of the run are those of the theorems.
LEMMA FilesSame ==
    /\ Files!Init => Listed!Files!Init
    /\ Files!Next => Listed!Files!Next
    /\ Listed!Files!TypeOK => Files!TypeOK
    /\ Listed!Files!ShownIsStored => Files!ShownIsStored
BY Zenon
DEF Files!Written, Files!NoItem, Files!Item, Files!Idle, Files!TypeOK, Files!Init, Files!Go, Files!Store,
   Files!Delete, Files!Fails, Files!BeginImage, Files!UploadImage, Files!AfterCommit, Files!CommitImage,
   Files!CommitRemoval, Files!RemoveOld, Files!UploadItem, Files!CommitItem, Files!BeginPublish, Files!CommitPublish,
   Files!Next, Files!ShownIsStored, Listed!Files!Written, Listed!Files!NoItem, Listed!Files!Item, Listed!Files!Idle,
   Listed!Files!TypeOK, Listed!Files!Init, Listed!Files!Go, Listed!Files!Store, Listed!Files!Delete,
   Listed!Files!Fails, Listed!Files!BeginImage, Listed!Files!UploadImage, Listed!Files!AfterCommit,
   Listed!Files!CommitImage, Listed!Files!CommitRemoval, Listed!Files!RemoveOld, Listed!Files!UploadItem,
   Listed!Files!CommitItem, Listed!Files!BeginPublish, Listed!Files!CommitPublish, Listed!Files!Next,
   Listed!Files!ShownIsStored, NoKey, Managers, Nobody, Sessions

\* The invariant of the stored files in the run.
LEMMA FilesPart ==
    /\ part = "files" /\ Init => Listed!FilesInv
    /\ part = "files" /\ Listed!FilesInv /\ [Next]_vars => Listed!FilesInv'
    /\ Listed!FilesInv => Files!TypeOK /\ Files!ShownIsStored
<1>1. none \notin Xs \cup {alpha} BY ModelValues
<1>2. Listed!FilesInv => Listed!Files!TypeOK /\ Listed!Files!ShownIsStored
  BY <1>1 DEF Listed!FilesInv
<1>3. part = "files" /\ [Next]_vars => [Listed!Files!Next]_Listed!Files!vars
  BY FilesSame DEF Next, vars, Files!vars, Listed!Files!vars
<1>4. part = "files" /\ Init => Listed!Files!Init BY FilesSame DEF Init
<1> QED BY <1>1, <1>2, <1>3, <1>4, FilesSame, Listed!InitFiles, Listed!FilesStep DEF NoKey

Copied == INSTANCE Programme_proofs WITH
    Venues <- {alpha, beta}, Items <- {none}, Sessions <- {alpha}, sess <- v1, source <- v2, template <- v3,
    copy <- v4

\* The copies of events of the run are those of the theorems.
LEMMA CopyingSame ==
    /\ Copying!Init => Copied!Templates!Init
    /\ Copying!Next => Copied!Templates!Next
    /\ Copied!Templates!TypeOK => Copying!TypeOK
    /\ Copied!Templates!CopyStaysRestricted => Copying!CopyStaysRestricted
    /\ Copied!Templates!CopyKeepsVenues => Copying!CopyKeepsVenues
BY Zenon
DEF Copying!Anywhere, Copying!Absent, Copying!NoPolicies, Copying!Unread, Copying!Idle, Copying!NoTemplate,
   Copying!NoCopy, Copying!Schedules, Copying!Policies, Copying!Snapshots, Copying!TypeOK, Copying!Init,
   Copying!Configure, Copying!AddVenue, Copying!Schedule, Copying!CancelItem, Copying!CreateZone, Copying!OwnZones,
   Copying!UpsertPolicy, Copying!DeleteEvent, Copying!Read, Copying!ReadVenues, Copying!Torn, Copying!ReadItems,
   Copying!ReadZones, Copying!ReadPolicies, Copying!Finish, Copying!CreateTemplate, Copying!ArchiveTemplate,
   Copying!DeleteTemplate, Copying!Clone, Copying!Create, Copying!DuplicateEvent, Copying!CreateFromTemplate,
   Copying!Fails, Copying!Next, Copying!CopyStaysRestricted, Copying!CopyKeepsVenues, Copied!Templates!Anywhere,
   Copied!Templates!Absent, Copied!Templates!NoPolicies, Copied!Templates!Unread, Copied!Templates!Idle,
   Copied!Templates!NoTemplate, Copied!Templates!NoCopy, Copied!Templates!Schedules, Copied!Templates!Policies,
   Copied!Templates!Snapshots, Copied!Templates!TypeOK, Copied!Templates!Init, Copied!Templates!Configure,
   Copied!Templates!AddVenue, Copied!Templates!Schedule, Copied!Templates!CancelItem, Copied!Templates!CreateZone,
   Copied!Templates!OwnZones, Copied!Templates!UpsertPolicy, Copied!Templates!DeleteEvent, Copied!Templates!Read,
   Copied!Templates!ReadVenues, Copied!Templates!Torn, Copied!Templates!ReadItems, Copied!Templates!ReadZones,
   Copied!Templates!ReadPolicies, Copied!Templates!Finish, Copied!Templates!CreateTemplate,
   Copied!Templates!ArchiveTemplate, Copied!Templates!DeleteTemplate, Copied!Templates!Clone,
   Copied!Templates!Create, Copied!Templates!DuplicateEvent, Copied!Templates!CreateFromTemplate,
   Copied!Templates!Fails, Copied!Templates!Next, Copied!Templates!CopyStaysRestricted,
   Copied!Templates!CopyKeepsVenues, Borrowed, NoVenue, Zones, Types, Copies

\* The invariant of the copies of events in the run.
LEMMA CopyingPart ==
    /\ part = "copies" /\ Init => Copied!TemplateInv /\ Copied!SiteInv
    /\ part = "copies" /\ Copied!TemplateInv /\ Copied!SiteInv /\ [Next]_vars =>
          Copied!TemplateInv' /\ Copied!SiteInv'
    /\ Copied!TemplateInv /\ Copied!SiteInv =>
          Copying!TypeOK /\ Copying!CopyStaysRestricted /\ Copying!CopyKeepsVenues
<1>1. Copied!TemplateInv /\ Copied!SiteInv =>
      Copied!Templates!TypeOK /\ Copied!Templates!CopyStaysRestricted /\ Copied!Templates!CopyKeepsVenues
  BY Copied!CopyRestricted, Copied!CopySited DEF Copied!SiteInv
<1>2. part = "copies" /\ [Next]_vars => [Copied!Templates!Next]_Copied!Templates!vars
  BY CopyingSame DEF Next, vars, Copying!vars, Copied!Templates!vars
<1>3. part = "copies" /\ Init => Copied!Templates!Init BY CopyingSame DEF Init
<1> QED BY <1>1, <1>2, <1>3, CopyingSame, Copied!InitTemplate, Copied!SitesStart, Copied!TemplateStep, Copied!SiteNext

(***************************************************************************)
(* The run: one component at a time, with its invariant.                   *)
(***************************************************************************)
ProgrammeInv ==
    /\ part \in {"votes", "fixtures", "reports", "gate", "entry", "team", "venues", "awards", "sponsors",
                 "referrals", "incidents", "assistance", "outbox", "catalog", "rows", "files", "copies"}
    /\ part = "votes" => Voted!ContestInv /\ Voted!Contests!VoteCarriesOver
    /\ part = "fixtures" => Played!ContestInv
    /\ part = "reports" => Held!ReportInv
    /\ part = "gate" => Held!GateInv
    /\ part = "entry" => Held!EligibilityInv
    /\ part = "team" => Usual!RosterInv
    /\ part = "venues" => Usual!VenueInv
    /\ part = "awards" => Usual!AwardInv /\ Usual!CountersOK
    /\ part = "sponsors" => Usual!SponsorInv
    /\ part = "referrals" => Usual!RewardInv
    /\ part = "incidents" => Usual!IncidentInv
    /\ part = "assistance" => Usual!ReviewInv
    /\ part = "outbox" => Usual!DeliveryInv
    /\ part = "catalog" => Listed!ShelfInv
    /\ part = "rows" => Listed!RowsInv
    /\ part = "files" => Listed!FilesInv
    /\ part = "copies" => Copied!TemplateInv /\ Copied!SiteInv

\* The component that runs begins with its invariant.
LEMMA ProgrammeInit == Init => ProgrammeInv
BY VotePart, CupPart, FiguresPart, GatePart, EntryPart, TeamPart, VenuePart, AwardPart, SponsorPart, ReferPart,
   ReportPart, HelpPart, OutboxPart, FilePart, RowPart, FilesPart, CopyingPart
DEF Init, ProgrammeInv

\* The component that runs keeps its invariant, and the others do not run.
LEMMA ProgrammeStep == ProgrammeInv /\ [Next]_vars => ProgrammeInv'
<1>1. [Next]_vars => part' = part BY DEF Next, vars
<1> QED
  BY <1>1, VotePart, CupPart, FiguresPart, GatePart, EntryPart, TeamPart, VenuePart, AwardPart, SponsorPart, ReferPart,
     ReportPart, HelpPart, OutboxPart, FilePart, RowPart, FilesPart, CopyingPart
  DEF ProgrammeInv

\* In every reachable state the component that runs has its invariant.
LEMMA ProgrammeInvariant == Spec => []ProgrammeInv
BY ProgrammeInit, ProgrammeStep, PTL DEF Spec

\* The rows of the programme's components, and what their requests remember,
\* always have the values their handlers write.
THEOREM ProgrammeIsTyped == Spec => []ProgrammeTypeOK
<1>1. ProgrammeInv => ProgrammeTypeOK
  BY VotePart, CupPart, FiguresPart, GatePart, EntryPart, TeamPart, VenuePart, AwardPart, SponsorPart, ReferPart,
     ReportPart, HelpPart, OutboxPart, FilePart, RowPart, FilesPart, CopyingPart
  DEF ProgrammeInv, ProgrammeTypeOK
<1> QED BY <1>1, ProgrammeInvariant, PTL

\* Whatever invitations, requests to join, removals and submissions overlap,
\* nobody is in a team or in what it submits without having agreed, and what
\* it submits has an allowed size.
THEOREM RostersFit == Spec => []RosterFits
<1>1. ProgrammeInv => RosterFits
  BY TeamPart DEF ProgrammeInv, RosterFits
<1> QED BY <1>1, ProgrammeInvariant, PTL

\* Two items whose overlap nobody has edited away do not share a venue, whoever
\* plans and edits them at once.
THEOREM SeparateEditsStayApart == Spec => []SeparateEditsKeepApart
<1>1. ProgrammeInv => SeparateEditsKeepApart
  BY VenuePart DEF ProgrammeInv, SeparateEditsKeepApart
<1> QED BY <1>1, ProgrammeInvariant, PTL

\* Registrations enter once, the vote that reaches the threshold carries its
\* entry over, and the table balances, however votes, decisions and results
\* overlap.
THEOREM CompetitionsAreFair == Spec => []CompetitionFair
<1>1. ProgrammeInv => CompetitionFair
  BY VotePart, CupPart DEF ProgrammeInv, CompetitionFair
<1> QED BY <1>1, ProgrammeInvariant, PTL

\* Nobody holds one certificate or badge twice, whoever issues and revokes it.
THEOREM AwardsStaySingle == Spec => []OneActiveAward
<1>1. ProgrammeInv => OneActiveAward
  BY AwardPart DEF ProgrammeInv, OneActiveAward
<1> QED BY <1>1, ProgrammeInvariant, PTL

\* Rows that were not written from an old copy agree: one sponsor per inquiry,
\* no lead against the participant's consent, dates while a deliverable is
\* completed.
THEOREM SponsorshipsAgree == Spec => []SponsorshipAgrees
<1>1. ProgrammeInv => SponsorshipAgrees
  BY SponsorPart DEF ProgrammeInv, SponsorshipAgrees
<1> QED BY <1>1, ProgrammeInvariant, PTL

\* A referred registration earns one reward, however many evaluations overlap.
THEOREM RewardsAreEarnedOnce == Spec => []RewardedOnce
<1>1. ProgrammeInv => RewardedOnce
  BY ReferPart DEF ProgrammeInv, RewardedOnce
<1> QED BY <1>1, ProgrammeInvariant, PTL

\* Critical incidents have been told, waivers are what was granted, the preview
\* is the gate's verdict, and whoever entered met the rules.
THEOREM DesksHold == Spec => []DeskHolds
<1>1. ProgrammeInv => DeskHolds
  BY ReportPart, HelpPart, GatePart, EntryPart DEF ProgrammeInv, DeskHolds
<1> QED BY <1>1, ProgrammeInvariant, PTL

\* Unique rows are single, events are filed, reports do not overstate, copies
\* are as restricted as the event, and shown pictures are stored.
THEOREM RecordsAreKept == Spec => []RecordsHold
<1>1. ProgrammeInv => RecordsHold
  BY RowPart, FilePart, FiguresPart, CopyingPart, FilesPart DEF ProgrammeInv, RecordsHold
<1> QED BY <1>1, ProgrammeInvariant, PTL

\* One notification per dedupe key, and none is "sent" that no device was sent,
\* whichever workers run at once or are lost.
THEOREM DeliveriesAreOnce == Spec => []OutboxHolds
<1>1. ProgrammeInv => OutboxHolds
  BY OutboxPart DEF ProgrammeInv, OutboxHolds
<1> QED BY <1>1, ProgrammeInvariant, PTL
===============================================================================
