--------------------------- MODULE MCPeople_proofs ---------------------------
(***************************************************************************)
(* The invariants of the run People, for every set of requests, of shifts, *)
(* assignments, tokens and addresses, of roles and volunteers, and of      *)
(* administrators and accounts.  Each component brings the inductive       *)
(* invariant of its own theorems; here they are put together.              *)
(***************************************************************************)
EXTENDS MCPeople, FiniteSetTheorems, TLAPS

(***************************************************************************)
(* The components with their theorems.  People_proofs declares what all of *)
(* them use; the names an instance does not give are given here, and play  *)
(* no part in what it says of its component.                               *)
(***************************************************************************)
MaxTime == 0
Users == Zs
Sessions == Ss
Admins == Zs
People == {ann}
Posts == {gate}
VolunteerPost == gate
Assignments == Xs
Roles == Ys
NoRole == none
NoAssignment == none
Nobody == none
Shifts == Xs
Volunteers == Ys
Slots == {<<0, 1>>}
Counts == {1, 2}
Cooldown == 1
Expiry == 2
MaxAttempts == 2
MaxCodes == 3
Pairs == Xs
Second == 2
AccessLife == 1
RefreshLife == 2
Emails == Xs
NoEmail == none
Managers == {ann}
Voters == {ann}
Options == Xs
MaxSelections == 1
MayChange == TRUE
StartsAt == 1
EndsAt == 2

sess == v1
now == v1
late == v1
asg == v1
code == v1
enabled == v1
issued == v1
active == v1
manager == v1
organizer == v1
deleted == v1
role == v1
app == v1
shift == v1
att == v1
codeEnd == v1
wrong == v1
wrongEnd == v1
coolEnd == v1
claimed == v1
tooSoon == v1
spent == v1
reused == v1
gone == v1
account == v1
proved == v1
raced == v1
conn == v1
eligible == v1
visible == v1
wanted == v1
poll == v1
ballot == v1
shown == v1
question == v1
upvotes == v1

StaffP == INSTANCE People_proofs WITH
    active <- v1, manager <- v2, organizer <- v3, deleted <- v4, role <- v5, asg <- v6, app <- v7, sess <- v8
ShiftP == INSTANCE People_proofs WITH
    MaxTime <- 1, shift <- v1, asg <- v2, att <- v3, sess <- v4, now <- v5
CodeP == INSTANCE People_proofs WITH
    MaxTime <- 3, code <- v1, codeEnd <- v2, wrong <- v3, wrongEnd <- v4, coolEnd <- v5, enabled <- v6, issued <- v7,
    claimed <- v8, tooSoon <- v9, spent <- v10, reused <- v11, sess <- v12, now <- v13
NetworkP == INSTANCE People_proofs WITH
    Users <- {ann, bob}, conn <- v1, eligible <- v2, visible <- v3, wanted <- v4, late <- v5, sess <- v6
PollP == INSTANCE People_proofs WITH
    MaxTime <- 2, poll <- v1, ballot <- v2, shown <- v3, question <- v4, upvotes <- v5, sess <- v6, late <- v7,
    now <- v8
LoginP == INSTANCE People_proofs WITH
    MaxTime <- 4, issued <- v1, gone <- v2, enabled <- v3, late <- v4, sess <- v5, now <- v6
MailP == INSTANCE People_proofs WITH
    Users <- Zs, account <- v1, code <- v2, proved <- v3, raced <- v4, sess <- v5
TicketP == INSTANCE TicketPass_proofs WITH
    Tickets <- {gate}, Users <- Ys \cup {ann}, Buyer <- [t \in {gate} |-> ann], Types <- {none}, General <- none,
    Limits <- {1}, Transfers <- Xs, Keys <- {}, NoKey <- none, Sessions <- {ann}, MaxCodes <- 1,
    tk <- v1, valid <- v2, limit <- v3, rows <- v4, xf <- v5, sess <- v6

(***************************************************************************)
(* Each component: the instance that is checked is the instance that is    *)
(* proved, and so its invariant holds at the start, lasts, and says what   *)
(* is checked.                                                             *)
(***************************************************************************)
\* The staff assignments of the run are those of the theorems.
LEMMA StaffSame ==
    /\ Staff!Init => StaffP!Staffs!Init
    /\ Staff!Next => StaffP!Staffs!Next
    /\ StaffP!Staffs!TypeOK => Staff!TypeOK
    /\ StaffP!Staffs!OneManager => Staff!OneManager
    /\ StaffP!Staffs!AnAdminRemains => Staff!AnAdminRemains
    /\ StaffP!Staffs!ActiveStaffCanWork => Staff!ActiveStaffCanWork
BY
DEF Staff!Users, Staff!None, Staff!Idle, Staff!Init, Staff!ReviewMoves, Staff!Reviewed, Staff!ActiveRole, Staff!Holds,
   Staff!Manages, Staff!Permitted, Staff!Begin, Staff!Finish, Staff!Tables, Staff!Abort, Staff!Designate,
   Staff!RolesOf, Staff!CanManageAccount, Staff!SetActive, Staff!ReplaceManagers, Staff!SetManager,
   Staff!DeleteEvent, Staff!Unanswered, Staff!Conflict, Staff!InviteLoad, Staff!InviteCommit, Staff!Grant,
   Staff!AcceptLoad, Staff!AcceptCommit, Staff!LinkRevoked, Staff!RevokeLoad, Staff!RevokeCommit, Staff!ReassignLoad,
   Staff!ReassignCommit, Staff!Apply, Staff!ReviewLoad, Staff!ReviewCommit, Staff!ActivateLoad, Staff!ActivateInvite,
   Staff!ActivateAccept, Staff!ActivateRecord, Staff!AccountStep, Staff!StaffStep, Staff!VolunteerStep, Staff!Next,
   Staff!Role, Staff!Assignment, Staff!Application, Staff!Asking, Staff!TypeOK, Staff!OneManager,
   Staff!AnAdminRemains, Staff!ActiveStaffCanWork, StaffP!Staffs!Users, StaffP!Staffs!None, StaffP!Staffs!Idle,
   StaffP!Staffs!Init, StaffP!Staffs!ReviewMoves, StaffP!Staffs!Reviewed, StaffP!Staffs!ActiveRole,
   StaffP!Staffs!Holds, StaffP!Staffs!Manages, StaffP!Staffs!Permitted, StaffP!Staffs!Begin, StaffP!Staffs!Finish,
   StaffP!Staffs!Tables, StaffP!Staffs!Abort, StaffP!Staffs!Designate, StaffP!Staffs!RolesOf,
   StaffP!Staffs!CanManageAccount, StaffP!Staffs!SetActive, StaffP!Staffs!ReplaceManagers, StaffP!Staffs!SetManager,
   StaffP!Staffs!DeleteEvent, StaffP!Staffs!Unanswered, StaffP!Staffs!Conflict, StaffP!Staffs!InviteLoad,
   StaffP!Staffs!InviteCommit, StaffP!Staffs!Grant, StaffP!Staffs!AcceptLoad, StaffP!Staffs!AcceptCommit,
   StaffP!Staffs!LinkRevoked, StaffP!Staffs!RevokeLoad, StaffP!Staffs!RevokeCommit, StaffP!Staffs!ReassignLoad,
   StaffP!Staffs!ReassignCommit, StaffP!Staffs!Apply, StaffP!Staffs!ReviewLoad, StaffP!Staffs!ReviewCommit,
   StaffP!Staffs!ActivateLoad, StaffP!Staffs!ActivateInvite, StaffP!Staffs!ActivateAccept,
   StaffP!Staffs!ActivateRecord, StaffP!Staffs!AccountStep, StaffP!Staffs!StaffStep, StaffP!Staffs!VolunteerStep,
   StaffP!Staffs!Next, StaffP!Staffs!Role, StaffP!Staffs!Assignment, StaffP!Staffs!Application, StaffP!Staffs!Asking,
   StaffP!Staffs!TypeOK, StaffP!Staffs!OneManager, StaffP!Staffs!AnAdminRemains, StaffP!Staffs!ActiveStaffCanWork,
   Admins, People, Posts, VolunteerPost, Assignments, Roles, NoRole, NoAssignment, Nobody, Sessions

\* The invariant of the staff assignments in the run.
LEMMA StaffPart ==
    /\ Staff!Init => StaffP!StaffInv
    /\ StaffP!StaffInv /\ [Staff!Next]_Staff!vars => StaffP!StaffInv'
    /\ StaffP!StaffInv => Staff!TypeOK /\ Staff!OneManager /\ Staff!AnAdminRemains /\ Staff!ActiveStaffCanWork
<1>1. StaffP!StaffWorld
  BY ModelValues
  DEF StaffP!StaffWorld, Admins, People, Posts, VolunteerPost, Assignments, Roles, NoRole, NoAssignment, Nobody,
      Sessions
<1>2. StaffP!StaffInv =>
      StaffP!Staffs!TypeOK /\ StaffP!Staffs!OneManager /\ StaffP!Staffs!AnAdminRemains /\ StaffP!Staffs!ActiveStaffCanWork
  BY <1>1, StaffP!LinksWork DEF StaffP!StaffInv
<1>3. [Staff!Next]_Staff!vars => [StaffP!Staffs!Next]_StaffP!Staffs!vars
  BY StaffSame DEF Staff!vars, StaffP!Staffs!vars
<1> QED BY <1>1, <1>2, <1>3, StaffSame, StaffP!InitStaff, StaffP!StaffKept

\* The volunteer shifts of the run are those of the theorems.
LEMMA ShiftSame ==
    /\ Shift!Init => ShiftP!Rota!Init
    /\ Shift!Next => ShiftP!Rota!Next
    /\ ShiftP!Rota!TypeOK => Shift!TypeOK
    /\ ShiftP!Rota!PlacesBounded => Shift!PlacesBounded
    /\ ShiftP!Rota!AttendanceIsFinal => Shift!AttendanceIsFinal
BY
DEF Shift!NoShift, Shift!Idle, Shift!Init, Shift!Cardinality, Shift!ShiftMoves, Shift!Managed, Shift!AssignmentMoves,
   Shift!Assignable, Shift!ShiftStatus, Shift!AssignmentStatus, Shift!Tick, Shift!ShiftFree, Shift!Assigned,
   Shift!Overlap, Shift!SyncedRow, Shift!CreateShift, Shift!UpdateShift, Shift!Request, Shift!Places,
   Shift!BeginApproval, Shift!AssignCheck, Shift!ApproveCheck, Shift!ApproveCommit, Shift!Abort, Shift!Move,
   Shift!MayArrive, Shift!CheckIn, Shift!CheckOut, Shift!NoShow, Shift!Next, Shift!AttendanceStatus, Shift!Shift,
   Shift!TypeOK, Shift!PlacesBounded, Shift!AttendanceIsFinal, ShiftP!Rota!NoShift, ShiftP!Rota!Idle,
   ShiftP!Rota!Init, ShiftP!Rota!Cardinality, ShiftP!Rota!ShiftMoves, ShiftP!Rota!Managed,
   ShiftP!Rota!AssignmentMoves, ShiftP!Rota!Assignable, ShiftP!Rota!ShiftStatus, ShiftP!Rota!AssignmentStatus,
   ShiftP!Rota!Tick, ShiftP!Rota!ShiftFree, ShiftP!Rota!Assigned, ShiftP!Rota!Overlap, ShiftP!Rota!SyncedRow,
   ShiftP!Rota!CreateShift, ShiftP!Rota!UpdateShift, ShiftP!Rota!Request, ShiftP!Rota!Places,
   ShiftP!Rota!BeginApproval, ShiftP!Rota!AssignCheck, ShiftP!Rota!ApproveCheck, ShiftP!Rota!ApproveCommit,
   ShiftP!Rota!Abort, ShiftP!Rota!Move, ShiftP!Rota!MayArrive, ShiftP!Rota!CheckIn, ShiftP!Rota!CheckOut,
   ShiftP!Rota!NoShow, ShiftP!Rota!Next, ShiftP!Rota!AttendanceStatus, ShiftP!Rota!Shift, ShiftP!Rota!TypeOK,
   ShiftP!Rota!PlacesBounded, ShiftP!Rota!AttendanceIsFinal, Shifts, Volunteers, Slots, Counts, Sessions

\* The invariant of the volunteer shifts in the run.
LEMMA ShiftPart ==
    /\ Shift!Init => ShiftP!RotaInv
    /\ ShiftP!RotaInv /\ [Shift!Next]_Shift!vars => ShiftP!RotaInv'
    /\ ShiftP!RotaInv /\ Shift!Next => Shift!AttendanceIsFinal
    /\ ShiftP!RotaInv => Shift!TypeOK /\ Shift!PlacesBounded
<1>1. ShiftP!FiniteRota
  <2>1. \A S : IsFiniteSet(S) <=> ShiftP!IsFiniteSet(S) BY DEF IsFiniteSet, ShiftP!IsFiniteSet
  <2> QED BY <2>1, ModelValues DEF ShiftP!FiniteRota, Shifts, Volunteers, Slots, Counts, Sessions
<1>2. ShiftP!RotaInv => ShiftP!Rota!TypeOK /\ ShiftP!Rota!PlacesBounded
  BY <1>1 DEF ShiftP!RotaInv
<1>3. [Shift!Next]_Shift!vars => [ShiftP!Rota!Next]_ShiftP!Rota!vars
  BY ShiftSame DEF Shift!vars, ShiftP!Rota!vars
<1> QED BY <1>1, <1>2, <1>3, ShiftSame, ShiftP!InitShifts, ShiftP!ShiftKept, ShiftP!AttendanceKept

\* The one-time codes of the run are those of the theorems.
LEMMA CodeSame ==
    /\ Code!Init => CodeP!Codes!Init
    /\ Code!Next => CodeP!Codes!Next
    /\ CodeP!Codes!TypeOK => Code!TypeOK
    /\ CodeP!Codes!OneCodePerCooldown => Code!OneCodePerCooldown
    /\ CodeP!Codes!AttemptsBounded => Code!AttemptsBounded
    /\ CodeP!Codes!SpentCodeIsDead => Code!SpentCodeIsDead
BY DEF Code!Idle, Code!Init, Code!Keys, Code!History, Code!Never, Code!Go, Code!Tick, Code!SetActive, Code!Abort,
   Code!Cooling, Code!RequestCode, Code!ClaimFree, Code!Claim, Code!StoreCode, Code!ForgiveAttempts, Code!MayAnswer,
   Code!ReadAttempts, Code!ReadCode, Code!CountWrong, Code!ExtendAttempts, Code!Cleared, Code!ClearCode, Code!SignIn,
   Code!Next, Code!Asking, Code!TypeOK, Code!OneCodePerCooldown, Code!Cardinality, Code!AttemptsBounded,
   Code!SpentCodeIsDead, CodeP!Codes!Idle, CodeP!Codes!Init, CodeP!Codes!Keys, CodeP!Codes!History,
   CodeP!Codes!Never, CodeP!Codes!Go, CodeP!Codes!Tick, CodeP!Codes!SetActive, CodeP!Codes!Abort,
   CodeP!Codes!Cooling, CodeP!Codes!RequestCode, CodeP!Codes!ClaimFree, CodeP!Codes!Claim, CodeP!Codes!StoreCode,
   CodeP!Codes!ForgiveAttempts, CodeP!Codes!MayAnswer, CodeP!Codes!ReadAttempts, CodeP!Codes!ReadCode,
   CodeP!Codes!CountWrong, CodeP!Codes!ExtendAttempts, CodeP!Codes!Cleared, CodeP!Codes!ClearCode,
   CodeP!Codes!SignIn, CodeP!Codes!Next, CodeP!Codes!Asking, CodeP!Codes!TypeOK, CodeP!Codes!OneCodePerCooldown,
   CodeP!Codes!Cardinality, CodeP!Codes!AttemptsBounded, CodeP!Codes!SpentCodeIsDead, Sessions, Cooldown, Expiry,
   MaxAttempts, MaxCodes

\* The invariant of the one-time codes in the run.
LEMMA CodePart ==
    /\ Code!Init => CodeP!CodeInv
    /\ CodeP!CodeInv /\ [Code!Next]_Code!vars => CodeP!CodeInv'
    /\ CodeP!CodeInv => Code!TypeOK /\ Code!OneCodePerCooldown /\ Code!AttemptsBounded /\ Code!SpentCodeIsDead
<1>1. CodeP!CodeLimits
  <2>1. \A S : IsFiniteSet(S) <=> CodeP!IsFiniteSet(S) BY DEF IsFiniteSet, CodeP!IsFiniteSet
  <2> QED BY <2>1, ModelValues DEF CodeP!CodeLimits, Sessions, Cooldown, Expiry, MaxAttempts, MaxCodes
<1>2. CodeP!CodeInv =>
      CodeP!Codes!TypeOK /\ CodeP!Codes!OneCodePerCooldown /\ CodeP!Codes!AttemptsBounded /\ CodeP!Codes!SpentCodeIsDead
  BY <1>1, CodeP!CodeMeans DEF CodeP!CodeInv
<1>3. [Code!Next]_Code!vars => [CodeP!Codes!Next]_CodeP!Codes!vars
  BY CodeSame DEF Code!vars, CodeP!Codes!vars
<1> QED BY <1>1, <1>2, <1>3, CodeSame, CodeP!InitCode, CodeP!CodeKept

\* The connections of the run are those of the theorems.
LEMMA NetworkSame ==
    /\ Network!Init => NetworkP!Networks!Init
    /\ Network!Next => NetworkP!Networks!Next
    /\ NetworkP!Networks!TypeOK => Network!TypeOK
    /\ NetworkP!Networks!BothWanted => Network!BothWanted
    /\ NetworkP!Networks!BlockHolds => Network!BlockHolds
BY
DEF Network!None, Network!Idle, Network!Init, Network!Written, Network!ConnectionStatus, Network!Begin, Network!Save,
   Network!RowFree, Network!ChangeEligible, Network!SaveProfile, Network!CanSee, Network!MayAsk, Network!SendLoad,
   Network!SendCommit, Network!AnswerLoad, Network!Targets, Network!AnswerCommit, Network!BlockLoad,
   Network!BlockCommit, Network!Unblock, Network!Abort, Network!Next, Network!Row, Network!Asking, Network!TypeOK,
   Network!BothWanted, Network!BlockHolds, NetworkP!Networks!None, NetworkP!Networks!Idle, NetworkP!Networks!Init,
   NetworkP!Networks!Written, NetworkP!Networks!ConnectionStatus, NetworkP!Networks!Begin, NetworkP!Networks!Save,
   NetworkP!Networks!RowFree, NetworkP!Networks!ChangeEligible, NetworkP!Networks!SaveProfile,
   NetworkP!Networks!CanSee, NetworkP!Networks!MayAsk, NetworkP!Networks!SendLoad, NetworkP!Networks!SendCommit,
   NetworkP!Networks!AnswerLoad, NetworkP!Networks!Targets, NetworkP!Networks!AnswerCommit,
   NetworkP!Networks!BlockLoad, NetworkP!Networks!BlockCommit, NetworkP!Networks!Unblock, NetworkP!Networks!Abort,
   NetworkP!Networks!Next, NetworkP!Networks!Row, NetworkP!Networks!Asking, NetworkP!Networks!TypeOK,
   NetworkP!Networks!BothWanted, NetworkP!Networks!BlockHolds, Managers, Sessions

\* The invariant of the connections in the run.
LEMMA NetworkPart ==
    /\ Network!Init => NetworkP!ConnectionInv
    /\ NetworkP!ConnectionInv /\ [Network!Next]_Network!vars => NetworkP!ConnectionInv'
    /\ NetworkP!ConnectionInv /\ Network!Next => Network!BlockHolds
    /\ NetworkP!ConnectionInv => Network!TypeOK /\ Network!BothWanted
<1>1. NetworkP!TwoUsers
  BY ModelValues DEF NetworkP!TwoUsers, Managers, Sessions
<1>2. NetworkP!ConnectionInv => NetworkP!Networks!TypeOK /\ NetworkP!Networks!BothWanted
  BY <1>1 DEF NetworkP!ConnectionInv
<1>3. [Network!Next]_Network!vars => [NetworkP!Networks!Next]_NetworkP!Networks!vars
  BY NetworkSame DEF Network!vars, NetworkP!Networks!vars
<1> QED BY <1>1, <1>2, <1>3, NetworkSame, NetworkP!InitConnection, NetworkP!StepConnection, NetworkP!BlockKept

\* The polls of the run are those of the theorems.
LEMMA PollSame ==
    /\ Poll!Init => PollP!Polls!Init
    /\ Poll!Next => PollP!Polls!Next
    /\ PollP!Polls!TypeOK => Poll!TypeOK
    /\ PollP!Polls!BallotFits => Poll!BallotFits
    /\ PollP!Polls!ResultsAreFinal => Poll!ResultsAreFinal
    /\ PollP!Polls!HiddenStaysHidden => Poll!HiddenStaysHidden
BY DEF Poll!Idle, Poll!NotShown, Poll!Init, Poll!Cardinality, Poll!Written, Poll!PollMoves, Poll!PollStatus,
   Poll!QuestionStatus, Poll!Public, Poll!Tick, Poll!Finish, Poll!Refreshed, Poll!PollFree, Poll!LoadStatus,
   Poll!ChangeStatus, Poll!VoteCheck, Poll!VoteCommit, Poll!ShowResults, Poll!LoadQuestion, Poll!WriteQuestion,
   Poll!Moderate, Poll!Answerable, Poll!Answer, Poll!Upvote, Poll!Abort, Poll!Next, Poll!Question, Poll!Ballots,
   Poll!TypeOK, Poll!BallotFits, Poll!ResultsAreFinal, Poll!HiddenStaysHidden, PollP!Polls!Idle,
   PollP!Polls!NotShown, PollP!Polls!Init, PollP!Polls!Cardinality, PollP!Polls!Written, PollP!Polls!PollMoves,
   PollP!Polls!PollStatus, PollP!Polls!QuestionStatus, PollP!Polls!Public, PollP!Polls!Tick, PollP!Polls!Finish,
   PollP!Polls!Refreshed, PollP!Polls!PollFree, PollP!Polls!LoadStatus, PollP!Polls!ChangeStatus,
   PollP!Polls!VoteCheck, PollP!Polls!VoteCommit, PollP!Polls!ShowResults, PollP!Polls!LoadQuestion,
   PollP!Polls!WriteQuestion, PollP!Polls!Moderate, PollP!Polls!Answerable, PollP!Polls!Answer, PollP!Polls!Upvote,
   PollP!Polls!Abort, PollP!Polls!Next, PollP!Polls!Question, PollP!Polls!Ballots, PollP!Polls!TypeOK,
   PollP!Polls!BallotFits, PollP!Polls!ResultsAreFinal, PollP!Polls!HiddenStaysHidden, Voters, Options,
   MaxSelections, MayChange, StartsAt, EndsAt, Sessions

\* The invariant of the polls in the run.
LEMMA PollPart ==
    /\ Poll!Init => PollP!PollInv
    /\ PollP!PollInv /\ [Poll!Next]_Poll!vars => PollP!PollInv'
    /\ PollP!PollInv /\ Poll!Next => Poll!HiddenStaysHidden
    /\ PollP!PollInv => Poll!TypeOK /\ Poll!BallotFits /\ Poll!ResultsAreFinal
<1>1. PollP!PollTimes
  BY ModelValues DEF PollP!PollTimes, Voters, Options, MaxSelections, MayChange, StartsAt, EndsAt, Sessions
<1>2. PollP!PollInv => PollP!Polls!TypeOK /\ PollP!Polls!BallotFits /\ PollP!Polls!ResultsAreFinal
  BY <1>1 DEF PollP!PollInv
<1>3. [Poll!Next]_Poll!vars => [PollP!Polls!Next]_PollP!Polls!vars
  BY PollSame DEF Poll!vars, PollP!Polls!vars
<1> QED BY <1>1, <1>2, <1>3, PollSame, PollP!InitPoll, PollP!StepPoll, PollP!HiddenKept

\* The tokens of the run are those of the theorems.
LEMMA LoginSame ==
    /\ Login!Init => LoginP!Tokens!Init
    /\ Login!Next => LoginP!Tokens!Next
    /\ LoginP!Tokens!TypeOK => Login!TypeOK
    /\ LoginP!Tokens!SignedOutIsRefused => Login!SignedOutIsRefused
BY DEF Login!NotIssued, Login!Types, Login!Tokens, Login!Idle, Login!Init, Login!Issued, Login!Access, Login!Exp,
   Login!Go, Login!Tick, Login!SetActive, Login!Abort, Login!IssueTokens, Login!SignIn, Login!Decodes, Login!Decode,
   Login!Revoked, Login!AskForKey, Login!Authenticated, Login!Refresh, Login!Ttl, Login!RevokeToken,
   Login!SignOutRefresh, Login!SignOutAccess, Login!Next, Login!TypeOK, Login!SignedOutIsRefused,
   LoginP!Tokens!NotIssued, LoginP!Tokens!Types, LoginP!Tokens!Tokens, LoginP!Tokens!Idle, LoginP!Tokens!Init,
   LoginP!Tokens!Issued, LoginP!Tokens!Access, LoginP!Tokens!Exp, LoginP!Tokens!Go, LoginP!Tokens!Tick,
   LoginP!Tokens!SetActive, LoginP!Tokens!Abort, LoginP!Tokens!IssueTokens, LoginP!Tokens!SignIn,
   LoginP!Tokens!Decodes, LoginP!Tokens!Decode, LoginP!Tokens!Revoked, LoginP!Tokens!AskForKey,
   LoginP!Tokens!Authenticated, LoginP!Tokens!Refresh, LoginP!Tokens!Ttl, LoginP!Tokens!RevokeToken,
   LoginP!Tokens!SignOutRefresh, LoginP!Tokens!SignOutAccess, LoginP!Tokens!Next, LoginP!Tokens!TypeOK,
   LoginP!Tokens!SignedOutIsRefused, Pairs, Sessions, Second, AccessLife, RefreshLife

\* The invariant of the tokens in the run.
LEMMA LoginPart ==
    /\ Login!Init => LoginP!TokenInv
    /\ LoginP!TokenInv /\ [Login!Next]_Login!vars => LoginP!TokenInv'
    /\ LoginP!TokenInv => Login!TypeOK /\ Login!SignedOutIsRefused
<1>1. LoginP!Lifetimes
  BY ModelValues DEF LoginP!Lifetimes, Pairs, Sessions, Second, AccessLife, RefreshLife
<1>2. LoginP!TokenInv => LoginP!Tokens!TypeOK /\ LoginP!Tokens!SignedOutIsRefused
  BY <1>1 DEF LoginP!TokenInv, LoginP!Tokens!SignedOutIsRefused
<1>3. [Login!Next]_Login!vars => [LoginP!Tokens!Next]_LoginP!Tokens!vars
  BY LoginSame DEF Login!vars, LoginP!Tokens!vars
<1> QED BY <1>1, <1>2, <1>3, LoginSame, LoginP!InitTokens, LoginP!StepTokens

\* The verified addresses of the run are those of the theorems.
LEMMA MailSame ==
    /\ Mail!Init => MailP!Accounts!Init
    /\ Mail!Next => MailP!Accounts!Next
    /\ MailP!Accounts!TypeOK => Mail!TypeOK
    /\ MailP!Accounts!VerifiedWasProved => Mail!VerifiedWasProved
BY
DEF Mail!Purposes, Mail!NotSignedUp, Mail!Idle, Mail!Init, Mail!Written, Mail!Go, Mail!Taken, Mail!Abort, Mail!SignUp,
   Mail!MayAsk, Mail!AskForCode, Mail!SendCode, Mail!CodeExpires, Mail!Load, Mail!Spend, Mail!CheckCode, Mail!Race,
   Mail!VerifyEmail, Mail!ResetPassword, Mail!Unproved, Mail!UpdateProfile, Mail!Next, Mail!Account, Mail!TypeOK,
   Mail!VerifiedWasProved, MailP!Accounts!Purposes, MailP!Accounts!NotSignedUp, MailP!Accounts!Idle,
   MailP!Accounts!Init, MailP!Accounts!Written, MailP!Accounts!Go, MailP!Accounts!Taken, MailP!Accounts!Abort,
   MailP!Accounts!SignUp, MailP!Accounts!MayAsk, MailP!Accounts!AskForCode, MailP!Accounts!SendCode,
   MailP!Accounts!CodeExpires, MailP!Accounts!Load, MailP!Accounts!Spend, MailP!Accounts!CheckCode,
   MailP!Accounts!Race, MailP!Accounts!VerifyEmail, MailP!Accounts!ResetPassword, MailP!Accounts!Unproved,
   MailP!Accounts!UpdateProfile, MailP!Accounts!Next, MailP!Accounts!Account, MailP!Accounts!TypeOK,
   MailP!Accounts!VerifiedWasProved, Emails, NoEmail, Sessions

\* The invariant of the verified addresses in the run.
LEMMA MailPart ==
    /\ Mail!Init => MailP!AccountInv
    /\ MailP!AccountInv /\ [Mail!Next]_Mail!vars => MailP!AccountInv'
    /\ MailP!AccountInv => Mail!TypeOK /\ Mail!VerifiedWasProved
<1>1. MailP!AccountInv => MailP!Accounts!TypeOK /\ MailP!Accounts!VerifiedWasProved
  BY DEF MailP!AccountInv
<1>2. [Mail!Next]_Mail!vars => [MailP!Accounts!Next]_MailP!Accounts!vars
  BY MailSame DEF Mail!vars, MailP!Accounts!vars
<1> QED BY <1>1, <1>2, MailSame, MailP!InitAccount, MailP!AccountKept

\* The tickets of the run are those of the theorems.
LEMMA PassSame ==
    /\ Pass!Init => TicketP!Init
    /\ Pass!Next => TicketP!Next
    /\ TicketP!TypeOK => Pass!TypeOK
    /\ TicketP!TransferIsOwners => Pass!TransferIsOwners
BY DEF Pass!Idle, Pass!Init, Pass!Unused, Pass!Used, Pass!Ended, Pass!Flush, Pass!Written, Pass!Write, Pass!Finish,
   Pass!Abort, Pass!Admissible, Pass!EntryTaken, Pass!KeyUsed, Pass!Admitted, Pass!Admit, Pass!CheckIn,
   Pass!OfflineResolve, Pass!OfflineCommit, Pass!ConsoleLoad, Pass!RevokeLoad, Pass!ReplaceLoad, Pass!ReassignLoad,
   Pass!RetypeLoad, Pass!ConsoleCommit, Pass!Revoke, Pass!Replace, Pass!Transferable, Pass!Reassign, Pass!Retype,
   Pass!UpsertPolicy, Pass!Pending, Pass!HasPending, Pass!Initiate, Pass!Answerable, Pass!Accept, Pass!Reject,
   Pass!CancelTransfer, Pass!SetValid, Pass!EndRegistration, Pass!GateStep, Pass!ConsoleStep, Pass!TransferStep,
   Pass!RegistrationStep, Pass!Next, Pass!TicketStatus, Pass!TransferStatus, Pass!Ticket, Pass!SessionState,
   Pass!TypeOK, Pass!EntriesOf, Pass!TransferIsOwners, TicketP!Idle, TicketP!Init, TicketP!Unused, TicketP!Used,
   TicketP!Ended, TicketP!Flush, TicketP!Written, TicketP!Write, TicketP!Finish, TicketP!Abort, TicketP!Admissible,
   TicketP!EntryTaken, TicketP!KeyUsed, TicketP!Admitted, TicketP!Admit, TicketP!CheckIn, TicketP!OfflineResolve,
   TicketP!OfflineCommit, TicketP!ConsoleLoad, TicketP!RevokeLoad, TicketP!ReplaceLoad, TicketP!ReassignLoad,
   TicketP!RetypeLoad, TicketP!ConsoleCommit, TicketP!Revoke, TicketP!Replace, TicketP!Transferable,
   TicketP!Reassign, TicketP!Retype, TicketP!UpsertPolicy, TicketP!Pending, TicketP!HasPending, TicketP!Initiate,
   TicketP!Answerable, TicketP!Accept, TicketP!Reject, TicketP!CancelTransfer, TicketP!SetValid,
   TicketP!EndRegistration, TicketP!GateStep, TicketP!ConsoleStep, TicketP!TransferStep, TicketP!RegistrationStep,
   TicketP!Next, TicketP!TicketStatus, TicketP!TransferStatus, TicketP!Ticket, TicketP!SessionState, TicketP!TypeOK,
   TicketP!EntriesOf, TicketP!TransferIsOwners

\* The invariant of the tickets in the run.
LEMMA PassPart ==
    /\ Pass!Init => TicketP!EntryInv
    /\ TicketP!EntryInv /\ [Pass!Next]_Pass!vars => TicketP!EntryInv'
    /\ TicketP!EntryInv /\ Pass!Next => Pass!TransferIsOwners
    /\ TicketP!EntryInv => Pass!TypeOK
<1>1. TicketP!TicketConstants BY DEF TicketP!TicketConstants
<1>2. TicketP!EntryInv => TicketP!TypeOK BY DEF TicketP!EntryInv
<1>3. [Pass!Next]_Pass!vars => [TicketP!Next]_TicketP!vars BY PassSame DEF Pass!vars, TicketP!vars
<1> QED BY <1>1, <1>2, <1>3, PassSame, TicketP!InitInv, TicketP!StepInv, TicketP!OwnersStep

(***************************************************************************)
(* The run: one component at a time, with its invariant.                   *)
(***************************************************************************)
PeopleInv ==
    /\ part \in {"staff", "shifts", "code", "transfer", "network", "polls", "tokens", "email"}
    /\ part = "staff" => StaffP!StaffInv
    /\ part = "shifts" => ShiftP!RotaInv
    /\ part = "code" => CodeP!CodeInv
    /\ part = "transfer" => TicketP!EntryInv
    /\ part = "network" => NetworkP!ConnectionInv
    /\ part = "polls" => PollP!PollInv
    /\ part = "tokens" => LoginP!TokenInv
    /\ part = "email" => MailP!AccountInv

\* The component that runs begins with its invariant.
LEMMA PeopleInit == Init => PeopleInv
BY StaffPart, ShiftPart, CodePart, PassPart, NetworkPart, PollPart, LoginPart, MailPart DEF Init, PeopleInv

\* The component that runs keeps its invariant, and the others do not run.
LEMMA PeopleStep == PeopleInv /\ [Next]_vars => PeopleInv'
<1> SUFFICES ASSUME PeopleInv, [Next]_vars PROVE PeopleInv' OBVIOUS
<1>0. part' = part BY DEF Next, vars
<1>1. CASE part = "staff"
  <2>1. [Staff!Next]_Staff!vars BY <1>1 DEF Next, vars, Staff!vars
  <2> QED BY <1>0, <1>1, <2>1, StaffPart DEF PeopleInv
<1>2. CASE part = "shifts"
  <2>1. [Shift!Next]_Shift!vars BY <1>2 DEF Next, vars, Shift!vars
  <2> QED BY <1>0, <1>2, <2>1, ShiftPart DEF PeopleInv
<1>3. CASE part = "code"
  <2>1. [Code!Next]_Code!vars BY <1>3 DEF Next, vars, Code!vars
  <2> QED BY <1>0, <1>3, <2>1, CodePart DEF PeopleInv
<1>4. CASE part = "transfer"
  <2>1. [Pass!Next]_Pass!vars BY <1>4 DEF Next, vars, Pass!vars
  <2> QED BY <1>0, <1>4, <2>1, PassPart DEF PeopleInv
<1>5. CASE part = "network"
  <2>1. [Network!Next]_Network!vars BY <1>5 DEF Next, vars, Network!vars
  <2> QED BY <1>0, <1>5, <2>1, NetworkPart DEF PeopleInv
<1>6. CASE part = "polls"
  <2>1. [Poll!Next]_Poll!vars BY <1>6 DEF Next, vars, Poll!vars
  <2> QED BY <1>0, <1>6, <2>1, PollPart DEF PeopleInv
<1>7. CASE part = "tokens"
  <2>1. [Login!Next]_Login!vars BY <1>7 DEF Next, vars, Login!vars
  <2> QED BY <1>0, <1>7, <2>1, LoginPart DEF PeopleInv
<1>8. CASE part = "email"
  <2>1. [Mail!Next]_Mail!vars BY <1>8 DEF Next, vars, Mail!vars
  <2> QED BY <1>0, <1>8, <2>1, MailPart DEF PeopleInv
<1> QED BY <1>1, <1>2, <1>3, <1>4, <1>5, <1>6, <1>7, <1>8 DEF PeopleInv

\* In every reachable state the component that runs has its invariant.
LEMMA PeopleInvariant == Spec => []PeopleInv
BY PeopleInit, PeopleStep, PTL DEF Spec

\* The rows and keys of the people's components always have the values their
\* handlers write, in whatever order requests read and commit.
THEOREM PeopleAreTyped == Spec => []PeopleTypeOK
<1>1. PeopleInv => PeopleTypeOK
  BY StaffPart, ShiftPart, CodePart, PassPart, NetworkPart, PollPart, LoginPart, MailPart
  DEF PeopleInv, PeopleTypeOK
<1> QED BY <1>1, PeopleInvariant, PTL

\* However designations, invitations, acceptances, revocations and
\* deactivations overlap, an event has one manager, the platform keeps an
\* administrator, and an active assignment has the role it stands for.
THEOREM AccessLasts == Spec => []AccessIsKept
<1>1. PeopleInv => AccessIsKept BY StaffPart DEF PeopleInv, AccessIsKept
<1> QED BY <1>1, PeopleInvariant, PTL

\* Two approvals of one shift never put more volunteers on it than it needs.
THEOREM PlacesAreBounded == Spec => []PlacesBounded
<1>1. PeopleInv => PlacesBounded BY ShiftPart DEF PeopleInv, PlacesBounded
<1> QED BY <1>1, PeopleInvariant, PTL

\* Codes are sent once per cooldown, answered wrongly a bounded number of
\* times and dead once cleared; tokens are refused once signed out; a verified
\* address was proved by a code sent to it.
THEOREM CodesAreKept == Spec => []CodesHold
<1>1. PeopleInv => CodesHold BY CodePart, LoginPart, MailPart DEF PeopleInv, CodesHold
<1> QED BY <1>1, PeopleInvariant, PTL

\* Requests, answers and blocks of two participants that overlap never
\* connect one who did not want it.
THEOREM BothWantedIt == Spec => []BothWanted
<1>1. PeopleInv => BothWanted BY NetworkPart DEF PeopleInv, BothWanted
<1> QED BY <1>1, PeopleInvariant, PTL

\* Votes that overlap each other and the closing of the poll leave ballots
\* within the selections, and results that were shown as final unchanged.
THEOREM PollsAreKept == Spec => []PollsHold
<1>1. PeopleInv => PollsHold BY PollPart DEF PeopleInv, PollsHold
<1> QED BY <1>1, PeopleInvariant, PTL

\* No step rewrites attendance that is settled, or moves a ticket its owner did
\* not offer; none turns a block into another row or answers a hidden question,
\* unless it writes a copy loaded before the block or the hiding.
THEOREM DecisionsLast == Spec => DecisionsStand
<1>1. ASSUME PeopleInv, Next
      PROVE  /\ part = "shifts" => Shift!AttendanceIsFinal
             /\ part = "network" => Network!BlockHolds
             /\ part = "polls" => Poll!HiddenStaysHidden
             /\ part = "transfer" => Pass!TransferIsOwners
  BY <1>1, ShiftPart, NetworkPart, PollPart, PassPart DEF PeopleInv, Next
<1> QED BY <1>1, PeopleInvariant, PTL DEF Spec, DecisionsStand
==============================================================================
