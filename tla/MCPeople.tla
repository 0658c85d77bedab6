------------------------------ MODULE MCPeople -------------------------------
(*****************************************************************************)
(* The components that decide about people, checked in one run: each on an   *)
(* instance of its own, in variables and model values that all of them       *)
(* use.                                                                      *)
(*****************************************************************************)
EXTENDS Integers, FiniteSets, TLC

CONSTANTS
    Ss, Xs, Ys, Zs,       \* model values, each set symmetric
    ann, bob, gate, none  \* single ones

ASSUME ModelValues ==
    /\ IsFiniteSet(Ss) /\ IsFiniteSet(Ys)
    /\ Zs # {} /\ ann \notin Zs /\ ann # none /\ none \notin Xs \cup Ys

Symmetry == {p @@ q @@ r @@ s : p \in Permutations(Ss), q \in Permutations(Xs),
                                r \in Permutations(Ys), s \in Permutations(Zs)}

VARIABLES
    part, \* the component that runs
    v1, v2, v3, v4, v5, v6, v7, v8, v9, v10, v11, v12, v13 \* its variables

\* Two administrators, one other account, two assignments and two roles.
Staff == INSTANCE Staffing WITH
    Admins <- Zs, People <- {ann}, Posts <- {gate}, VolunteerPost <- gate,
    Assignments <- Xs, Roles <- Ys, NoRole <- none, NoAssignment <- none,
    Nobody <- none, Sessions <- Ss,
    active <- v1, manager <- v2, organizer <- v3, deleted <- v4, role <- v5,
    asg <- v6, app <- v7, sess <- v8

\* Two shifts at the same time and two volunteers.
Shift == INSTANCE VolunteerShifts WITH
    Shifts <- Xs, Volunteers <- Ys, Slots <- {<<0, 1>>}, Counts <- {1, 2},
    Sessions <- Ss, MaxTime <- 1,
    shift <- v1, asg <- v2, att <- v3, sess <- v4, now <- v5

\* One number, two requests, three codes.
Code == INSTANCE OneTimeCode WITH
    Sessions <- Ss, Cooldown <- 1, Expiry <- 2, MaxAttempts <- 2, MaxTime <- 3,
    MaxCodes <- 3,
    code <- v1, codeEnd <- v2, wrong <- v3, wrongEnd <- v4, coolEnd <- v5,
    enabled <- v6, issued <- v7, claimed <- v8, tooSoon <- v9, spent <- v10,
    reused <- v11, sess <- v12, now <- v13

\* One ticket, offered twice to two users while the console reassigns it.
Pass == INSTANCE TicketPass WITH
    Tickets <- {gate}, Users <- Ys \cup {ann}, Buyer <- [t \in {gate} |-> ann],
    Types <- {none}, General <- none, Limits <- {1}, Transfers <- Xs,
    Keys <- {}, NoKey <- none, Sessions <- {ann}, MaxCodes <- 1,
    tk <- v1, valid <- v2, limit <- v3, rows <- v4, xf <- v5, sess <- v6

\* Two participants, one of whom manages the event.
Network == INSTANCE Networking WITH
    Users <- {ann, bob}, Managers <- {ann}, Sessions <- Ss,
    conn <- v1, eligible <- v2, visible <- v3, wanted <- v4, late <- v5,
    sess <- v6

\* A poll with one voter who may change the choice, and a question.
Poll == INSTANCE EventPolls WITH
    Voters <- {ann}, Options <- Xs, MaxSelections <- 1, MayChange <- TRUE,
    StartsAt <- 1, EndsAt <- 2, MaxTime <- 2, Sessions <- Ss,
    poll <- v1, ballot <- v2, shown <- v3, question <- v4, upvotes <- v5,
    sess <- v6, late <- v7, now <- v8

\* Two pairs of tokens, two requests, half a second a step.
Login == INSTANCE SessionTokens WITH
    Pairs <- Xs, Sessions <- Ss, Second <- 2, AccessLife <- 1, RefreshLife <- 2,
    MaxTime <- 4,
    issued <- v1, gone <- v2, enabled <- v3, late <- v4, sess <- v5, now <- v6

\* Two accounts and two addresses.
Mail == INSTANCE EmailAccount WITH
    Users <- Zs, Emails <- Xs, NoEmail <- none, Sessions <- Ss,
    account <- v1, code <- v2, proved <- v3, raced <- v4, sess <- v5

----------------------------------------------------------------------------
\* The variables that a component of 5 does not need.
After5 == <<v6, v7, v8, v9, v10, v11, v12, v13>>
NotUsed5 == v6 = 0 /\ v7 = 0 /\ v8 = 0 /\ v9 = 0 /\ v10 = 0 /\ v11 = 0
            /\ v12 = 0 /\ v13 = 0
\* The variables that a component of 6 does not need.
After6 == <<v7, v8, v9, v10, v11, v12, v13>>
NotUsed6 == v7 = 0 /\ v8 = 0 /\ v9 = 0 /\ v10 = 0 /\ v11 = 0 /\ v12 = 0
            /\ v13 = 0
\* The variables that a component of 8 does not need.
After8 == <<v9, v10, v11, v12, v13>>
NotUsed8 == v9 = 0 /\ v10 = 0 /\ v11 = 0 /\ v12 = 0 /\ v13 = 0

Init ==
    \/ part = "staff" /\ Staff!Init /\ NotUsed8
    \/ part = "shifts" /\ Shift!Init /\ NotUsed5
    \/ part = "code" /\ Code!Init
    \/ part = "transfer" /\ Pass!Init /\ NotUsed6
    \/ part = "network" /\ Network!Init /\ NotUsed6
    \/ part = "polls" /\ Poll!Init /\ NotUsed8
    \/ part = "tokens" /\ Login!Init /\ NotUsed6
    \/ part = "email" /\ Mail!Init /\ NotUsed5

Next ==
    /\ UNCHANGED part
    /\ \/ part = "staff" /\ Staff!Next /\ UNCHANGED After8
       \/ part = "shifts" /\ Shift!Next /\ UNCHANGED After5
       \/ part = "code" /\ Code!Next
       \/ part = "transfer" /\ Pass!Next /\ UNCHANGED After6
       \/ part = "network" /\ Network!Next /\ UNCHANGED After6
       \/ part = "polls" /\ Poll!Next /\ UNCHANGED After8
       \/ part = "tokens" /\ Login!Next /\ UNCHANGED After6
       \/ part = "email" /\ Mail!Next /\ UNCHANGED After5

vars == <<part, v1, v2, v3, v4, v5, v6, v7, v8, v9, v10, v11, v12, v13>>

Spec == Init /\ [][Next]_vars
----------------------------------------------------------------------------
\* Bound of the shifts: time passes for one shift, and stands still for two.
Focus ==
    part = "shifts" => LET shift == v1  now == v5 IN
       now = 0 \/ \E h \in Xs : shift[h] = Shift!NoShift

\* The type invariants of the components.
PeopleTypeOK ==
    CASE part = "staff" -> Staff!TypeOK
      [] part = "shifts" -> Shift!TypeOK
      [] part = "code" -> Code!TypeOK
      [] part = "transfer" -> Pass!TypeOK
      [] part = "network" -> Network!TypeOK
      [] part = "polls" -> Poll!TypeOK
      [] part = "tokens" -> Login!TypeOK
      [] part = "email" -> Mail!TypeOK

\* An event has one manager, the platform keeps an administrator, and who is
\* on the staff can work, while designations, invitations, revocations and
\* deactivations overlap.
AccessIsKept ==
    part = "staff" => Staff!OneManager /\ Staff!AnAdminRemains /\ Staff!ActiveStaffCanWork

\* No shift has more volunteers than places, however its approvals overlap.
PlacesBounded == part = "shifts" => Shift!PlacesBounded

\* One code per cooldown, a bounded number of wrong answers, no verification
\* with a code that was cleared before it began, a verified address has been
\* proved, and a token is refused once somebody has signed out with it.
CodesHold ==
    /\ part = "code" => Code!OneCodePerCooldown /\ Code!AttemptsBounded /\ Code!SpentCodeIsDead
    /\ part = "tokens" => Login!SignedOutIsRefused
    /\ part = "email" => Mail!VerifiedWasProved

\* Two participants are connected only if both wanted it.
BothWanted == part = "network" => Network!BothWanted

\* A ballot never exceeds the selections allowed, and final results that were
\* shown stay the results.
PollsHold == part = "polls" => Poll!BallotFits /\ Poll!ResultsAreFinal

\* A decision that was taken stands: attendance is recorded once, a block
\* holds until it is lifted, a hidden question stays hidden, and a ticket moves
\* only from its owner.
DecisionsStand ==
    [][/\ part = "shifts" => Shift!AttendanceIsFinal
       /\ part = "network" => Network!BlockHolds
       /\ part = "polls" => Poll!HiddenStaysHidden
       /\ part = "transfer" => Pass!TransferIsOwners]_vars
============================================================================
