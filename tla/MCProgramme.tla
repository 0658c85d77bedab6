----------------------------- MODULE MCProgramme -----------------------------
(*****************************************************************************)
(* The components around an event's programme and its services, checked in   *)
(* one run: each on an instance of its own, in variables and model values    *)
(* that all of them use.                                                     *)
(*****************************************************************************)
EXTENDS Integers, FiniteSets, TLC

CONSTANTS
    Ss,   \* the requests that run at the same time
    Xs, Ys, alpha, beta, none

ASSUME ModelValues ==
    /\ IsFiniteSet(Xs) /\ IsFiniteSet(Ys)
    /\ 0 \notin Xs /\ none \notin Xs \cup Nat \cup {alpha}

\* Terms of access: re-entry until the second day, the zone from the second
\* day on, and a pass for the second day only.
GateTerms ==
    {[zones |-> {}, max |-> 2, from |-> 0, until |-> 1, dates |-> {}],
     [zones |-> {alpha}, max |-> 1, from |-> 1, until |-> 3, dates |-> {}],
     [zones |-> {}, max |-> 1, from |-> 0, until |-> 3, dates |-> {1}]}

EntryDates == {<<2026, 2, 28>>, <<2026, 3, 1>>}
EntryBirthdays == {<<2008, 2, 29>>, <<2008, 3, 1>>}
NoRule == [min |-> none, max |-> none, least |-> none, most |-> none, documents |-> {}]
EntryRules == {[NoRule EXCEPT !.min = 18, !.documents = {beta}], [NoRule EXCEPT !.max = 17],
               [NoRule EXCEPT !.least = 2, !.most = 3]}
EntryForms == {[k \in {alpha} |-> [required |-> TRUE, options |-> {}]],
               [k \in {alpha} |-> [required |-> FALSE, options |-> {beta}]]}
EntryPayloads ==
    {[birth |-> x[1], size |-> none, documents |-> {beta}, answers |-> [k \in {alpha} |-> x[2]]] :
        x \in (EntryBirthdays \cup {none}) \X {none, "", beta}}
    \cup {[birth |-> none, size |-> n, documents |-> {}, answers |-> [k \in {alpha} |-> beta]] :
              n \in 1 .. 4}
Symmetry == {a @@ b @@ c : a \in Permutations(Ss), b \in Permutations(Xs), c \in Permutations(Ys)}

VARIABLES
    part, \* the component that runs
    v1, v2, v3, v4, v5, v6, v7, v8, v9 \* its variables

\* A team of exactly two among three accounts, submitted at most twice.
Team == INSTANCE TeamRoster WITH
    Captain <- alpha, Users <- Ys \cup {alpha}, Regs <- Xs, NoReg <- none, MinSize <- 2,
    MaxSize <- 2, Requests <- {beta},
    members <- v1, invite <- v2, team <- v3, reg <- v4, join <- v5, req <- v6

\* Two items, one venue, two slots.
Venue == INSTANCE VenueSchedule WITH
    Items <- Xs, Venues <- {alpha}, Resources <- {}, Slots <- {<<0, 1>>, <<1, 2>>},
    Sessions <- Ss,
    sess <- v1, item <- v2, stale <- v3

\* A public vote before a knockout, one registration.
Vote == INSTANCE Competition WITH
    Entries <- Xs, Regs <- {alpha}, Fixtures <- {},
    StageType <- <<"public_vote", "knockout">>, Threshold <- 2,
    Scores <- {0, 1}, Sessions <- Ss,
    sess <- v1, entry <- v2, comp <- v3, stages <- v4, match <- v5

\* A knockout stage, two registrations and a fixture.
Cup == INSTANCE Competition WITH
    Entries <- Xs, Regs <- Ys, Fixtures <- {alpha}, StageType <- <<"knockout">>,
    Threshold <- 1, Scores <- {0, 1}, Sessions <- Ss,
    sess <- v1, entry <- v2, comp <- v3, stages <- v4, match <- v5

\* A certificate of the competition and a badge for attendance.
Award == INSTANCE Awards WITH
    Docs <- {alpha, beta}, DocType <- (alpha :> "runner_up" @@ beta :> "badge"),
    AttendanceMin <- (alpha :> 0 @@ beta :> 1), Participants <- {beta}, Rows <- Xs,
    MaxScans <- 1, Sessions <- Ss,
    completed <- v1, scans <- v2, final <- v3, reg <- v4, award <- v5,
    lock <- v6

\* An inquiry for two events.
Sponsor == INSTANCE Sponsorship WITH
    Events <- Xs, Kinds <- {"lead_capture", "booth_visit"}, Sessions <- Ss,
    sess <- v1, late <- v2, inquiry <- v3, sponsor <- v4, deliverable <- v5,
    lead <- v6

\* Two main categories, one sub category, one event.
File == INSTANCE Catalog WITH
    Mains <- Xs, Subs <- {beta}, Events <- {alpha}, Sessions <- Ss,
    sess <- v1, late <- v2, main <- v3, sub <- v4, event <- v5

\* Two referred registrations.
Refer == INSTANCE Referrals WITH
    Registrations <- Ys, Rows <- Xs, Sessions <- Ss,
    sess <- v1, late <- v2, profile <- v3, reg <- v4, total <- v5,
    reward <- v6, pay <- v7, visits <- v8, verified <- v9

\* An incident and two people who may be in charge.
Report == INSTANCE Incidents WITH
    Staff <- Xs, Sessions <- Ss,
    sess <- v1, incident <- v2, recipients <- v3, told <- v4

\* A request for assistance and one possible reviewer.
Help == INSTANCE Assistance WITH
    Reviewers <- {alpha}, Amounts <- {0, 1, 2}, NoCode <- none, Sessions <- Ss,
    sess <- v1, late <- v2, team <- v3, request <- v4, code <- v5

\* Two rows and three keys.
Row == INSTANCE UniqueRows WITH
    Ids <- Ys, Keys <- Xs \cup {alpha}, Sessions <- Ss,
    sess <- v1, late <- v2, row <- v3, open <- v4

\* Two notifications, two devices and two workers, one of which may be lost.
Outbox == INSTANCE NotificationDelivery WITH
    Rows <- Xs, Keys <- {alpha}, NoKey <- none, Devices <- Ys, Workers <- Ss,
    MaxAttempts <- 2, MaxRetries <- 2, MaxLosses <- 1,
    note <- v1, due <- v2, wanted <- v3, active <- v4, got <- v5, batch <- v6,
    worker <- v7, losses <- v8

\* A pair and a single registrant who pay, and two refunds.
Figures == INSTANCE EventReports WITH
    Regs <- {alpha, beta}, Tickets <- Ys \cup {none},
    OfReg <- [t \in Ys \cup {none} |-> IF t = none THEN beta ELSE alpha],
    Refunds <- Xs, Fee <- 2, Parts <- {1, 2}, Capacity <- 1, MaxScans <- 1,
    reg <- v1, pay <- v2, refund <- v3, ticket <- v4, scans <- v5, report <- v6

\* An event with a venue of its own and a borrowed one, copied while it is configured.
Copying == INSTANCE EventTemplates WITH
    Venues <- {alpha, beta}, Borrowed <- {beta}, NoVenue <- none, Items <- {none},
    Zones <- Xs, Types <- {none}, Copies <- {alpha}, Sessions <- {alpha},
    sess <- v1, source <- v2, template <- v3, copy <- v4

\* A ticket, an access zone, two access policies with one of three terms each.
Gate == INSTANCE GateVerdict WITH
    Zones <- {alpha}, NoZone <- none, Policies <- Xs, NoPolicy <- none,
    Contents <- GateTerms, LastDay <- 2, Ends <- {1, 3},
    reg <- v1, pay <- v2, tk <- v3, policy <- v4, zone <- v5, visits <- v6,
    end <- v7, today <- v8

\* Rules on age, team and documents around a 29 February, a form with one field, one registration at a time.
Entry == INSTANCE EventEligibility WITH
    Dates <- EntryDates, Birthdays <- EntryBirthdays, NoDate <- none,
    Limits <- {2, 3, 17, 18}, NoLimit <- none, Documents <- {beta},
    Sizes <- 1 .. 4, NoTeam <- none, Keys <- {alpha}, Values <- {beta},
    Missing <- none, Empty <- "", RuleSets <- EntryRules, Forms <- EntryForms,
    Payloads <- EntryPayloads, Sessions <- {alpha},
    sess <- v1, entry <- v2, start <- v3, rules <- v4, form <- v5

\* Three uploads.
Files == INSTANCE StoredFiles WITH
    Keys <- Xs \cup {alpha}, NoKey <- none, Managers <- {beta}, Nobody <- none,
    Sessions <- Ss,
    sess <- v1, item <- v2, image <- v3, object <- v4

----------------------------------------------------------------------------
\* The variables that a component of 3 does not need.
After3 == <<v4, v5, v6, v7, v8, v9>>
NotUsed3 == v4 = 0 /\ v5 = 0 /\ v6 = 0 /\ v7 = 0 /\ v8 = 0 /\ v9 = 0
\* The variables that a component of 4 does not need.
After4 == <<v5, v6, v7, v8, v9>>
NotUsed4 == v5 = 0 /\ v6 = 0 /\ v7 = 0 /\ v8 = 0 /\ v9 = 0
\* The variables that a component of 5 does not need.
After5 == <<v6, v7, v8, v9>>
NotUsed5 == v6 = 0 /\ v7 = 0 /\ v8 = 0 /\ v9 = 0
\* The variables that a component of 6 does not need.
After6 == <<v7, v8, v9>>
NotUsed6 == v7 = 0 /\ v8 = 0 /\ v9 = 0
\* The variables that a component of 8 does not need.
After8 == <<v9>>
NotUsed8 == v9 = 0

Init ==
    \/ part = "team" /\ Team!Init /\ NotUsed6
    \/ part = "venues" /\ Venue!Init /\ NotUsed3
    \/ part = "votes" /\ Vote!Init /\ NotUsed5
    \/ part = "fixtures" /\ Cup!Init /\ NotUsed5
    \/ part = "awards" /\ Award!Init /\ NotUsed6
    \/ part = "sponsors" /\ Sponsor!Init /\ NotUsed6
    \/ part = "catalog" /\ File!Init /\ NotUsed5
    \/ part = "referrals" /\ Refer!Init
    \/ part = "incidents" /\ Report!Init /\ NotUsed4
    \/ part = "assistance" /\ Help!Init /\ NotUsed5
    \/ part = "rows" /\ Row!Init /\ NotUsed4
    \/ part = "outbox" /\ Outbox!Init /\ NotUsed8
    \/ part = "reports" /\ Figures!Init /\ NotUsed6
    \/ part = "copies" /\ Copying!Init /\ NotUsed4
    \/ part = "gate" /\ Gate!Init /\ NotUsed8
    \/ part = "entry" /\ Entry!Init /\ NotUsed5
    \/ part = "files" /\ Files!Init /\ NotUsed4

Next ==
    /\ UNCHANGED part
    /\ \/ part = "team" /\ Team!Next /\ UNCHANGED After6
       \/ part = "venues" /\ Venue!Next /\ UNCHANGED After3
       \/ part = "votes" /\ Vote!Next /\ UNCHANGED After5
       \/ part = "fixtures" /\ Cup!Next /\ UNCHANGED After5
       \/ part = "awards" /\ Award!Next /\ UNCHANGED After6
       \/ part = "sponsors" /\ Sponsor!Next /\ UNCHANGED After6
       \/ part = "catalog" /\ File!Next /\ UNCHANGED After5
       \/ part = "referrals" /\ Refer!Next
       \/ part = "incidents" /\ Report!Next /\ UNCHANGED After4
       \/ part = "assistance" /\ Help!Next /\ UNCHANGED After5
       \/ part = "rows" /\ Row!Next /\ UNCHANGED After4
       \/ part = "outbox" /\ Outbox!Next /\ UNCHANGED After8
       \/ part = "reports" /\ Figures!Next /\ UNCHANGED After6
       \/ part = "copies" /\ Copying!Next /\ UNCHANGED After4
       \/ part = "gate" /\ Gate!Next /\ UNCHANGED After8
       \/ part = "entry" /\ Entry!Next /\ UNCHANGED After5
       \/ part = "files" /\ Files!Next /\ UNCHANGED After4

vars == <<part, v1, v2, v3, v4, v5, v6, v7, v8, v9>>

Spec == Init /\ [][Next]_vars
----------------------------------------------------------------------------
\* Bounds of three components: a competition with fixtures stays open, an
\* engagement, a deliverable or an inquiry changes while the others rest, and
\* there is one copy, made either at once or from the template.
Focus ==
    /\ part = "copies" => LET session == v1  template == v3  made == v4 IN
       /\ made[alpha] = Copying!NoCopy
       /\ template = Copying!NoTemplate \/ session[alpha] = Copying!Idle
    /\ part = "fixtures" => LET comp == v3 IN comp \in {"draft", "open"}
    /\ part = "sponsors" => LET sess == v1  late == v2  inquiry == v3  sponsor == v4  deliverable == v5  lead == v6 IN
       /\ lead # Sponsor!NoLead => /\ inquiry = "confirmed" /\ deliverable.status = "none"
                                  /\ late \subseteq {"lead"}
       /\ deliverable.status # "none" => /\ inquiry = "confirmed"
                                         /\ \A e \in Xs : sponsor[e] \in {"none", "confirmed"}
       /\ \A s \in Ss : sess[s].op = "inquiry" => deliverable.status = "none" /\ lead = Sponsor!NoLead

\* The type invariants of the components.
ProgrammeTypeOK ==
    /\ part = "team" => Team!TypeOK
    /\ part = "venues" => Venue!TypeOK
    /\ part = "votes" => Vote!TypeOK
    /\ part = "fixtures" => Cup!TypeOK
    /\ part = "awards" => Award!TypeOK
    /\ part = "sponsors" => Sponsor!TypeOK
    /\ part = "catalog" => File!TypeOK
    /\ part = "referrals" => Refer!TypeOK
    /\ part = "incidents" => Report!TypeOK
    /\ part = "assistance" => Help!TypeOK
    /\ part = "rows" => Row!TypeOK
    /\ part = "outbox" => Outbox!TypeOK
    /\ part = "reports" => Figures!TypeOK
    /\ part = "copies" => Copying!TypeOK
    /\ part = "gate" => Gate!TypeOK
    /\ part = "entry" => Entry!TypeOK
    /\ part = "files" => Files!TypeOK

\* Everybody in a team has asked for it or accepted it, and what was submitted
\* had an allowed size.
RosterFits == part = "team" => Team!MembersAgreed /\ Team!SubmittedRosterFits

\* Two items whose overlap nobody has edited away do not share a venue.
SeparateEditsKeepApart == part = "venues" => Venue!SeparateEditsKeepApart

\* A registration takes part in a competition once, the vote that reaches the
\* threshold carries it over, and the table balances.
CompetitionFair ==
    /\ part = "votes" => Vote!OneEntryEach /\ Vote!VoteCarriesOver
    /\ part = "fixtures" => Cup!OneEntryEach /\ Cup!TableBalances

\* Nobody holds one certificate or badge twice.
OneActiveAward == part = "awards" => Award!OneActiveAward

\* Sponsors, deliverables and engagements agree with the inquiry's course.
SponsorshipAgrees == part = "sponsors" => Sponsor!SponsorshipAgrees

\* One reward per referred registration, counted once.
RewardedOnce == part = "referrals" => Refer!RewardedOnce

\* An escalated incident has been told to those in charge, a granted waiver is
\* the code's value, the gate admits exactly whom its preview calls valid and
\* counts them, and whoever registered met the rules of entry.
DeskHolds ==
    /\ part = "incidents" => Report!FollowedUp
    /\ part = "assistance" => Help!WaiverGranted
    /\ part = "gate" => Gate!PreviewAgrees /\ Gate!EntriesCounted
    /\ part = "entry" => Entry!EntrantsMetTheRules

\* What is unique is stored once, an event's categories and files exist, a copy
\* of an event is as restricted as the event, and no report states more money,
\* or fewer open refunds and absentees, than there are.
RecordsHold ==
    /\ part = "rows" => Row!OnceEach
    /\ part = "catalog" => File!Filed
    /\ part = "reports" => Figures!NetNotOverstated /\ Figures!NoShowsListed /\ Figures!RefundsAlerted
    /\ part = "copies" => Copying!CopyStaysRestricted /\ Copying!CopyKeepsVenues
    /\ part = "files" => Files!ShownIsStored

\* One notification per dedupe key, and none is "sent" that no device received.
OutboxHolds == part = "outbox" => Outbox!OncePerKey /\ Outbox!SentIsReceived
============================================================================
