--------------------------- MODULE EventEligibility ---------------------------
(***************************************************************************)
(* The rules of entry of one event and the registrations they let in.  A   *)
(* manager edits the rules, the form and the date while a registration     *)
(* that has loaded event and configuration waits for the capacity lock:    *)
(* it is judged by the rules and the date it loaded, and by the form as it *)
(* is when it looks.                                                       *)
(***************************************************************************)
EXTENDS Integers, FiniteSets

CONSTANTS
    Dates,      \* days on which the event may start, as <<year, month, day>>
    Birthdays,  \* dates of birth
    NoDate,     \* date_of_birth is missing
    Limits,     \* values of min_age, max_age and of the team's sizes
    NoLimit,    \* a rule that is not set
    Documents,  \* kinds of documents
    Sizes,      \* numbers of team members
    NoTeam,     \* team_member_count IS None: not a team's registration
    Keys,       \* fields of the form
    Values,     \* answers
    Missing,    \* the answer is None or absent
    Empty,      \* the answer is the empty string
    RuleSets,   \* the rules a manager may set
    Forms,      \* the field schemas a manager may set
    Payloads,   \* what registrants may send
    Sessions    \* registrations that are under way

Rules == [min : Limits \cup {NoLimit}, max : Limits \cup {NoLimit},
          least : Limits \cup {NoLimit}, most : Limits \cup {NoLimit},
          documents : SUBSET Documents]
\* Without options a field is not a select, or a select that takes anything.
Form == [Keys -> [required : BOOLEAN, options : SUBSET Values]]
Payload == [birth : Birthdays \cup {NoDate}, size : Sizes \cup {NoTeam},
            documents : SUBSET Documents, answers : [Keys -> Values \cup {Missing, Empty}]]

VARIABLES
    start,  \* events.start_date
    rules,  \* event_configurations.rules
    form,   \* event_field_schemas.fields
    entry,  \* the latest registration made, with what it was judged by
    sess

vars == <<start, rules, form, entry, sess>>

Idle == [op |-> "idle"]

TypeOK ==
    /\ Payloads \subseteq Payload /\ RuleSets \subseteq Rules /\ Forms \subseteq Form
    /\ start \in Dates /\ rules \in RuleSets /\ form \in Forms
    /\ entry \subseteq [payload : Payloads, start : Dates, rules : RuleSets, form : Forms]
    /\ sess \in [Sessions -> {Idle} \cup [payload : Payloads, start : Dates, rules : RuleSets]]

Init ==
    /\ start \in Dates /\ rules \in RuleSets /\ form \in Forms
    /\ entry = {}
    /\ sess = [s \in Sessions |-> Idle]
----------------------------------------------------------------------------
(* The rule engine: the set of what is wrong with a payload.               *)

\* Of the same year, day by month and day.
Earlier(d, e) == d[2] < e[2] \/ (d[2] = e[2] /\ d[3] < e[3])

CalculateAge(birth, on) == on[1] - birth[1] - IF Earlier(on, birth) THEN 1 ELSE 0

AgeErrors(r, on, birth) ==
    IF r.min = NoLimit /\ r.max = NoLimit THEN {}
    ELSE IF birth = NoDate THEN {"birth_missing"}
    ELSE {e \in {"too_young", "too_old"} :
            LET age == CalculateAge(birth, on) IN
            \/ e = "too_young" /\ r.min # NoLimit /\ age < r.min
            \/ e = "too_old" /\ r.max # NoLimit /\ age > r.max}

SizeErrors(r, size) ==
    {e \in {"too_few", "too_many"} :
        /\ size # NoTeam
        /\ \/ e = "too_few" /\ r.least # NoLimit /\ size < r.least
           \/ e = "too_many" /\ r.most # NoLimit /\ size > r.most}

CheckEligibility(r, on, p) ==
    AgeErrors(r, on, p.birth) \cup SizeErrors(r, p.size)
        \cup {"document" : d \in r.documents \ p.documents}

\* An empty answer to a field that is not required must still be an option.
ValidateFieldAnswers(f, answers) ==
    {k \in Keys :
        IF f[k].required /\ answers[k] \in {Missing, Empty} THEN TRUE
        ELSE answers[k] # Missing /\ f[k].options # {} /\ answers[k] \notin f[k].options}

ValidateRegistration(r, on, f, p) ==
    CheckEligibility(r, on, p) = {} /\ ValidateFieldAnswers(f, p.answers) = {}
----------------------------------------------------------------------------
\* The registration loads the event and its configuration.
Begin(s, p) ==
    /\ sess[s] = Idle
    /\ sess' = [sess EXCEPT ![s] = [payload |-> p, start |-> start, rules |-> rules]]
    /\ UNCHANGED <<start, rules, form, entry>>

\* Behind the lock both are still in its session; the form is read now.
Register(s) ==
    /\ sess[s] # Idle
    /\ LET seen == sess[s] IN
       /\ ValidateRegistration(seen.rules, seen.start, form, seen.payload)
       /\ entry' = {[payload |-> seen.payload, start |-> seen.start,
                   rules |-> seen.rules, form |-> form]}
    /\ sess' = [sess EXCEPT ![s] = Idle]
    /\ UNCHANGED <<start, rules, form>>

\* Refused, for its payload or for another reason.
Abort(s) ==
    /\ sess[s] # Idle
    /\ sess' = [sess EXCEPT ![s] = Idle]
    /\ UNCHANGED <<start, rules, form, entry>>

UpsertConfiguration(r) == rules' = r /\ UNCHANGED <<start, form, entry, sess>>
UpsertFieldSchema(f) == form' = f /\ UNCHANGED <<start, rules, entry, sess>>
MoveStart(d) == start' = d /\ UNCHANGED <<rules, form, entry, sess>>

Next ==
    \/ \E s \in Sessions : Register(s) \/ Abort(s) \/ \E p \in Payloads : Begin(s, p)
    \/ \E r \in RuleSets : UpsertConfiguration(r)
    \/ \E f \in Forms : UpsertFieldSchema(f)
    \/ \E d \in Dates : MoveStart(d)

Spec == Init /\ [][Next]_vars
----------------------------------------------------------------------------
(* Properties.                                                             *)

\* Full years between two dates: the birthdays reached after the day of birth;
\* one on 29 February is reached on 1 March in years without that day.
Lexical(d, e) == d[1] < e[1] \/ (d[1] = e[1] /\ (Earlier(d, e) \/ (d[2] = e[2] /\ d[3] = e[3])))
YearsLived(birth, on) ==
    Cardinality({y \in birth[1] + 1 .. on[1] : Lexical(<<y, birth[2], birth[3]>>, on)})

\* Whoever got in was old enough and not too old on the day the event was to
\* start when the request began, brought every document, with a team of an
\* allowed size, and answered the form as it was on entry: a required field
\* with a value, a field with options with one of them.
EntrantsMetTheRules ==
    \A e \in entry : LET sent == e.payload IN
        /\ e.rules.min # NoLimit =>
              sent.birth # NoDate /\ e.rules.min <= YearsLived(sent.birth, e.start)
        /\ e.rules.max # NoLimit =>
              sent.birth # NoDate /\ YearsLived(sent.birth, e.start) <= e.rules.max
        /\ e.rules.documents \subseteq sent.documents
        /\ sent.size # NoTeam => /\ e.rules.least # NoLimit => e.rules.least <= sent.size
                                 /\ e.rules.most # NoLimit => sent.size <= e.rules.most
        /\ \A k \in Keys :
              /\ e.form[k].required => sent.answers[k] \in Values
              /\ e.form[k].options # {} => sent.answers[k] \in e.form[k].options \cup {Missing}
============================================================================
