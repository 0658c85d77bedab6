------------------------------- MODULE Referrals -------------------------------
(***************************************************************************)
(* A referral code, the rewards tracked with it, and their evaluation,     *)
(* which every admitted check-in triggers after its own commit.            *)
(***************************************************************************)
EXTENDS Integers, FiniteSets

CONSTANTS
    Registrations, \* registrations of referred users
    Rows,          \* rows of referral_rewards that may be created
    Sessions       \* requests and worker tasks that run concurrently

VARIABLES
    profile, \* the referrer has a referral row
    total,   \* its total_rewards_issued
    reward,  \* referral_rewards
    reg,     \* status of every registration
    pay,     \* status of its payment
    visits,  \* registrations with an admitted check-in
    verified,\* registrations whose payment has been verified
    late,    \* an evaluation has written over another one
    sess     \* what every request has read

vars == <<profile, total, reward, reg, pay, visits, verified, late, sess>>

NoReward == [status |-> "absent"]
Idle == [at |-> "idle"]

TypeOK ==
    /\ profile \in BOOLEAN /\ late \in BOOLEAN
    /\ total \in Nat
    /\ reward \in [Rows -> [for : Registrations, status : {"tracked", "issued"}] \cup {NoReward}]
    /\ reg \in [Registrations -> {"confirmed", "checked_in", "completed", "cancelled"}]
    /\ pay \in [Registrations -> {"pending", "verified", "refunded"}]
    /\ visits \subseteq Registrations /\ verified \subseteq Registrations
    /\ sess \in [Sessions -> {Idle, [at |-> "profile"]}
                   \cup [at : {"payment", "reward"}, for : Registrations]
                   \cup [at : {"referral"}, row : Rows, was : {"tracked", "issued"}]
                   \cup [at : {"commit"}, row : Rows, was : {"tracked", "issued"}, total : Nat]]

Init ==
    /\ profile = FALSE /\ late = FALSE /\ total = 0
    /\ reward = [w \in Rows |-> NoReward]
    /\ reg = [g \in Registrations |-> "confirmed"]
    /\ pay = [g \in Registrations |-> "pending"]
    /\ visits = {} /\ verified = {}
    /\ sess = [s \in Sessions |-> Idle]

To(s, step) == sess' = [sess EXCEPT ![s] = step]
----------------------------------------------------------------------------
(* The rest of the system.                                                 *)

MovePayment(g, st) ==
    /\ <<pay[g], st>> \in {<<"pending", "verified">>, <<"verified", "refunded">>}
    /\ pay' = [pay EXCEPT ![g] = st]
    /\ verified' = verified \cup {g}
    /\ UNCHANGED <<profile, total, reward, reg, visits, late, sess>>

MoveRegistration(g, st) ==
    /\ <<reg[g], st>> \in {<<"confirmed", "checked_in">>, <<"confirmed", "cancelled">>,
                           <<"checked_in", "completed">>, <<"checked_in", "cancelled">>}
    /\ reg' = [reg EXCEPT ![g] = st]
    /\ visits' = IF st = "checked_in" THEN visits \cup {g} ELSE visits
    /\ UNCHANGED <<profile, total, reward, pay, verified, late, sess>>
----------------------------------------------------------------------------
(* The profile.  Its code is a hash of event and referrer, unique per      *)
(* event: of two requests that both find no profile one fails.             *)

ProfileRead(s) ==
    /\ sess[s] = Idle /\ ~profile
    /\ To(s, [at |-> "profile"])
    /\ UNCHANGED <<profile, total, reward, reg, pay, visits, verified, late>>

ProfileCreate(s) ==
    /\ sess[s].at = "profile"
    /\ profile' = TRUE
    /\ To(s, Idle)
    /\ UNCHANGED <<total, reward, reg, pay, visits, verified, late>>

\* Tracking names any registration, also one that is tracked already.
Track(w, g) ==
    /\ profile
    /\ reward[w] = NoReward
    /\ reward' = [reward EXCEPT ![w] = [for |-> g, status |-> "tracked"]]
    /\ UNCHANGED <<profile, total, reg, pay, visits, verified, late, sess>>
----------------------------------------------------------------------------
(* evaluate_referral_qualification: four reads without a lock.             *)

Of(g) == {w \in Rows : reward[w] # NoReward /\ reward[w].for = g}

EvaluateStart(s, g) ==
    /\ sess[s] = Idle
    /\ g \in visits
    /\ reg[g] \in {"checked_in", "completed"}
    /\ To(s, [at |-> "payment", for |-> g])
    /\ UNCHANGED <<profile, total, reward, reg, pay, visits, verified, late>>

EvaluatePayment(s) ==
    /\ sess[s].at = "payment"
    /\ To(s, IF pay[sess[s].for] = "verified" THEN [sess[s] EXCEPT !.at = "reward"] ELSE Idle)
    /\ UNCHANGED <<profile, total, reward, reg, pay, visits, verified, late>>

\* Mutant: the first row that matches, instead of the only one.
AnyTracked(g) == {w \in Of(g) : reward[w].status = "tracked"}
\* scalar_one_or_none raises when the registration was tracked twice, and the
\* check-in swallows the error.
Qualifying(g) == {w \in Of(g) : Cardinality(Of(g)) = 1 /\ reward[w].status = "tracked"}

EvaluateReward(s) ==
    /\ sess[s].at = "reward"
    /\ \/ \E w \in Qualifying(sess[s].for) : To(s, [at |-> "referral", row |-> w, was |-> reward[w].status])
       \/ Qualifying(sess[s].for) = {} /\ To(s, Idle)
    /\ UNCHANGED <<profile, total, reward, reg, pay, visits, verified, late>>

EvaluateReferral(s) ==
    /\ sess[s].at = "referral"
    /\ To(s, [at |-> "commit", row |-> sess[s].row, was |-> sess[s].was, total |-> total])
    /\ UNCHANGED <<profile, total, reward, reg, pay, visits, verified, late>>

EvaluateCommit(s) ==
    /\ sess[s].at = "commit"
    /\ reward' = [reward EXCEPT ![sess[s].row].status = "issued"]
    /\ total' = sess[s].total + 1
    /\ late' = (late \/ total # sess[s].total \/ reward[sess[s].row].status # sess[s].was)
    /\ To(s, Idle)
    /\ UNCHANGED <<profile, reg, pay, visits, verified>>

Next ==
    \/ \E g \in Registrations :
          \/ \E st \in {"verified", "refunded"} : MovePayment(g, st)
          \/ \E st \in {"checked_in", "completed", "cancelled"} : MoveRegistration(g, st)
          \/ \E w \in Rows : Track(w, g)
          \/ \E s \in Sessions : EvaluateStart(s, g)
    \/ \E s \in Sessions :
          \/ ProfileRead(s) \/ ProfileCreate(s)
          \/ EvaluatePayment(s) \/ EvaluateReward(s) \/ EvaluateReferral(s) \/ EvaluateCommit(s)

Spec == Init /\ [][Next]_vars
----------------------------------------------------------------------------
(* Properties.                                                             *)

Issued(g) == {w \in Of(g) : reward[w].status = "issued"}

\* A registration earns one reward, also when it was tracked twice and
\* evaluated at every check-in; it was paid for and admitted; and the
\* referrer's total counts the rewards unless two evaluations overlapped.
RewardedOnce ==
    /\ \A g \in Registrations :
          /\ Cardinality(Issued(g)) <= 1
          /\ Issued(g) # {} => g \in visits \cap verified
    /\ ~late => total = Cardinality(UNION {Issued(g) : g \in Registrations})
=============================================================================
