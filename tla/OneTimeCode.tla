----------------------------- MODULE OneTimeCode -----------------------------
(***************************************************************************)
(* One-time codes for one mobile number or for one e-mail address and      *)
(* purpose: the cooldown between two codes, the count of wrong answers and *)
(* the single use of a code.  They live in Redis under three keys, each    *)
(* with its own expiry, and every request reads and writes them with       *)
(* commands of its own: every command is one action.                       *)
(***************************************************************************)
EXTENDS Integers, FiniteSets

CONSTANTS
    Sessions,    \* requests that run concurrently
    Cooldown,    \* settings.otp_resend_cooldown_seconds
    Expiry,      \* settings.otp_expiry_seconds
    MaxAttempts, \* settings.otp_max_verify_attempts
    MaxTime,     \* bound of the clock
    MaxCodes     \* bound: codes generated

VARIABLES
    code,      \* otp:<number>, the code whose hash is stored; 0 without the key
    codeEnd,   \* when the key expires
    wrong,     \* otp:attempts:<number>; 0 without the key
    wrongEnd,
    coolEnd,   \* when otp:cooldown:<number> expires
    enabled,   \* users.is_active
    issued,    \* codes generated so far
    claimed,   \* when the last code was asked for (history)
    tooSoon,   \* a code was granted within the cooldown of another (history)
    spent,     \* codes that a verification has cleared (history)
    reused,    \* a verification that began after that has succeeded (history)
    sess,
    now

vars == <<code, codeEnd, wrong, wrongEnd, coolEnd, enabled, issued, claimed, tooSoon, spent, reused, sess, now>>
Keys == <<code, codeEnd, wrong, wrongEnd, coolEnd>>
History == <<issued, claimed, tooSoon, spent, reused>>

Never == MaxTime + Expiry + 1
Idle == [op |-> "idle"]
Asking ==
    [op : {"claim", "forgive", "extend", "signin"}]
    \cup [op : {"store"}, code : 1 .. MaxCodes]
    \cup [op : {"read"}, dead : SUBSET (1 .. MaxCodes)]
    \cup [op : {"clear", "wrong"}, dead : SUBSET (1 .. MaxCodes), code : 1 .. MaxCodes]

TypeOK ==
    /\ code \in 0 .. MaxCodes /\ issued \in 0 .. MaxCodes
    /\ wrong \in Nat /\ {codeEnd, wrongEnd, coolEnd} \subseteq Nat
    /\ enabled \in BOOLEAN /\ tooSoon \in BOOLEAN /\ reused \in BOOLEAN
    /\ spent \subseteq 1 .. MaxCodes
    /\ claimed \in -Cooldown .. MaxTime /\ now \in 0 .. MaxTime
    /\ sess \in [Sessions -> {Idle} \cup Asking]

Init ==
    /\ code = 0 /\ codeEnd = 0 /\ wrong = 0 /\ wrongEnd = 0 /\ coolEnd = 0
    /\ enabled = TRUE
    /\ issued = 0 /\ claimed = -Cooldown /\ tooSoon = FALSE /\ spent = {} /\ reused = FALSE
    /\ sess = [s \in Sessions |-> Idle]
    /\ now = 0
----------------------------------------------------------------------------
Go(s, x) == sess' = [sess EXCEPT ![s] = x]

\* Keys disappear when their time has come.
Tick ==
    /\ now < MaxTime
    /\ now' = now + 1
    /\ code' = IF codeEnd <= now + 1 THEN 0 ELSE code
    /\ wrong' = IF wrongEnd <= now + 1 THEN 0 ELSE wrong
    /\ UNCHANGED <<codeEnd, wrongEnd, coolEnd, enabled, History, sess>>

SetActive(on) ==
    /\ enabled # on
    /\ enabled' = on
    /\ UNCHANGED <<Keys, History, sess, now>>

Abort(s) ==
    /\ sess[s] # Idle
    /\ Go(s, Idle)
    /\ UNCHANGED <<Keys, enabled, History, now>>
----------------------------------------------------------------------------
(* request_otp and _send_email_code.                                       *)

Cooling == now < coolEnd

RequestCode(s) ==
    /\ sess[s] = Idle
    /\ enabled /\ ~Cooling /\ issued < MaxCodes
    /\ Go(s, [op |-> "claim"])
    /\ UNCHANGED <<Keys, enabled, History, now>>

\* Mutant: GET, then SET: the compatibility path for test doubles.
AlwaysFree == TRUE
\* SET with NX: the key is claimed only while it does not exist.
ClaimFree == ~Cooling

\* The limits per client, device and platform come after the claim: a request
\* that they refuse has used up the cooldown.
Claim(s) ==
    /\ sess[s].op = "claim"
    /\ ClaimFree
    /\ issued < MaxCodes
    /\ coolEnd' = now + Cooldown
    /\ issued' = issued + 1
    /\ claimed' = now
    /\ tooSoon' = (tooSoon \/ now < claimed + Cooldown)
    /\ Go(s, [op |-> "store", code |-> issued + 1])
    /\ UNCHANGED <<code, codeEnd, wrong, wrongEnd, enabled, spent, reused, now>>

StoreCode(s) ==
    /\ sess[s].op = "store"
    /\ code' = sess[s].code
    /\ codeEnd' = now + Expiry
    /\ Go(s, [op |-> "forgive"])
    /\ UNCHANGED <<wrong, wrongEnd, coolEnd, enabled, History, now>>

ForgiveAttempts(s) ==
    /\ sess[s].op = "forgive"
    /\ wrong' = 0
    /\ Go(s, Idle)
    /\ UNCHANGED <<code, codeEnd, wrongEnd, coolEnd, enabled, History, now>>
----------------------------------------------------------------------------
(* verify_otp and _verify_email_code.                                      *)

MayAnswer == wrong < MaxAttempts

ReadAttempts(s) ==
    /\ sess[s] = Idle
    /\ enabled
    /\ MayAnswer
    /\ Go(s, [op |-> "read", dead |-> spent])
    /\ UNCHANGED <<Keys, enabled, History, now>>

\* The stored hash is compared with the answer in the request.
ReadCode(s, right) ==
    /\ sess[s].op = "read"
    /\ code # 0
    /\ Go(s, [op |-> IF right THEN "clear" ELSE "wrong", dead |-> sess[s].dead, code |-> code])
    /\ UNCHANGED <<Keys, enabled, History, now>>

\* INCR creates the key without an expiry: a crash before EXPIRE leaves it so.
CountWrong(s) ==
    /\ sess[s].op = "wrong"
    /\ wrong' = wrong + 1
    /\ wrongEnd' = IF wrong = 0 THEN Never ELSE wrongEnd
    /\ Go(s, [op |-> "extend"])
    /\ UNCHANGED <<code, codeEnd, coolEnd, enabled, History, now>>

ExtendAttempts(s) ==
    /\ sess[s].op = "extend"
    /\ wrongEnd' = now + Expiry
    /\ Go(s, Idle)
    /\ UNCHANGED <<code, codeEnd, wrong, coolEnd, enabled, History, now>>

\* The key is deleted, whichever code it holds by now.
Cleared == 0

ClearCode(s) ==
    /\ sess[s].op = "clear"
    /\ code' = Cleared
    /\ spent' = spent \cup {sess[s].code}
    /\ reused' = (reused \/ sess[s].code \in sess[s].dead)
    /\ Go(s, [op |-> "signin"])
    /\ UNCHANGED <<codeEnd, wrong, wrongEnd, coolEnd, enabled, issued, claimed, tooSoon, now>>

\* The account is read again before tokens are issued.
SignIn(s) ==
    /\ sess[s].op = "signin"
    /\ wrong' = 0
    /\ Go(s, Idle)
    /\ UNCHANGED <<code, codeEnd, wrongEnd, coolEnd, enabled, History, now>>
----------------------------------------------------------------------------
Next ==
    \/ Tick
    \/ \E on \in BOOLEAN : SetActive(on)
    \/ \E s \in Sessions :
          \/ RequestCode(s) \/ Claim(s) \/ StoreCode(s) \/ ForgiveAttempts(s)
          \/ ReadAttempts(s) \/ CountWrong(s) \/ ExtendAttempts(s) \/ ClearCode(s) \/ SignIn(s)
          \/ \E right \in BOOLEAN : ReadCode(s, right)
          \/ Abort(s)

Spec == Init /\ [][Next]_vars
----------------------------------------------------------------------------
(* Properties.                                                             *)

\* Requests for a code that race each other are granted at most one code per
\* cooldown.
OneCodePerCooldown == ~tooSoon

\* Wrong answers are read and counted by separate commands: the count passes
\* the limit, but by no more than the requests that were under way.
AttemptsBounded ==
    wrong < MaxAttempts + Cardinality(Sessions)

\* A code that one verification has used is worth nothing to a verification
\* that begins later; only those already under way may still succeed with it.
SpentCodeIsDead == ~reused
============================================================================
