---------------------------- MODULE SessionTokens ----------------------------
(***************************************************************************)
(* The access and refresh tokens of one account: issue at sign-in, renewal *)
(* by a refresh token, authentication of a request and sign-out.  A token  *)
(* is signed and stored nowhere; signing out sets a key auth:revoked:<jti> *)
(* in Redis that expires by itself.  A request tests the token, then asks  *)
(* Redis, then loads the account, and everything may happen in between.    *)
(***************************************************************************)
EXTENDS Integers, FiniteSets

CONSTANTS
    Pairs,       \* pairs of an access and a refresh token that may be issued
    Sessions,    \* requests that run concurrently
    Second,      \* steps of the clock in a second
    AccessLife,  \* settings.access_token_expire_minutes, in seconds
    RefreshLife, \* settings.refresh_token_expire_days, in seconds
    MaxTime      \* bound of the clock

VARIABLES
    issued,   \* the second in which a pair was issued; NotIssued before
    gone,     \* when the key auth:revoked:<jti> expires; 0 before it is set
    enabled,  \* users.is_active
    late,     \* a token was let through although signed out (history)
    sess,
    now

vars == <<issued, gone, enabled, late, sess, now>>

NotIssued == -1
Types == {"access", "refresh"}
Tokens == Pairs \X Types
Issued == {t \in Tokens : issued[t[1]] # NotIssued}
Access == {t \in Issued : t[2] = "access"}
Idle == [op |-> "idle"]

\* exp is a whole number of seconds: the fraction is cut off.
Exp(t) == Second * (issued[t[1]] + IF t[2] = "access" THEN AccessLife ELSE RefreshLife)

TypeOK ==
    /\ issued \in [Pairs -> {NotIssued} \cup 0 .. MaxTime \div Second]
    /\ gone \in [Tokens -> Nat]
    /\ enabled \in BOOLEAN
    /\ late \in BOOLEAN
    /\ sess \in [Sessions -> {Idle} \cup [op : {"key", "user", "signout"}, on : Tokens]]
    /\ now \in 0 .. MaxTime

Init ==
    /\ issued = [p \in Pairs |-> NotIssued]
    /\ gone = [t \in Tokens |-> 0]
    /\ enabled = TRUE
    /\ late = FALSE
    /\ sess = [s \in Sessions |-> Idle]
    /\ now = 0
----------------------------------------------------------------------------
Go(s, x) == sess' = [sess EXCEPT ![s] = x]

Tick ==
    /\ now < MaxTime
    /\ now' = now + 1
    /\ UNCHANGED <<issued, gone, enabled, late, sess>>

SetActive(on) ==
    /\ enabled # on
    /\ enabled' = on
    /\ UNCHANGED <<issued, gone, late, sess, now>>

Abort(s) ==
    /\ sess[s] # Idle
    /\ Go(s, Idle)
    /\ UNCHANGED <<issued, gone, enabled, late, now>>
----------------------------------------------------------------------------
IssueTokens(p) ==
    /\ issued[p] = NotIssued
    /\ issued' = [issued EXCEPT ![p] = now \div Second]

\* Every way to sign in ends in a test of the account and the issue.
SignIn(p) ==
    /\ enabled
    /\ IssueTokens(p)
    /\ UNCHANGED <<gone, enabled, late, sess, now>>

\* The signature holds, and exp lies ahead.
Decodes(t) == now < Exp(t)

\* get_current_user with an access token, refresh_token with a refresh token.
Decode(s, t) ==
    /\ sess[s] = Idle
    /\ t \in Issued
    /\ Decodes(t)
    /\ Go(s, [op |-> "key", on |-> t])
    /\ UNCHANGED <<issued, gone, enabled, late, now>>

Revoked(t) == now < gone[t]

AskForKey(s) ==
    /\ sess[s].op = "key"
    /\ LET t == sess[s].on IN
       /\ ~Revoked(t)
       /\ late' = (late \/ (gone[t] > 0 /\ now <= Exp(t) - Second))
       /\ Go(s, [op |-> "user", on |-> t])
    /\ UNCHANGED <<issued, gone, enabled, now>>

\* The request goes on as the account's.
Authenticated(s) ==
    /\ sess[s].op = "user"
    /\ sess[s].on \in Access
    /\ enabled
    /\ Go(s, Idle)
    /\ UNCHANGED <<issued, gone, enabled, late, now>>

\* A refresh token that was used is not revoked.
Refresh(s, p) ==
    /\ sess[s].op = "user"
    /\ sess[s].on \in Issued \ Access
    /\ enabled
    /\ IssueTokens(p)
    /\ Go(s, Idle)
    /\ UNCHANGED <<gone, enabled, late, now>>
----------------------------------------------------------------------------
\* Whole seconds until exp, and at least one: the expiry is not verified.
Ttl(t) == LET left == (Exp(t) - now) \div Second IN IF left < 1 THEN 1 ELSE left

RevokeToken(t) == gone' = [gone EXCEPT ![t] = now + Ttl(t) * Second]

\* POST /auth/logout: the refresh token, then the access token, of which either
\* may be missing.
SignOutRefresh(s, r, then) ==
    /\ sess[s] = Idle
    /\ r \in Issued \ Access
    /\ RevokeToken(r)
    /\ Go(s, then)
    /\ UNCHANGED <<issued, enabled, late, now>>

SignOutAccess(s, a) ==
    /\ a \in Access
    /\ sess[s] \in {Idle, [op |-> "signout", on |-> a]}
    /\ RevokeToken(a)
    /\ Go(s, Idle)
    /\ UNCHANGED <<issued, enabled, late, now>>
----------------------------------------------------------------------------
Next ==
    \/ Tick
    \/ \E on \in BOOLEAN : SetActive(on)
    \/ \E p \in Pairs : SignIn(p)
    \/ \E s \in Sessions :
          \/ \E t \in Tokens : Decode(s, t)
          \/ AskForKey(s) \/ Authenticated(s) \/ Abort(s)
          \/ \E p \in Pairs : Refresh(s, p)
          \/ \E r \in Tokens : SignOutRefresh(s, r, Idle)
          \/ \E r \in Tokens, a \in Access : SignOutRefresh(s, r, [op |-> "signout", on |-> a])
          \/ \E a \in Tokens : SignOutAccess(s, a)

Spec == Init /\ [][Next]_vars
----------------------------------------------------------------------------
(* Properties.                                                             *)

\* A request that asks for the key of a token after somebody signed out with
\* it is refused until the last second of the token's life, however often and
\* late they signed out; the key's whole seconds leave that last one open.
SignedOutIsRefused == ~late
============================================================================
