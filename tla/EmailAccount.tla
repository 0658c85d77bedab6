----------------------------- MODULE EmailAccount -----------------------------
(***************************************************************************)
(* Accounts that sign in with an email address: signing up, proving the    *)
(* address with a mailed code, changing it, and resetting the password.    *)
(* The account is a row, the codes are in Redis under purpose and address, *)
(* and a request reads the one, checks the other and then commits.  How    *)
(* often codes are sent and tried is the matter of OneTimeCode.            *)
(***************************************************************************)
EXTENDS StaleCopy

CONSTANTS
    Users,
    Emails,
    NoEmail, \* of somebody who has not signed up
    Sessions \* requests that run at the same time

Purposes == {"verify", "reset"}
NotSignedUp == [email |-> NoEmail, verified |-> FALSE]
Account == [email : Emails \cup {NoEmail}, verified : BOOLEAN]
Idle == [op |-> "idle"]

VARIABLES
    account, \* row of every user: address, and whether it is verified
    code,    \* of every purpose, the addresses for which a code is stored
    proved,  \* history: who has answered a verification code sent to which address
    raced,   \* history: whose row had changed when a request wrote its copy
    sess     \* the requests

vars == <<account, code, proved, raced, sess>>

TypeOK ==
    /\ account \in [Users -> Account]
    /\ code \in [Purposes -> SUBSET Emails]
    /\ proved \subseteq Users \X Emails
    /\ raced \subseteq Users
    /\ sess \in [Sessions ->
                    {Idle}
                    \cup [op : {"mail"}, purpose : Purposes, email : Emails]
                    \cup [op : {"verify", "checked", "reset", "profile"}, user : Users, copy : Account]]

Init ==
    /\ account = [u \in Users |-> NotSignedUp]
    /\ code = [p \in Purposes |-> {}]
    /\ proved = {}
    /\ raced = {}
    /\ sess = [s \in Sessions |-> Idle]
----------------------------------------------------------------------------
Go(s, next) == sess' = [sess EXCEPT ![s] = next]
Taken(e, u) == \E w \in Users \ {u} : account[w].email = e

\* A request dies, or is refused: nothing more of it happens.
Abort(s) == sess[s] # Idle /\ Go(s, Idle) /\ UNCHANGED <<account, code, proved, raced>>

\* The account is committed before its code is sent.
SignUp(s, u, e) ==
    /\ sess[s] = Idle
    /\ account[u] = NotSignedUp
    /\ ~Taken(e, u)
    /\ account' = [account EXCEPT ![u].email = e]
    /\ Go(s, [op |-> "mail", purpose |-> "verify", email |-> e])
    /\ UNCHANGED <<code, proved, raced>>

\* A verification code is sent again only to those who need it.
MayAsk(u, purpose) ==
    /\ account[u] # NotSignedUp
    /\ purpose = "verify" => ~account[u].verified

AskForCode(s, u, purpose) ==
    /\ sess[s] = Idle
    /\ MayAsk(u, purpose)
    /\ Go(s, [op |-> "mail", purpose |-> purpose, email |-> account[u].email])
    /\ UNCHANGED <<account, code, proved, raced>>

SendCode(s) ==
    /\ sess[s].op = "mail"
    /\ code' = [code EXCEPT ![sess[s].purpose] = @ \cup {sess[s].email}]
    /\ Go(s, Idle)
    /\ UNCHANGED <<account, proved, raced>>

CodeExpires(purpose, e) ==
    /\ e \in code[purpose]
    /\ code' = [code EXCEPT ![purpose] = @ \ {e}]
    /\ UNCHANGED <<account, proved, raced, sess>>
----------------------------------------------------------------------------
(* A code is answered.                                                     *)

Load(s, u, op) ==
    /\ sess[s] = Idle
    /\ account[u] # NotSignedUp
    /\ Go(s, [op |-> op, user |-> u, copy |-> account[u]])
    /\ UNCHANGED <<account, code, proved, raced>>

\* The code is looked up under the address that was read.
Spend(s, purpose) ==
    /\ sess[s].copy.email \in code[purpose]
    /\ code' = [code EXCEPT ![purpose] = @ \ {sess[s].copy.email}]

CheckCode(s) ==
    /\ sess[s].op = "verify"
    /\ Spend(s, "verify")
    /\ proved' = proved \cup {<<sess[s].user, sess[s].copy.email>>}
    /\ Go(s, [sess[s] EXCEPT !.op = "checked"])
    /\ UNCHANGED <<account, raced>>

Race(s) ==
    raced' = IF account[sess[s].user] = sess[s].copy THEN raced ELSE raced \cup {sess[s].user}

\* email_verified_at is a new time, and so always written.
VerifyEmail(s) ==
    /\ sess[s].op = "checked"
    /\ account' = [account EXCEPT ![sess[s].user].verified = TRUE]
    /\ Race(s)
    /\ Go(s, Idle)
    /\ UNCHANGED <<code, proved>>

\* The password is not modelled: what counts is that the code is spent.
ResetPassword(s) ==
    /\ sess[s].op = "reset"
    /\ Spend(s, "reset")
    /\ Go(s, Idle)
    /\ UNCHANGED <<account, proved, raced>>
----------------------------------------------------------------------------
(* The address is changed.                                                 *)

Unproved(copy, e) == [copy EXCEPT !.email = e, !.verified = FALSE]

UpdateProfile(s, e) ==
    LET u == sess[s].user  copy == sess[s].copy IN
    /\ sess[s].op = "profile"
    /\ e # copy.email
    /\ ~Taken(e, u)
    /\ account' = [account EXCEPT ![u] = Written(@, copy, Unproved(copy, e))]
    /\ Race(s)
    /\ Go(s, Idle)
    /\ UNCHANGED <<code, proved>>

Next ==
    \/ \E s \in Sessions, u \in Users :
          \/ \E e \in Emails : SignUp(s, u, e)
          \/ \E purpose \in Purposes : AskForCode(s, u, purpose)
          \/ \E op \in {"verify", "reset", "profile"} : Load(s, u, op)
    \/ \E s \in Sessions :
          \/ SendCode(s) \/ CheckCode(s) \/ VerifyEmail(s) \/ ResetPassword(s) \/ Abort(s)
          \/ \E e \in Emails : UpdateProfile(s, e)
    \/ \E purpose \in Purposes, e \in Emails : CodeExpires(purpose, e)

Spec == Init /\ [][Next]_vars
----------------------------------------------------------------------------
(* Properties.                                                             *)

\* Who counts as verified has answered a code that was sent to the address the
\* account has now, unless the address was changed while a code was being
\* checked: each of the two requests then writes a column of its own.
VerifiedWasProved ==
    \A u \in Users : account[u].verified /\ u \notin raced => <<u, account[u].email>> \in proved
=============================================================================
