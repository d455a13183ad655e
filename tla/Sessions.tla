------------------------------ MODULE Sessions ------------------------------
(***************************************************************************)
(* Signing in, refresh tokens and the second factor (internal/auth).  A    *)
(* session is a family of refresh tokens: the one a sign-in issued and     *)
(* those it was exchanged for.  A TOTP code is the number of the secret it *)
(* was computed from.                                                      *)
(***************************************************************************)
EXTENDS Accounts

CONSTANTS TokenIds, MaxSecrets

ASSUME TokenIdsAssumption == TokenIds \subseteq Nat \ {0} /\ MaxSecrets \in Nat

VARIABLES
    tokens,      \* the refresh_tokens table; ids are given out in order
    challenged,  \* the accounts whose sign-in was answered with a 2FA challenge
    secretsMade, \* how many TOTP secrets were generated
    confirmed,   \* history: the secrets a valid code was shown for
    ended        \* history: the families whose last good token a logout revoked

sessionVars == <<tokens, challenged, secretsMade, confirmed, ended>>

Secrets == 1..MaxSecrets
NoToken == [user |-> Nobody, family |-> 0, revoked |-> FALSE, expired |-> FALSE]
Made(t) == tokens[t] # NoToken
Live(t) == Made(t) /\ ~tokens[t].revoked /\ ~tokens[t].expired
Family(t) == <<"family", tokens[t].family>>
FamiliesOf(u) == {Family(t) : t \in {t \in TokenIds : Made(t) /\ tokens[t].user = u}}

SessionsInit ==
    /\ tokens = [t \in TokenIds |-> NoToken]
    /\ challenged = {}
    /\ secretsMade = 0
    /\ confirmed = {}
    /\ ended = {}

-----------------------------------------------------------------------------
\* Signing in: by password, by a Google account, and by the second factor
\* after a challenge.  The account is read once.
Login(c, u, password) ==
    /\ Exists(u)
    /\ Begin(c, "login", "read", {}, u, password)
    /\ UNCHANGED <<users, sessionVars>>

GoogleLogin(c, email) ==
    /\ Begin(c, "google", "find", {}, Nobody, email)
    /\ UNCHANGED <<users, sessionVars>>

\* An account the server has not seen is made; an insert may be refused.
FindAccount(c) ==
    /\ At(c, "google", "find")
    /\ IF FindByEmail(Mem(c)) = {}
       THEN Goto(c, "create")
       ELSE /\ calls' = [calls EXCEPT ![c].pc = "read",
                                      ![c].user = CHOOSE u \in FindByEmail(Mem(c)) : TRUE]
            /\ UNCHANGED <<work, faults, hurt>>
    /\ UNCHANGED <<users, sessionVars>>

CreateAccount(c, u) ==
    /\ At(c, "google", "create")
    /\ IF FindByEmail(Mem(c)) = {}
       THEN /\ Insert(u, Mem(c), GooglePhone(u), NewPassword)
            /\ calls' = [calls EXCEPT ![c].pc = "issue", ![c].user = u]
            /\ UNCHANGED <<work, faults, hurt>>
       ELSE Finish(c) /\ UNCHANGED users
    /\ UNCHANGED sessionVars

\* HandleLoginTwoFA, with a code of a secret the client was given.
LoginTwoFA(c, u, code) ==
    /\ u \in challenged
    /\ code <= secretsMade
    /\ Begin(c, "second", "read", {}, u, code)
    /\ UNCHANGED <<users, sessionVars>>

\* Faulty: a Google login that does not look at the second factor.
ReadLaxly(c) ==
    /\ calls[c].op \in {"login", "google"} /\ calls[c].pc = "read"
    /\ CASE calls[c].op = "login" /\ Row(c).password # Mem(c) ->
              Finish(c) /\ UNCHANGED challenged
         [] calls[c].op = "login" /\ Row(c).enabled ->
              Finish(c) /\ challenged' = challenged \cup {User(c)}
         [] OTHER -> Goto(c, "issue") /\ UNCHANGED challenged
    /\ UNCHANGED <<users, tokens, secretsMade, confirmed, ended>>

ReadAccount(c) ==
    /\ calls[c].op \in {"login", "google"} /\ calls[c].pc = "read"
    /\ CASE calls[c].op = "login" /\ Row(c).password # Mem(c) ->
              Finish(c) /\ UNCHANGED challenged
         [] Row(c).enabled /\ (calls[c].op = "login" => Row(c).password = Mem(c)) ->
              Finish(c) /\ challenged' = challenged \cup {User(c)}
         [] OTHER -> Goto(c, "issue") /\ UNCHANGED challenged
    /\ UNCHANGED <<users, tokens, secretsMade, confirmed, ended>>

VerifyTwoFA(c) ==
    /\ At(c, "second", "read")
    /\ IF Row(c).enabled /\ Row(c).secret = Mem(c) THEN Goto(c, "issue") ELSE Finish(c)
    /\ UNCHANGED <<users, sessionVars>>

\* issueTokenPair: the refresh token is the first of a family, or, when a
\* token is refreshed, the next of its family.
NewToken(t, u, family) ==
    /\ ~Made(t) /\ \A s \in TokenIds : s < t => Made(s)
    /\ tokens' = [tokens EXCEPT ![t] = [user |-> u, family |-> family,
                                        revoked |-> FALSE, expired |-> FALSE]]
    /\ UNCHANGED <<challenged, secretsMade, confirmed, ended>>

OpenSession(c, t) ==
    /\ calls[c].op \in {"login", "google", "second"} /\ calls[c].pc = "issue"
    /\ NewToken(t, User(c), t)
    /\ Finish(c)
    /\ UNCHANGED users

-----------------------------------------------------------------------------
\* Refreshing: the old token is looked at, the new one issued, and only then
\* the old one revoked; an error of the last statement is dropped.
RefreshToken(c, t) ==
    /\ Made(t)
    /\ Begin(c, "refresh", "read", {Family(t)}, tokens[t].user, t)
    /\ UNCHANGED <<users, sessionVars>>

ReadToken(c) ==
    /\ At(c, "refresh", "read")
    /\ IF Live(Mem(c)) THEN Goto(c, "issue") ELSE Finish(c)
    /\ UNCHANGED <<users, sessionVars>>

IssueNext(c, t) ==
    /\ At(c, "refresh", "issue")
    /\ NewToken(t, User(c), tokens[Mem(c)].family)
    /\ Goto(c, "revoke")
    /\ UNCHANGED users

Revoke(ts) ==
    tokens' = [t \in TokenIds |-> IF t \in ts THEN [tokens[t] EXCEPT !.revoked = TRUE]
                                  ELSE tokens[t]]

\* Faulty: the old token stays.
LeaveOld(c) ==
    /\ At(c, "refresh", "revoke")
    /\ Finish(c)
    /\ UNCHANGED <<users, sessionVars>>

RevokeOld(c) ==
    /\ At(c, "refresh", "revoke")
    /\ Revoke({Mem(c)})
    /\ Finish(c)
    /\ UNCHANGED <<users, challenged, secretsMade, confirmed, ended>>

Expire(t) ==
    /\ Live(t) /\ "refresh" \in work
    /\ tokens' = [tokens EXCEPT ![t].expired = TRUE]
    /\ UNCHANGED <<users, control, challenged, secretsMade, confirmed, ended>>

\* HandleLogout with the refresh token's cookie; a family has ended when the
\* token was its last good one.
Logout(c, t) ==
    /\ Made(t)
    /\ Begin(c, "logout", "revoke", {Family(t)}, tokens[t].user, t)
    /\ UNCHANGED <<users, sessionVars>>

RevokeOne(c) ==
    /\ At(c, "logout", "revoke")
    /\ Revoke({Mem(c)})
    /\ ended' = IF Live(Mem(c)) THEN ended \cup {Family(Mem(c))} ELSE ended
    /\ Finish(c)
    /\ UNCHANGED <<users, challenged, secretsMade, confirmed>>

\* HandleLogout without it: the path of the cookie is that of the refresh
\* route, so a browser does not send it, and the owner of token t is answered
\* "logged out" with nothing revoked.
LogoutWithoutCookie(c, t) ==
    /\ Made(t)
    /\ Begin(c, "logout", "answer", {}, tokens[t].user, t)
    /\ UNCHANGED <<users, sessionVars>>

AnswerLogout(c) ==
    /\ At(c, "logout", "answer")
    /\ Finish(c)
    /\ UNCHANGED <<users, sessionVars>>

\* It works on every session of the user, and on those opened beside it.
LogoutAll(c, u) ==
    /\ FamiliesOf(u) # {}
    /\ Begin(c, "logoutall", "revoke", FamiliesOf(u) \cup {<<"family", t>> :
             t \in {t \in TokenIds : ~Made(t)}}, u, "nothing")
    /\ UNCHANGED <<users, sessionVars>>

\* One statement: every token of the user that is not revoked.
RevokeAll(c) ==
    /\ At(c, "logoutall", "revoke")
    /\ Revoke({t \in TokenIds : Made(t) /\ tokens[t].user = User(c)})
    /\ ended' = ended \cup FamiliesOf(User(c))
    /\ Finish(c)
    /\ UNCHANGED <<users, challenged, secretsMade, confirmed>>

-----------------------------------------------------------------------------
\* The second factor.  UpdateTwoFA writes the secret and the flag together.
UpdateTwoFA(u, secret, enabled) ==
    users' = [users EXCEPT ![u].secret = secret, ![u].enabled = enabled]

InitiateTwoFA(c, u) ==
    /\ Exists(u) /\ secretsMade < MaxSecrets
    /\ secretsMade' = secretsMade + 1
    /\ Begin(c, "setup", "store", {}, u, secretsMade + 1)
    /\ UNCHANGED <<users, tokens, challenged, confirmed, ended>>

StoreSecret(c) ==
    /\ At(c, "setup", "store")
    /\ UpdateTwoFA(User(c), Mem(c), FALSE)
    /\ Finish(c)
    /\ UNCHANGED sessionVars

ConfirmTwoFA(c, u, code) ==
    /\ Exists(u) /\ code <= secretsMade
    /\ Begin(c, "enable", "read", {}, u, code)
    /\ UNCHANGED <<users, sessionVars>>

CheckSecret(c) ==
    /\ At(c, "enable", "read")
    /\ IF Row(c).secret = Mem(c)
       THEN Goto(c, "write") /\ confirmed' = confirmed \cup {Mem(c)}
       ELSE Finish(c) /\ UNCHANGED confirmed
    /\ UNCHANGED <<users, tokens, challenged, secretsMade, ended>>

\* Faulty: the flag alone is set.
EnableOnly(c) ==
    /\ At(c, "enable", "write")
    /\ users' = [users EXCEPT ![User(c)].enabled = TRUE]
    /\ Finish(c)
    /\ UNCHANGED sessionVars

\* The secret that was read is written back with the flag.
EnableTwoFA(c) ==
    /\ At(c, "enable", "write")
    /\ UpdateTwoFA(User(c), Mem(c), TRUE)
    /\ Finish(c)
    /\ UNCHANGED sessionVars

DisableTwoFA(c, u, code) ==
    /\ Exists(u) /\ code <= secretsMade
    /\ Begin(c, "disable", "read", {}, u, code)
    /\ UNCHANGED <<users, sessionVars>>

CheckEnabled(c) ==
    /\ At(c, "disable", "read")
    /\ IF Row(c).enabled /\ Row(c).secret = Mem(c) THEN Goto(c, "write") ELSE Finish(c)
    /\ UNCHANGED <<users, sessionVars>>

ClearSecret(c) ==
    /\ At(c, "disable", "write")
    /\ UpdateTwoFA(User(c), NoSecret, FALSE)
    /\ Finish(c)
    /\ UNCHANGED sessionVars

SessionStep(c) ==
    \/ FindAccount(c) \/ ReadAccount(c) \/ VerifyTwoFA(c) \/ ReadToken(c)
    \/ RevokeOld(c) \/ RevokeOne(c) \/ AnswerLogout(c) \/ RevokeAll(c) \/ StoreSecret(c)
    \/ CheckSecret(c) \/ EnableTwoFA(c) \/ CheckEnabled(c) \/ ClearSecret(c)
    \/ \E u \in UserIds : CreateAccount(c, u)
    \/ \E t \in TokenIds : OpenSession(c, t) \/ IssueNext(c, t)

SessionNext ==
    \/ \E c \in Workers :
          \/ SessionStep(c)
          \/ \E email \in Emails : GoogleLogin(c, email)
          \/ \E t \in TokenIds : RefreshToken(c, t) \/ Logout(c, t) \/ LogoutWithoutCookie(c, t)
          \/ \E u \in UserIds :
                \/ LogoutAll(c, u) \/ InitiateTwoFA(c, u)
                \/ \E password \in Passwords : Login(c, u, password)
                \/ \E code \in Secrets :
                      LoginTwoFA(c, u, code) \/ ConfirmTwoFA(c, u, code)
                      \/ DisableTwoFA(c, u, code)
    \/ \E t \in TokenIds : Expire(t)

-----------------------------------------------------------------------------
SessionsTypeOK ==
    /\ tokens \in [TokenIds -> [user : UserIds \cup {Nobody}, family : TokenIds \cup {0},
                                revoked : BOOLEAN, expired : BOOLEAN]]
    /\ challenged \subseteq UserIds
    /\ secretsMade \in 0..MaxSecrets
    /\ confirmed \subseteq Secrets
    /\ ended \subseteq {<<"family", t>> : t \in TokenIds}

\* What one state of the account's row allows a call to answer with success.
Allows(row, op, shown) ==
    CASE op = "login"  -> row.password = shown /\ ~row.enabled
      [] op = "google" -> ~row.enabled
      [] op = "second" -> row.enabled /\ row.secret = shown
      [] op = "pin"    -> row.pin = shown

\* A sign-in that succeeds, and a PIN that is accepted, was right at some one
\* moment of the call, whatever password changes, PIN changes and switches of
\* the second factor ran beside it: in particular no password and no Google
\* account opens a session of an account whose second factor was on throughout.
AnswersJustified ==
    \A c \in Workers : calls[c].pc \in {"issue", "accept"} /\ calls[c].op \in Answers =>
        \E row \in seen[c] : Allows(row, calls[c].op, Mem(c))

\* "Rotates the refresh token" (docs/API.md): of the tokens of a session one
\* is good, but for the one that is being exchanged, when no two calls worked
\* on the session at once and none was cut off.
OneGoodToken ==
    \A f \in {Family(t) : t \in {t \in TokenIds : Made(t)}} : Undisturbed(f) =>
        Cardinality({t \in TokenIds :
            /\ Live(t) /\ Family(t) = f
            /\ \A c \in Workers : ~(At(c, "refresh", "revoke") /\ Mem(c) = t)}) <= 1

\* A session that was ended, by a logout that came with its token or by one of
\* all sessions, has no good token, and no old token of it gets a new one,
\* unless a refresh ran beside the logout.  A logout without the cookie ends
\* nothing, whatever its answer says.
EndedStaysEnded ==
    \A t \in TokenIds : Live(t) /\ Undisturbed(Family(t)) => Family(t) \notin ended

\* A session has one good token until a logout revokes it, and none afterwards.
SessionsRotate == OneGoodToken /\ EndedStaysEnded

\* The second factor is on only with a secret the owner has shown a code of,
\* even when setups and confirmations of the account overlap: otherwise the
\* owner would be locked out.
EnabledIsConfirmed ==
    \A u \in UserIds : users[u].enabled => users[u].secret \in confirmed
=============================================================================
