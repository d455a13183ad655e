----------------------------- MODULE PhoneCodes -----------------------------
(***************************************************************************)
(* One-time codes sent to a phone (internal/auth/service/otp_service.go).  *)
(* The otp_codes table has one row per phone: a new code replaces the row. *)
(***************************************************************************)
EXTENDS Accounts

CONSTANT MaxCodes  \* bound: codes that are sent

ASSUME MaxCodesAssumption == MaxCodes \in Nat

VARIABLES
    codes,     \* the otp_codes table, by account, as its phone number is its own
    codesMade,
    received,  \* the codes whose message has arrived
    accepted   \* history: how often a code was accepted

codeVars == <<codes, codesMade, received, accepted>>

CodeIds == 1..MaxCodes
NoCode == [id |-> 0, used |-> FALSE, expired |-> FALSE]
Code(k) == <<"code", k>>

CodesInit ==
    /\ codes = [u \in UserIds |-> NoCode]
    /\ codesMade = 0
    /\ received = {}
    /\ accepted = [k \in CodeIds |-> 0]

SendPhoneOTP(c, u) ==
    /\ Exists(u) /\ codesMade < MaxCodes
    /\ Begin(c, "send", "store", {}, u, "nothing")
    /\ UNCHANGED <<users, codeVars>>

\* The new code takes the place of the last, used or not.
StoreCode(c) ==
    /\ At(c, "send", "store") /\ codesMade < MaxCodes
    /\ codesMade' = codesMade + 1
    /\ codes' = [codes EXCEPT ![User(c)] =
                   [id |-> codesMade + 1, used |-> FALSE, expired |-> FALSE]]
    /\ GotoWith(c, "message", codesMade + 1)
    /\ UNCHANGED <<users, received, accepted>>

\* The message arrives, or the provider refuses it.
SendSMS(c) ==
    /\ At(c, "send", "message")
    /\ received' \in {received, received \cup {Mem(c)}}
    /\ Finish(c)
    /\ UNCHANGED <<users, codes, codesMade, accepted>>

ExpireCode(u) ==
    /\ codes[u] # NoCode /\ ~codes[u].expired
    /\ codes' = [codes EXCEPT ![u].expired = TRUE]
    /\ UNCHANGED <<users, control, codesMade, received, accepted>>

VerifyPhoneOTP(c, u, k) ==
    /\ k \in received
    /\ Begin(c, "verify", "read", {Code(k)}, u, k)
    /\ UNCHANGED <<users, codeVars>>

\* Faulty: a used code is good until it expires.
ReadAnyCode(c) ==
    /\ At(c, "verify", "read")
    /\ IF codes[User(c)].id = Mem(c) /\ ~codes[User(c)].expired
       THEN Goto(c, "mark") ELSE Finish(c)
    /\ UNCHANGED <<users, codeVars>>

ReadCode(c) ==
    LET row == codes[User(c)] IN
    /\ At(c, "verify", "read")
    /\ IF row.id = Mem(c) /\ ~row.used /\ ~row.expired THEN Goto(c, "mark") ELSE Finish(c)
    /\ UNCHANGED <<users, codeVars>>

\* The row is marked by the code's id, and the code is accepted.
MarkUsed(c) ==
    /\ At(c, "verify", "mark")
    /\ codes' = [u \in UserIds |-> IF codes[u].id = Mem(c)
                                   THEN [codes[u] EXCEPT !.used = TRUE] ELSE codes[u]]
    /\ accepted' = [accepted EXCEPT ![Mem(c)] = @ + 1]
    /\ Finish(c)
    /\ UNCHANGED <<users, codesMade, received>>

\* An error of that statement is dropped: the code is accepted all the same.
MarkFails(c) ==
    /\ At(c, "verify", "mark")
    /\ faults < MaxFaults
    /\ faults' = faults + 1
    /\ hurt' = hurt \cup calls[c].on
    /\ accepted' = [accepted EXCEPT ![Mem(c)] = @ + 1]
    /\ calls' = [calls EXCEPT ![c] = Idle]
    /\ UNCHANGED <<users, work, codes, codesMade, received>>

CodeNext ==
    \/ \E c \in Workers :
          \/ StoreCode(c) \/ SendSMS(c) \/ ReadCode(c) \/ MarkUsed(c) \/ MarkFails(c)
          \/ \E u \in UserIds :
                SendPhoneOTP(c, u) \/ \E k \in CodeIds : VerifyPhoneOTP(c, u, k)
    \/ \E u \in UserIds : ExpireCode(u)

-----------------------------------------------------------------------------
CodesTypeOK ==
    /\ codes \in [UserIds -> [id : CodeIds \cup {0}, used : BOOLEAN, expired : BOOLEAN]]
    /\ codesMade \in 0..MaxCodes
    /\ received \subseteq CodeIds
    /\ accepted \in [CodeIds -> Nat]

\* A one-time code is accepted once, when no two verifications of it overlap
\* and the statement that marks it used did not fail.
CodeAcceptedOnce ==
    \A k \in CodeIds : Undisturbed(Code(k)) => accepted[k] <= 1

\* A code that was not accepted can still be: a verification of the code
\* before it, under way when the row was replaced, does not use it up.
FreshCodeIsGood ==
    \A u \in UserIds : codes[u].used => accepted[codes[u].id] > 0

\* A code is good once: not twice, and not less because of its predecessor.
CodesAreGoodOnce == CodeAcceptedOnce /\ FreshCodeIsGood
=============================================================================
