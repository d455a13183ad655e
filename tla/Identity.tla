------------------------------ MODULE Identity ------------------------------
(***************************************************************************)
(* Accounts, sessions, one-time codes and KYC reviews over the common      *)
(* users table.                                                            *)
(***************************************************************************)
EXTENDS Sessions, PhoneCodes, KycReviews

vars == <<users, control, seen, raced, sessionVars, codeVars, kycVars>>

Operations ==
    {"register", "password", "setpin", "pin", "login", "google", "second",
     "refresh", "logout", "logoutall", "setup", "enable", "disable",
     "send", "verify", "submit", "approve", "reject", "cutoff"}

ASSUME WorkloadsAssumption == \A load \in Workloads : load \subseteq Operations
ASSUME WorkersAssumption == Workers \subseteq Nat /\ IsFiniteSet(Workers)

AccountsTypeOK ==
    /\ \A u \in UserIds :
          /\ users[u].email \in Emails \cup {"none"}
          /\ users[u].password \in Passwords \cup {"none", NewPassword}
          /\ users[u].pin \in Pins \cup {"none"}
          /\ users[u].enabled \in BOOLEAN
          /\ users[u].secret \in Secrets \cup {NoSecret}
          /\ users[u].kyc \in 0..1
    /\ \A c \in Workers : calls[c].op \in work \cup {"idle"}
    /\ work \in Workloads
    /\ faults \in 0..MaxFaults

TypeOK == AccountsTypeOK /\ SessionsTypeOK /\ CodesTypeOK /\ KycTypeOK

\* The users table is sound: its rows have their types, and an address or a
\* phone number leads to one account.
UsersAreSound == TypeOK /\ NamesOneAccount

Init == AccountsInit /\ SessionsInit /\ CodesInit /\ KycInit

Managed == AccountNext /\ UNCHANGED <<sessionVars, codeVars, kycVars>>
SignedIn == SessionNext /\ UNCHANGED <<codeVars, kycVars>>
Texted == CodeNext /\ UNCHANGED <<sessionVars, kycVars>>
Reviewed == KycNext /\ UNCHANGED <<sessionVars, codeVars>>
Interrupted ==
    /\ \E c \in Workers : CutOff(c)
    /\ UNCHANGED <<users, sessionVars, codeVars, kycVars>>

Next ==
    /\ Managed \/ SignedIn \/ Texted \/ Reviewed \/ Interrupted
    /\ Remember
    /\ raced' = raced \cup Overlapping'

Spec == Init /\ [][Next]_vars
=============================================================================
