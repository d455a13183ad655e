----------------------------- MODULE MCIdentity -----------------------------
(***************************************************************************)
(* Inputs of the identity run: what the clients of one behaviour call.     *)
(***************************************************************************)
EXTENDS Identity

SigningUp == {"register", "google", "cutoff"}
SecondFactor == {"login", "second", "setup", "enable", "disable", "cutoff"}
WithGoogle == {"google", "setup", "enable"}
Changing == {"login", "password", "setpin", "pin"}
Refreshing == {"login", "refresh", "logout"}
Leaving == {"login", "refresh", "logoutall"}
HalfRefreshed == {"login", "refresh", "cutoff"}
Texting == {"send", "verify", "cutoff"}
Reviewing == {"submit", "approve", "reject", "cutoff"}
Levelling == {"submit", "approve", "password"}

EveryWorkload ==
    {SigningUp, SecondFactor, WithGoogle, Changing, Refreshing, Leaving,
     HalfRefreshed, Texting, Reviewing, Levelling}
=============================================================================
