------------------------------ MODULE Accounts ------------------------------
(***************************************************************************)
(* The users table (internal/auth) and the calls that work on it.  A call  *)
(* is the handling of one request; it runs in one step per statement it    *)
(* sends to the database (none of them shares a transaction), and the      *)
(* steps of different calls interleave.                                    *)
(*                                                                         *)
(* seen, raced and hurt are history: the rows an account had while a call  *)
(* ran, the things two calls worked on at once, and the things a call left *)
(* half done when it was cut off.                                          *)
(***************************************************************************)
EXTENDS Integers, FiniteSets

CONSTANTS
    UserIds,    \* numbers, given out in order; user 1 exists at the start
    Emails,
    Phones,     \* numbers
    Passwords,
    Pins,
    Workers,    \* bound: calls in progress at a time
    Workloads,  \* bound: what happens in one behaviour: one of these sets of
                \* operations, and calls are cut off when "cutoff" is in it
    MaxFaults   \* bound: calls that are cut off between two steps

ASSUME UserIdsAssumption == UserIds \subseteq Nat \ {0} /\ 1 \in UserIds
ASSUME EmailsAssumption == Emails # {} /\ "none" \notin Emails
ASSUME PhonesAssumption == Phones # {} /\ Phones \subseteq Nat \ {0}
ASSUME PasswordsAssumption == Passwords # {}
ASSUME AccountBoundsAssumption == MaxFaults \in Nat

VARIABLES users, calls, work, faults, seen, raced, hurt

control == <<calls, work, faults, hurt>>

-----------------------------------------------------------------------------
Nobody == 0
NoSecret == 0
NewPassword == "random"   \* of an account that a Google login makes
GooglePhone(u) == -u      \* "placeholder:" and a string of its own
NoUser == [email |-> "none", phone |-> 0, password |-> "none", pin |-> "none",
           enabled |-> FALSE, secret |-> NoSecret, kyc |-> 0]
FirstUser == [NoUser EXCEPT !.email = CHOOSE e \in Emails : TRUE,
                            !.phone = CHOOSE p \in Phones : TRUE,
                            !.password = CHOOSE p \in Passwords : TRUE]
Exists(u) == users[u] # NoUser
FindByEmail(email) == {u \in UserIds : users[u].email = email}
FindByPhone(phone) == {u \in UserIds : users[u].phone = phone}

\* op is the request, pc the statement it sends next, on what it works on and
\* what it holds, user the account it is about, mem what it has read.
Idle == [op |-> "idle", pc |-> "idle", on |-> {}, user |-> Nobody, mem |-> "nothing"]
Busy(c) == calls[c].op # "idle"
At(c, op, pc) == calls[c].op = op /\ calls[c].pc = pc
User(c) == calls[c].user
Mem(c) == calls[c].mem
Row(c) == users[User(c)]

Goto(c, pc) == calls' = [calls EXCEPT ![c].pc = pc] /\ UNCHANGED <<work, faults, hurt>>
GotoWith(c, pc, mem) ==
    /\ calls' = [calls EXCEPT ![c].pc = pc, ![c].mem = mem]
    /\ UNCHANGED <<work, faults, hurt>>
Finish(c) == calls' = [calls EXCEPT ![c] = Idle] /\ UNCHANGED <<work, faults, hurt>>

\* A request arrives for the first idle worker.
Begin(c, op, pc, on, u, mem) ==
    /\ op \in work
    /\ ~Busy(c)
    /\ \A b \in Workers : b < c => Busy(b)
    /\ calls' = [calls EXCEPT ![c] =
                   [op |-> op, pc |-> pc, on |-> on, user |-> u, mem |-> mem]]
    /\ UNCHANGED <<work, faults, hurt>>

\* The server stops, the client is gone or the database is away.
CutOff(c) ==
    /\ "cutoff" \in work
    /\ Busy(c)
    /\ faults < MaxFaults
    /\ faults' = faults + 1
    /\ hurt' = hurt \cup calls[c].on
    /\ calls' = [calls EXCEPT ![c] = Idle]
    /\ UNCHANGED work

Overlapping ==
    {x \in UNION {calls[c].on : c \in Workers} :
        Cardinality({c \in Workers : x \in calls[c].on}) > 1}
Undisturbed(thing) == thing \notin raced \cup hurt

\* The operations whose answer depends on the account's row.
Answers == {"login", "google", "second", "pin"}
SeenBy(c) == IF calls[c].op \in Answers /\ User(c) # Nobody THEN {Row(c)} ELSE {}
Remember == seen' = [c \in Workers |-> IF Busy(c) /\ Busy(c)'
                                       THEN seen[c] \cup SeenBy(c)' ELSE SeenBy(c)']

AccountsInit ==
    /\ users = [u \in UserIds |-> IF u = 1 THEN FirstUser ELSE NoUser]
    /\ calls = [c \in Workers |-> Idle]
    /\ work \in Workloads
    /\ faults = 0
    /\ seen = [c \in Workers |-> {}]
    /\ raced = {}
    /\ hurt = {}

-----------------------------------------------------------------------------
\* Registering: two lookups, then the insert.
Register(c, email, phone, password) ==
    /\ Begin(c, "register", "email", {}, Nobody,
             [email |-> email, phone |-> phone, password |-> password])
    /\ UNCHANGED users

LookUpEmail(c) ==
    /\ At(c, "register", "email")
    /\ IF FindByEmail(Mem(c).email) = {} THEN Goto(c, "phone") ELSE Finish(c)
    /\ UNCHANGED users

LookUpPhone(c) ==
    /\ At(c, "register", "phone")
    /\ IF FindByPhone(Mem(c).phone) = {} THEN Goto(c, "create") ELSE Finish(c)
    /\ UNCHANGED users

UnusedId(u) == ~Exists(u) /\ \A v \in UserIds : v < u => Exists(v)
Insert(u, email, phone, password) ==
    /\ UnusedId(u)
    /\ users' = [users EXCEPT ![u] = [NoUser EXCEPT !.email = email, !.phone = phone,
                                                    !.password = password]]

\* Faulty: a table without the unique index of the e-mail address.
CreateSharedEmail(c, u) ==
    /\ At(c, "register", "create")
    /\ IF FindByPhone(Mem(c).phone) = {}
       THEN Insert(u, Mem(c).email, Mem(c).phone, Mem(c).password)
       ELSE UNCHANGED users
    /\ Finish(c)

\* The unique indexes of the table refuse what another call has inserted.
CreateUser(c, u) ==
    /\ At(c, "register", "create")
    /\ IF FindByEmail(Mem(c).email) \cup FindByPhone(Mem(c).phone) = {}
       THEN Insert(u, Mem(c).email, Mem(c).phone, Mem(c).password)
       ELSE UNCHANGED users
    /\ Finish(c)

-----------------------------------------------------------------------------
\* Password and trading PIN.  Each update writes its own column only.
ChangePassword(c, u, old, new) ==
    /\ Exists(u)
    /\ Begin(c, "password", "read", {}, u, [old |-> old, new |-> new])
    /\ UNCHANGED users

CheckPassword(c) ==
    /\ At(c, "password", "read")
    /\ IF Row(c).password = Mem(c).old
       THEN GotoWith(c, "write", [row |-> Row(c), new |-> Mem(c).new])
       ELSE Finish(c)
    /\ UNCHANGED users

\* Faulty: the row that was read is saved as a whole (userRepository.Update).
SavePassword(c) ==
    /\ At(c, "password", "write")
    /\ users' = [users EXCEPT ![User(c)] = [Mem(c).row EXCEPT !.password = Mem(c).new]]
    /\ Finish(c)

WritePassword(c) ==
    /\ At(c, "password", "write")
    /\ users' = [users EXCEPT ![User(c)].password = Mem(c).new]
    /\ Finish(c)

SetTradingPIN(c, u, pin) ==
    /\ Exists(u)
    /\ Begin(c, "setpin", "write", {}, u, pin)
    /\ UNCHANGED users

WritePIN(c) ==
    /\ At(c, "setpin", "write")
    /\ users' = [users EXCEPT ![User(c)].pin = Mem(c)]
    /\ Finish(c)

VerifyTradingPIN(c, u, pin) ==
    /\ Exists(u)
    /\ Begin(c, "pin", "read", {}, u, pin)
    /\ UNCHANGED users

\* A wrong PIN ends the call; a right one is still to be answered.
CheckPIN(c) ==
    /\ At(c, "pin", "read")
    /\ IF Row(c).pin = Mem(c) THEN Goto(c, "accept") ELSE Finish(c)
    /\ UNCHANGED users

AcceptPIN(c) ==
    /\ At(c, "pin", "accept")
    /\ Finish(c)
    /\ UNCHANGED users

AccountStep(c) ==
    \/ LookUpEmail(c) \/ LookUpPhone(c) \/ \E u \in UserIds : CreateUser(c, u)
    \/ CheckPassword(c) \/ WritePassword(c)
    \/ WritePIN(c) \/ CheckPIN(c) \/ AcceptPIN(c)

AccountNext ==
    \E c \in Workers :
        \/ AccountStep(c)
        \/ \E email \in Emails, phone \in Phones, password \in Passwords :
              Register(c, email, phone, password)
        \/ \E u \in UserIds :
              \/ \E old, new \in Passwords : ChangePassword(c, u, old, new)
              \/ \E pin \in Pins : SetTradingPIN(c, u, pin) \/ VerifyTradingPIN(c, u, pin)

-----------------------------------------------------------------------------
\* An e-mail address and a phone number name one account, although Register
\* looks them up before it inserts and a Google login may insert in between.
\* The one-time codes are kept by phone number and rely on it.
NamesOneAccount ==
    \A u, v \in UserIds : Exists(u) /\ Exists(v) /\ u # v =>
        users[u].email # users[v].email /\ users[u].phone # users[v].phone
=============================================================================
