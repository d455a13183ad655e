--------------------------- MODULE IdentityProofs ---------------------------
(***************************************************************************)
(* Proofs about accounts, sessions, one-time codes and KYC reviews, for    *)
(* every finite number of calls at a time and all numbers of accounts,     *)
(* tokens, codes and submissions.                                          *)
(***************************************************************************)
EXTENDS Identity, TLAPS, FiniteSetTheorems

-----------------------------------------------------------------------------
\* How calls move.

CallOf(op, pc, on, u, mem) == [op |-> op, pc |-> pc, on |-> on, user |-> u, mem |-> mem]

\* A call's record has its five fields.
Shape ==
    calls = [c \in Workers |-> [op |-> calls[c].op, pc |-> calls[c].pc, on |-> calls[c].on,
                                user |-> calls[c].user, mem |-> calls[c].mem]]

\* Call c becomes what is given, and no other call moves.
Turns(c, op, pc, on, u, mem) ==
    /\ Shape'
    /\ calls'[c].op = op /\ calls'[c].pc = pc /\ calls'[c].on = on
    /\ calls'[c].user = u /\ calls'[c].mem = mem
    /\ \A d \in Workers : d # c => calls'[d] = calls[d]

LEMMA Replaces ==
  ASSUME Shape, NEW c \in Workers, NEW op, NEW pc, NEW on, NEW u, NEW mem,
         calls' = [calls EXCEPT ![c] = [op |-> op, pc |-> pc, on |-> on, user |-> u, mem |-> mem]]
  PROVE  Turns(c, op, pc, on, u, mem)
<1> DEFINE r == [op |-> op, pc |-> pc, on |-> on, user |-> u, mem |-> mem]
<1>1. DOMAIN calls = Workers /\ \A d \in Workers :
         calls[d] = [op |-> calls[d].op, pc |-> calls[d].pc, on |-> calls[d].on,
                     user |-> calls[d].user, mem |-> calls[d].mem]
  BY DEF Shape
<1>2. r.op = op /\ r.pc = pc /\ r.on = on /\ r.user = u /\ r.mem = mem
  OBVIOUS
<1>3. r = [op |-> r.op, pc |-> r.pc, on |-> r.on, user |-> r.user, mem |-> r.mem]
  BY <1>2
<1> HIDE DEF r
<1>4. calls' = [calls EXCEPT ![c] = r]
  BY DEF r
<1>5. calls'[c] = r /\ \A d \in Workers : d # c => calls'[d] = calls[d]
  BY <1>1, <1>4
<1>6. calls' = [d \in Workers |-> calls'[d]]
  BY <1>1, <1>4
<1>7. \A d \in Workers : calls'[d] =
         [op |-> calls'[d].op, pc |-> calls'[d].pc, on |-> calls'[d].on,
          user |-> calls'[d].user, mem |-> calls'[d].mem]
  BY <1>1, <1>3, <1>5
<1>8. Shape'
  BY <1>6, <1>7 DEF Shape
<1> QED BY <1>2, <1>5, <1>8 DEF Turns

LEMMA StepTurns ==
  ASSUME Shape, NEW c \in Workers, NEW pc, calls' = [calls EXCEPT ![c].pc = pc]
  PROVE  Turns(c, calls[c].op, pc, calls[c].on, calls[c].user, calls[c].mem)
<1>1. calls[c] = [op |-> calls[c].op, pc |-> calls[c].pc, on |-> calls[c].on,
                  user |-> calls[c].user, mem |-> calls[c].mem]
  BY DEF Shape
<1>2. [calls[c] EXCEPT !.pc = pc] = [op |-> calls[c].op, pc |-> pc, on |-> calls[c].on,
                                     user |-> calls[c].user, mem |-> calls[c].mem]
  BY <1>1
<1>3. calls' = [calls EXCEPT ![c] = [calls[c] EXCEPT !.pc = pc]]
  OBVIOUS
<1> QED BY <1>2, <1>3, Replaces

LEMMA GotoTurns ==
  ASSUME Shape, NEW c \in Workers, NEW pc, Goto(c, pc)
  PROVE  /\ Turns(c, calls[c].op, pc, calls[c].on, calls[c].user, calls[c].mem)
         /\ UNCHANGED <<work, faults, hurt>>
BY StepTurns DEF Goto

LEMMA GotoWithTurns ==
  ASSUME Shape, NEW c \in Workers, NEW pc, NEW mem, GotoWith(c, pc, mem)
  PROVE  /\ Turns(c, calls[c].op, pc, calls[c].on, calls[c].user, mem)
         /\ UNCHANGED <<work, faults, hurt>>
<1>1. PICK r, op, on, u, old, m :
         /\ r = calls[c] /\ op = calls[c].op /\ m = calls[c].pc /\ on = calls[c].on
         /\ u = calls[c].user /\ old = calls[c].mem
  OBVIOUS
<1>2. r = CallOf(op, m, on, u, old)
  BY <1>1 DEF Shape, CallOf
<1>3. [r EXCEPT !.pc = pc, !.mem = mem] = CallOf(op, pc, on, u, mem)
  <2>1. PICK s : s = [r EXCEPT !.pc = pc]
    OBVIOUS
  <2>2. s = [op |-> op, pc |-> pc, on |-> on, user |-> u, mem |-> old]
    BY ONLY <1>2, <2>1 DEF CallOf
  <2>3. [s EXCEPT !.mem = mem] = CallOf(op, pc, on, u, mem)
    BY ONLY <2>2 DEF CallOf
  <2> QED BY ONLY <2>1, <2>3
<1>4. calls' = [calls EXCEPT ![c] = [r EXCEPT !.pc = pc, !.mem = mem]]
  BY <1>1 DEF GotoWith, Shape
<1>5. Turns(c, op, pc, on, u, mem)
  BY <1>3, <1>4, Replaces DEF CallOf
<1> QED BY <1>1, <1>5 DEF GotoWith

\* A call finds its account and goes on.
LEMMA FoundTurns ==
  ASSUME Shape, NEW c \in Workers, NEW pc, NEW w,
         calls' = [calls EXCEPT ![c].pc = pc, ![c].user = w]
  PROVE  Turns(c, calls[c].op, pc, calls[c].on, w, calls[c].mem)
<1>1. PICK r, op, on, u, old, m :
         /\ r = calls[c] /\ op = calls[c].op /\ m = calls[c].pc /\ on = calls[c].on
         /\ u = calls[c].user /\ old = calls[c].mem
  OBVIOUS
<1>2. r = CallOf(op, m, on, u, old)
  BY <1>1 DEF Shape, CallOf
<1>3. [r EXCEPT !.pc = pc, !.user = w] = CallOf(op, pc, on, w, old)
  <2>1. PICK s : s = [r EXCEPT !.pc = pc]
    OBVIOUS
  <2>2. s = [op |-> op, pc |-> pc, on |-> on, user |-> u, mem |-> old]
    BY ONLY <1>2, <2>1 DEF CallOf
  <2>3. [s EXCEPT !.user = w] = CallOf(op, pc, on, w, old)
    BY ONLY <2>2 DEF CallOf
  <2> QED BY ONLY <2>1, <2>3
<1>4. calls' = [calls EXCEPT ![c] = [r EXCEPT !.pc = pc, !.user = w]]
  BY <1>1 DEF Shape
<1>5. Turns(c, op, pc, on, w, old)
  BY <1>3, <1>4, Replaces DEF CallOf
<1> QED BY <1>1, <1>5

LEMMA FinishTurns ==
  ASSUME Shape, NEW c \in Workers, Finish(c)
  PROVE  /\ Turns(c, "idle", "idle", {}, Nobody, "nothing")
         /\ UNCHANGED <<work, faults, hurt>>
BY Replaces DEF Finish, Idle

LEMMA BeginTurns ==
  ASSUME Shape, NEW c \in Workers, NEW op, NEW pc, NEW on, NEW u, NEW mem,
         Begin(c, op, pc, on, u, mem)
  PROVE  /\ Turns(c, op, pc, on, u, mem)
         /\ calls[c].op = "idle" /\ op \in work
         /\ UNCHANGED <<work, faults, hurt>>
BY Replaces DEF Begin, Busy

-----------------------------------------------------------------------------
\* The invariant.

AccountOps == {"register", "password", "setpin", "pin"}
SessionOps == {"login", "google", "second", "refresh", "logout", "logoutall",
               "setup", "enable", "disable"}
CodeOps == {"send", "verify"}
KycOps == {"submit", "approve", "reject"}

UserRows == [email : Emails \cup {"none"}, phone : Int,
             password : Passwords \cup {"none", NewPassword}, pin : Pins \cup {"none"},
             enabled : BOOLEAN, secret : Secrets \cup {NoSecret}, kyc : 0..1]

\* The users table: an account has its number or a placeholder of its own.
UsersOK ==
    /\ users \in [UserIds -> UserRows]
    /\ \A u \in UserIds : Exists(u) => users[u].phone \in Phones \cup {GooglePhone(u)}
    /\ NamesOneAccount

\* Does a call of operation op, at statement pc, know its account?
Named(op, pc) ==
    /\ op \notin {"idle", "register", "verify"}
    /\ op = "google" => pc \notin {"find", "create"}
CallerOK(c) ==
    /\ calls[c].op \in work \cup {"idle"}
    /\ Named(calls[c].op, calls[c].pc) => User(c) \in UserIds /\ Exists(User(c))

\* What a call of operation op remembers.
Remembers(op, mem) ==
    /\ op = "register" => /\ mem.email \in Emails /\ mem.phone \in Phones
                          /\ mem.password \in Passwords
    /\ op = "password" => mem.new \in Passwords
    /\ op \in {"setpin", "pin"} => mem \in Pins
    /\ op = "google" => mem \in Emails
    /\ op \in {"setup", "enable", "disable"} => mem \in Secrets
    /\ op \in {"refresh", "logout"} => mem \in TokenIds
    /\ op = "verify" => mem \in CodeIds
    /\ op \in {"approve", "reject"} => mem \in SubmissionIds
CallsOK ==
    /\ Shape /\ work \in Workloads /\ faults \in 0..MaxFaults
    /\ \A c \in Workers : CallerOK(c) /\ Remembers(calls[c].op, calls[c].mem)

\* Things two calls work on at once are known to have been raced for.
RacesOK ==
    \A c, d \in Workers : c # d => \A x \in calls[c].on \cap calls[d].on : x \in raced

\* How sessions are told apart: a token's family is that of a token of the same
\* user, and a family that was ended has tokens.
TokensOK ==
    /\ SessionsTypeOK
    /\ \A t \in TokenIds : Made(t) =>
          /\ tokens[t].user \in UserIds /\ tokens[t].family \in TokenIds
          /\ Made(tokens[t].family) /\ tokens[tokens[t].family].user = tokens[t].user
          /\ Exists(tokens[t].user)
    /\ \A u \in challenged : Exists(u)
    /\ \A t \in TokenIds : <<"family", t>> \in ended => Made(t)

\* Tokens that are not about to be revoked.
Good(t) == Live(t) /\ \A c \in Workers : ~(At(c, "refresh", "revoke") /\ Mem(c) = t)
OneGood ==
    \A s, t \in TokenIds :
        Good(s) /\ Good(t) /\ Family(s) = Family(t) /\ Undisturbed(Family(s)) => s = t

\* What the calls on a session work on; a refresh that has found its token good
\* has found the only good one of its session.
SessionCall(c) ==
    /\ calls[c].op = "refresh" \/ At(c, "logout", "revoke") =>
          Made(Mem(c)) /\ tokens[Mem(c)].user = User(c) /\ calls[c].on = {Family(Mem(c))}
    /\ calls[c].op = "logoutall" => \A t \in TokenIds :
          /\ ~Made(t) => <<"family", t>> \in calls[c].on
          /\ Made(t) /\ tokens[t].user = User(c) => Family(t) \in calls[c].on
    /\ At(c, "refresh", "issue") /\ Undisturbed(Family(Mem(c))) =>
          /\ Family(Mem(c)) \notin ended
          /\ \A t \in TokenIds : Live(t) /\ Family(t) = Family(Mem(c)) => t = Mem(c)
    /\ At(c, "enable", "write") => Mem(c) \in confirmed
SessionsOK ==
    /\ TokensOK /\ OneGood /\ EndedStaysEnded /\ EnabledIsConfirmed
    /\ \A c \in Workers : SessionCall(c)

\* A code that was accepted is used up or replaced, and a verification that
\* has found it good is the first to accept it.
CodeCall(c) ==
    /\ At(c, "send", "message") => Mem(c) \in 1..codesMade
    /\ calls[c].op = "verify" =>
          User(c) \in UserIds /\ Mem(c) <= codesMade /\ calls[c].on = {Code(Mem(c))}
    /\ At(c, "verify", "mark") /\ Undisturbed(Code(Mem(c))) => accepted[Mem(c)] = 0
CodesOK ==
    /\ CodesTypeOK /\ FreshCodeIsGood
    /\ \A u \in UserIds : codes[u].id <= codesMade /\ (codes[u].used => codes[u].id \in CodeIds)
    /\ \A k \in received : k <= codesMade
    /\ \A k \in CodeIds : k > codesMade => accepted[k] = 0
    /\ \A k \in CodeIds : Undisturbed(Code(k)) =>
          /\ accepted[k] <= 1
          /\ accepted[k] > 0 => \A u \in UserIds : codes[u].id = k => codes[u].used
    /\ \A c \in Workers : CodeCall(c)

\* Submissions are made one after the other; of a user's, the last is the only
\* one that may be pending, and none is when a new one is about to be made.
KycCall(c) ==
    /\ calls[c].op = "submit" => calls[c].on = {Submitting(User(c))}
    /\ At(c, "submit", "create") /\ Submitting(User(c)) \notin raced \cup hurt =>
          \A s \in Submissions(User(c)) : submissions[s].status # "pending"
    /\ calls[c].op \in {"approve", "reject"} =>
          submissions[Mem(c)].user = User(c) /\ calls[c].on = {Review(Mem(c))}
    /\ At(c, "approve", "level") => Mem(c) \in everApproved
KycOK ==
    /\ KycTypeOK /\ LevelIsEarned
    /\ \A s \in SubmissionIds : submissions[s] # NoSubmission =>
          submissions[s].user \in UserIds /\ Exists(submissions[s].user)
    /\ \A r, s \in SubmissionIds : r < s /\ submissions[s] # NoSubmission =>
          submissions[r] # NoSubmission
    /\ \A s \in everApproved : submissions[s] # NoSubmission
    /\ \A u \in UserIds : Submitting(u) \notin raced \cup hurt =>
          \A s, r \in Submissions(u) : submissions[s].status = "pending" => r <= s
    /\ \A c \in Workers : KycCall(c)

Inv == CallsOK /\ UsersOK /\ RacesOK /\ AnswersJustified /\ SessionsOK /\ CodesOK /\ KycOK

-----------------------------------------------------------------------------
\* What a step may do to the calls and to the users.

\* Calls of operations ops move, others do not.
Touches(ops) ==
    \A c \in Workers :
        calls'[c] = calls[c] \/ {calls[c].op, calls'[c].op} \subseteq ops \cup {"idle"}

\* A call comes to the point where it answers with success only when its
\* account's row allows it at that moment.
Justified ==
    \A c \in Workers : calls'[c].pc \in {"issue", "accept"} /\ calls'[c].op \in Answers =>
        \/ calls'[c] = calls[c]
        \/ /\ calls'[c].user # Nobody
           /\ Allows(users'[calls'[c].user], calls'[c].op, calls'[c].mem)

\* No account goes away.
UsersStay == \A u \in UserIds : Exists(u) => Exists(u)'

LEMMA CallTurns ==
  ASSUME CallsOK, UsersStay, work' = work, faults' \in 0..MaxFaults,
         NEW c \in Workers, NEW op, NEW pc, NEW on, NEW u, NEW mem,
         Turns(c, op, pc, on, u, mem),
         op \in work \cup {"idle"},
         Named(op, pc) => u \in UserIds /\ Exists(u)',
         Remembers(op, mem)
  PROVE  CallsOK'
<1>1. \A d \in Workers : d # c => calls'[d] = calls[d]
  BY DEF Turns
<1>2. /\ calls'[c].op = op /\ calls'[c].pc = pc /\ calls'[c].user = u /\ calls'[c].mem = mem
      /\ Shape'
  BY DEF Turns
<1>3. ASSUME NEW d \in Workers, d # c
      PROVE  CallerOK(d)' /\ Remembers(calls'[d].op, calls'[d].mem)
  <2>1. CallerOK(d) /\ Remembers(calls[d].op, calls[d].mem) /\ calls'[d] = calls[d]
    BY <1>1, <1>3 DEF CallsOK
  <2>2. PICK v : v = calls[d].user
    OBVIOUS
  <2>3. v \in UserIds /\ Exists(v) => Exists(v)'
    BY DEF UsersStay
  <2> QED BY <2>1, <2>2, <2>3 DEF CallerOK, User, Exists
<1>4. CallerOK(c)' /\ Remembers(calls'[c].op, calls'[c].mem)
  BY <1>2 DEF CallerOK, User, Exists
<1> QED BY <1>2, <1>3, <1>4 DEF CallsOK

\* A row is written, not its name: e-mail address and number stay.
LEMMA RowWritten ==
  ASSUME UsersOK, NEW u \in UserIds, Exists(u), NEW r \in UserRows,
         users' = [users EXCEPT ![u] = r],
         r.email = users[u].email, r.phone = users[u].phone
  PROVE  /\ UsersOK' /\ UsersStay
         /\ users'[u] = r /\ \A v \in UserIds : v # u => users'[v] = users[v]
<1>1. /\ users' \in [UserIds -> UserRows]
      /\ users'[u] = r /\ \A v \in UserIds : v # u => users'[v] = users[v]
  BY DEF UsersOK
<1>2. r # NoUser
  <2>1. u \in Nat /\ u # 0
    BY UserIdsAssumption
  <2>2. r.phone \in Phones \cup {-u}
    BY DEF UsersOK, GooglePhone
  <2>3. r.phone # 0
    BY <2>1, <2>2, PhonesAssumption
  <2> QED BY <2>3 DEF NoUser
<1>3. \A v \in UserIds : /\ Exists(v) <=> Exists(v)'
                         /\ users'[v].email = users[v].email /\ users'[v].phone = users[v].phone
  BY <1>1, <1>2 DEF Exists
<1> QED BY <1>1, <1>3 DEF UsersOK, UsersStay, NamesOneAccount

LEMMA RowInserted ==
  ASSUME UsersOK, NEW u \in UserIds, NEW email \in Emails, NEW phone, NEW password,
         phone \in Phones \/ phone = GooglePhone(u), password \in Passwords \cup {NewPassword},
         Insert(u, email, phone, password), FindByEmail(email) = {},
         phone \in Phones => FindByPhone(phone) = {}
  PROVE  /\ UsersOK' /\ UsersStay
         /\ \A v \in UserIds : /\ users'[v].enabled = users[v].enabled
                               /\ users'[v].secret = users[v].secret
                               /\ users'[v].kyc = users[v].kyc
         /\ Exists(u)' /\ users'[u].enabled = FALSE
<1>0. u \in Nat /\ u # 0
  BY UserIdsAssumption
<1>1. PICK r : r = [NoUser EXCEPT !.email = email, !.phone = phone, !.password = password]
  OBVIOUS
<1>2. /\ r.email = email /\ r.phone = phone /\ r.password = password /\ r.pin = "none"
      /\ r.enabled = FALSE /\ r.secret = NoSecret /\ r.kyc = 0
  BY <1>1 DEF NoUser
<1>3. phone \in Int /\ phone # 0
  <2>1. CASE phone \in Phones
    <3>1. phone \in Nat \ {0}
      BY <2>1, PhonesAssumption
    <3> QED BY <3>1
  <2>2. CASE phone = GooglePhone(u)
    BY <1>0, <2>2 DEF GooglePhone
  <2> QED BY <2>1, <2>2
<1>4. r \in UserRows
  <2>1. r = [email |-> email, phone |-> phone, password |-> password, pin |-> "none",
             enabled |-> FALSE, secret |-> NoSecret, kyc |-> 0]
    <3>1. PICK r1 : r1 = [NoUser EXCEPT !.email = email]
      OBVIOUS
    <3>2. r1 = [email |-> email, phone |-> 0, password |-> "none", pin |-> "none",
                enabled |-> FALSE, secret |-> NoSecret, kyc |-> 0]
      BY ONLY <3>1 DEF NoUser
    <3>3. PICK r2 : r2 = [r1 EXCEPT !.phone = phone]
      OBVIOUS
    <3>4. r2 = [email |-> email, phone |-> phone, password |-> "none", pin |-> "none",
                enabled |-> FALSE, secret |-> NoSecret, kyc |-> 0]
      BY ONLY <3>2, <3>3
    <3>5. r = [r2 EXCEPT !.password = password]
      BY ONLY <1>1, <3>1, <3>3
    <3> QED BY ONLY <3>4, <3>5
  <2> QED BY <1>3, <2>1 DEF UserRows
<1>5. users' = [users EXCEPT ![u] = r] /\ ~Exists(u)
  BY <1>1 DEF Insert, UnusedId
<1>6. /\ users' \in [UserIds -> UserRows]
      /\ users'[u] = r /\ \A v \in UserIds : v # u => users'[v] = users[v]
  BY <1>4, <1>5 DEF UsersOK
<1>7. r # NoUser
  BY <1>2, <1>3 DEF NoUser
<1>8. \A v \in UserIds : (Exists(v)' <=> Exists(v) \/ v = u)
  BY <1>6, <1>7 DEF Exists
<1>9. ASSUME NEW v \in UserIds, Exists(v), v # u
      PROVE  users[v].email # email /\ users[v].phone # phone
  <2>1. users[v].email # email
    BY DEF FindByEmail
  <2>2. phone \in Phones => users[v].phone # phone
    BY DEF FindByPhone
  <2>3. users[v].phone \in Phones \cup {-v} /\ v \in Nat
    BY <1>9, UserIdsAssumption DEF UsersOK, GooglePhone
  <2>4. phone \notin Phones => users[v].phone # phone
    BY <1>0, <1>9, <2>3, PhonesAssumption DEF GooglePhone
  <2> QED BY <2>1, <2>2, <2>4
<1>10. NamesOneAccount'
  <2> SUFFICES ASSUME NEW v \in UserIds, NEW w \in UserIds, Exists(v)', Exists(w)', v # w
               PROVE  users'[v].email # users'[w].email /\ users'[v].phone # users'[w].phone
    BY DEF NamesOneAccount
  <2>1. CASE v # u /\ w # u
    BY <1>6, <1>8, <2>1 DEF UsersOK, NamesOneAccount
  <2>2. CASE v = u
    BY <1>2, <1>6, <1>8, <1>9, <2>2
  <2>3. CASE w = u
    BY <1>2, <1>6, <1>8, <1>9, <2>3
  <2> QED BY <2>1, <2>2, <2>3
<1>11. UsersOK'
  BY <1>2, <1>6, <1>8, <1>10 DEF UsersOK
<1>12. \A v \in UserIds : /\ users'[v].enabled = users[v].enabled
                          /\ users'[v].secret = users[v].secret
                          /\ users'[v].kyc = users[v].kyc
  <2>1. /\ users[u].enabled = FALSE /\ users[u].secret = NoSecret
        /\ users[u].kyc = 0
    <3>1. users[u] = NoUser
      BY <1>5 DEF Exists
    <3>2. NoUser.enabled = FALSE /\ NoUser.secret = NoSecret /\ NoUser.kyc = 0
      BY DEF NoUser
    <3> QED BY <3>1, <3>2
  <2>2. /\ users'[u].enabled = FALSE /\ users'[u].secret = NoSecret
        /\ users'[u].kyc = 0
    BY <1>2, <1>6
  <2> TAKE v \in UserIds
  <2>3. CASE v = u
    <3>1. users'[u].enabled = users[u].enabled
      BY <2>1, <2>2
    <3> QED BY <2>1, <2>2, <2>3, <3>1
  <2>4. CASE v # u
    BY <1>6, <2>4
  <2> QED BY <2>3, <2>4
<1> QED BY <1>2, <1>6, <1>8, <1>11, <1>12 DEF UsersStay

LEMMA TurnMoves ==
  ASSUME CallsOK, UsersStay, work' = work, faults' \in 0..MaxFaults,
         NEW c \in Workers, NEW op, NEW pc, NEW on, NEW u, NEW mem,
         Turns(c, op, pc, on, u, mem),
         op \in work \cup {"idle"},
         Named(op, pc) => u \in UserIds /\ Exists(u)',
         Remembers(op, mem),
         NEW ops, calls[c].op \in ops \cup {"idle"}, op \in ops \cup {"idle"},
         pc \in {"issue", "accept"} /\ op \in Answers =>
            u # Nobody /\ Allows(users'[u], op, mem)
  PROVE  CallsOK' /\ Touches(ops) /\ Justified
<1>1. CallsOK'
  BY CallTurns
<1>2. /\ \A d \in Workers : d # c => calls'[d] = calls[d]
      /\ calls'[c].op = op /\ calls'[c].pc = pc /\ calls'[c].user = u /\ calls'[c].mem = mem
  BY DEF Turns
<1>3. Touches(ops)
  BY <1>2 DEF Touches
<1>4. Justified
  BY <1>2 DEF Justified
<1> QED BY <1>1, <1>3, <1>4

LEMMA FinishMoves ==
  ASSUME CallsOK, UsersStay, NEW c \in Workers, Finish(c),
         NEW ops, calls[c].op \in ops \cup {"idle"}
  PROVE  /\ CallsOK' /\ Touches(ops) /\ Justified
         /\ Turns(c, "idle", "idle", {}, Nobody, "nothing") /\ hurt' = hurt
<1>1. /\ Turns(c, "idle", "idle", {}, Nobody, "nothing")
      /\ UNCHANGED <<work, faults, hurt>> /\ faults' \in 0..MaxFaults
  BY FinishTurns DEF CallsOK
<1>2. ~Named("idle", "idle") /\ Remembers("idle", "nothing") /\ "idle" \notin Answers
  BY DEF Named, Remembers, Answers
<1> QED BY <1>1, <1>2, TurnMoves

LEMMA BeginMoves ==
  ASSUME CallsOK, UsersStay, NEW c \in Workers, NEW op, NEW pc, NEW on, NEW u, NEW mem,
         Begin(c, op, pc, on, u, mem),
         Named(op, pc) => u \in UserIds /\ Exists(u)',
         Remembers(op, mem),
         NEW ops, op \in ops, pc \notin {"issue", "accept"}
  PROVE  /\ CallsOK' /\ Touches(ops) /\ Justified
         /\ Turns(c, op, pc, on, u, mem) /\ hurt' = hurt /\ calls[c].op = "idle"
<1>1. Turns(c, op, pc, on, u, mem) /\ UNCHANGED <<work, faults, hurt>>
      /\ calls[c].op = "idle" /\ op \in work /\ faults' \in 0..MaxFaults
  BY BeginTurns DEF CallsOK
<1> QED BY <1>1, TurnMoves

LEMMA GotoWithMoves ==
  ASSUME CallsOK, UsersStay, NEW c \in Workers, NEW pc, NEW mem, GotoWith(c, pc, mem),
         Named(calls[c].op, pc) => Named(calls[c].op, calls[c].pc),
         Remembers(calls[c].op, mem),
         NEW ops, calls[c].op \in ops, pc \notin {"issue", "accept"}
  PROVE  /\ CallsOK' /\ Touches(ops) /\ Justified
         /\ Turns(c, calls[c].op, pc, calls[c].on, calls[c].user, mem) /\ hurt' = hurt
<1>1. /\ Turns(c, calls[c].op, pc, calls[c].on, calls[c].user, mem)
      /\ UNCHANGED <<work, faults, hurt>> /\ faults' \in 0..MaxFaults
  BY GotoWithTurns DEF CallsOK
<1>2. PICK op, on, u : op = calls[c].op /\ on = calls[c].on /\ u = calls[c].user
  OBVIOUS
<1>3. CallerOK(c)
  BY DEF CallsOK
<1>4. Named(op, pc) => u \in UserIds /\ Exists(u)'
  BY <1>2, <1>3 DEF CallerOK, User, UsersStay
<1>5. op \in work \cup {"idle"} /\ op \in ops
  BY <1>2, <1>3 DEF CallerOK
<1>6. CallsOK' /\ Touches(ops) /\ Justified
  BY <1>1, <1>2, <1>4, <1>5, TurnMoves
<1> QED BY <1>1, <1>6

LEMMA GotoMoves ==
  ASSUME CallsOK, UsersStay, NEW c \in Workers, NEW pc, Goto(c, pc),
         Named(calls[c].op, pc) => Named(calls[c].op, calls[c].pc),
         NEW ops, calls[c].op \in ops,
         pc \in {"issue", "accept"} /\ calls[c].op \in Answers =>
            /\ Named(calls[c].op, calls[c].pc)
            /\ Allows(users'[calls[c].user], calls[c].op, calls[c].mem)
  PROVE  /\ CallsOK' /\ Touches(ops) /\ Justified
         /\ Turns(c, calls[c].op, pc, calls[c].on, calls[c].user, calls[c].mem) /\ hurt' = hurt
<1>1. /\ Turns(c, calls[c].op, pc, calls[c].on, calls[c].user, calls[c].mem)
      /\ UNCHANGED <<work, faults, hurt>> /\ faults' \in 0..MaxFaults
  BY GotoTurns DEF CallsOK
<1>2. PICK op, on, u, mem : /\ op = calls[c].op /\ on = calls[c].on /\ u = calls[c].user
                            /\ mem = calls[c].mem
  OBVIOUS
<1>3. CallerOK(c) /\ Remembers(op, mem)
  BY <1>2 DEF CallsOK
<1>4. Named(op, pc) => u \in UserIds /\ Exists(u)'
  BY <1>2, <1>3 DEF CallerOK, User, UsersStay
<1>5. op \in work \cup {"idle"} /\ op \in ops
  BY <1>2, <1>3 DEF CallerOK
<1>6. pc \in {"issue", "accept"} /\ op \in Answers => u # Nobody /\ Allows(users'[u], op, mem)
  <2>1. u \in UserIds => u # Nobody
    BY UserIdsAssumption DEF Nobody
  <2> QED BY <1>2, <1>3, <2>1 DEF CallerOK, User
<1>7. CallsOK' /\ Touches(ops) /\ Justified
  BY <1>1, <1>2, <1>3, <1>4, <1>5, <1>6, TurnMoves
<1> QED BY <1>1, <1>7

\* Nothing is written to the users table.
LEMMA NoRowWritten ==
  ASSUME UsersOK, users' = users
  PROVE  UsersOK' /\ UsersStay
BY DEF UsersOK, UsersStay, Exists, NamesOneAccount

-----------------------------------------------------------------------------
\* The calls of each kind keep the types of calls and of users.

\* What a step on accounts, on sessions, on codes or on reviews has in common:
\* it moves calls of its operations, answers by the account's row, and takes no
\* account away.
Moved(ops) ==
    CallsOK' /\ UsersOK' /\ UsersStay /\ Touches(ops) /\ Justified /\ hurt \subseteq hurt'

\* Two columns of the users table that only sessions write, and the one that
\* only reviews write.
SecondFactorKept ==
    \A u \in UserIds : users'[u].enabled = users[u].enabled /\ users'[u].secret = users[u].secret
LevelKept == \A u \in UserIds : users'[u].kyc = users[u].kyc

\* A call that knows its account.
LEMMA KnownUser ==
  ASSUME CallsOK, UsersOK, NEW c \in Workers, Named(calls[c].op, calls[c].pc)
  PROVE  /\ User(c) \in UserIds /\ Exists(User(c)) /\ User(c) # Nobody
         /\ users[User(c)] \in UserRows
<1>1. User(c) \in UserIds /\ Exists(User(c))
  BY DEF CallsOK, CallerOK
<1> QED BY <1>1, UserIdsAssumption DEF UsersOK, Nobody

LEMMA AccountsMove ==
  ASSUME CallsOK, UsersOK, AccountNext
  PROVE  Moved(AccountOps) /\ SecondFactorKept /\ LevelKept
<1> USE DEF AccountOps
<1>1. ASSUME users' = users PROVE UsersOK' /\ UsersStay /\ SecondFactorKept /\ LevelKept
  BY <1>1, NoRowWritten DEF SecondFactorKept, LevelKept
<1>2. ASSUME NEW c \in Workers, NEW email \in Emails, NEW phone \in Phones,
             NEW password \in Passwords, Register(c, email, phone, password)
      PROVE  Moved(AccountOps) /\ SecondFactorKept /\ LevelKept
  <2>1. PICK mem : mem = [email |-> email, phone |-> phone, password |-> password]
    OBVIOUS
  <2>2. Begin(c, "register", "email", {}, Nobody, mem) /\ users' = users
    BY <1>2, <2>1 DEF Register
  <2>3. Remembers("register", mem) /\ ~Named("register", "email")
    BY <2>1 DEF Remembers, Named
  <2> QED BY <1>1, <2>2, <2>3, BeginMoves DEF Moved
<1>3. ASSUME NEW c \in Workers, LookUpEmail(c) \/ LookUpPhone(c)
      PROVE  Moved(AccountOps) /\ SecondFactorKept /\ LevelKept
  <2>1. calls[c].op = "register" /\ users' = users
        /\ (Goto(c, "phone") \/ Goto(c, "create") \/ Finish(c))
    BY <1>3 DEF LookUpEmail, LookUpPhone, At
  <2>2. \A pc : ~Named("register", pc)
    BY DEF Named
  <2> QED BY <1>1, <2>1, <2>2, GotoMoves, FinishMoves DEF Moved
<1>4. ASSUME NEW c \in Workers, NEW u \in UserIds, CreateUser(c, u)
      PROVE  Moved(AccountOps) /\ SecondFactorKept /\ LevelKept
  <2>1. calls[c].op = "register" /\ Finish(c)
    BY <1>4 DEF CreateUser, At
  <2>2. UsersOK' /\ UsersStay /\ SecondFactorKept /\ LevelKept
    <3>1. CASE users' = users
      BY <1>1, <3>1
    <3>2. CASE /\ Insert(u, Mem(c).email, Mem(c).phone, Mem(c).password)
               /\ FindByEmail(Mem(c).email) \cup FindByPhone(Mem(c).phone) = {}
      <4>1. PICK email, phone, password :
              email = Mem(c).email /\ phone = Mem(c).phone /\ password = Mem(c).password
        OBVIOUS
      <4>2. email \in Emails /\ phone \in Phones /\ password \in Passwords
        BY <2>1, <4>1 DEF CallsOK, Remembers, Mem
      <4>3. FindByEmail(email) = {} /\ FindByPhone(phone) = {} /\ Insert(u, email, phone, password)
        BY <3>2, <4>1
      <4>4. /\ UsersOK' /\ UsersStay
            /\ \A v \in UserIds : /\ users'[v].enabled = users[v].enabled
                                  /\ users'[v].secret = users[v].secret
                                  /\ users'[v].kyc = users[v].kyc
        BY <4>2, <4>3, RowInserted
      <4> QED BY <4>4 DEF SecondFactorKept, LevelKept
    <3> QED BY <1>4, <3>1, <3>2 DEF CreateUser
  <2> QED BY <2>1, <2>2, FinishMoves DEF Moved
<1>5. ASSUME NEW c \in Workers, NEW u \in UserIds, NEW old \in Passwords, NEW new \in Passwords,
             ChangePassword(c, u, old, new)
      PROVE  Moved(AccountOps) /\ SecondFactorKept /\ LevelKept
  <2>1. PICK mem : mem = [old |-> old, new |-> new]
    OBVIOUS
  <2>2. Begin(c, "password", "read", {}, u, mem) /\ users' = users /\ Exists(u)
    BY <1>5, <2>1 DEF ChangePassword
  <2>3. Remembers("password", mem) /\ Exists(u)'
    BY <1>1, <2>1, <2>2 DEF Remembers, UsersStay
  <2> QED BY <1>1, <2>2, <2>3, BeginMoves DEF Moved
<1>6. ASSUME NEW c \in Workers, CheckPassword(c)
      PROVE  Moved(AccountOps) /\ SecondFactorKept /\ LevelKept
  <2>1. PICK mem : mem = [row |-> Row(c), new |-> Mem(c).new]
    OBVIOUS
  <2>2. /\ calls[c].op = "password" /\ users' = users /\ calls[c].pc = "read"
        /\ GotoWith(c, "write", mem) \/ Finish(c)
    BY <1>6, <2>1 DEF CheckPassword, At
  <2>3. Remembers("password", calls[c].mem)
    BY <2>2 DEF CallsOK
  <2>4. Remembers("password", mem)
    BY <2>1, <2>3 DEF Remembers, Mem
  <2>5. Named(calls[c].op, "write") => Named(calls[c].op, calls[c].pc)
    BY <2>2 DEF Named
  <2> QED BY <1>1, <2>2, <2>4, <2>5, GotoWithMoves, FinishMoves DEF Moved
<1>7. ASSUME NEW c \in Workers, WritePassword(c) \/ WritePIN(c)
      PROVE  Moved(AccountOps) /\ SecondFactorKept /\ LevelKept
  <2>1. /\ calls[c].op \in {"password", "setpin"} /\ Finish(c)
        /\ \/ calls[c].op = "password" /\ users' = [users EXCEPT ![User(c)].password = Mem(c).new]
           \/ calls[c].op = "setpin" /\ users' = [users EXCEPT ![User(c)].pin = Mem(c)]
    BY <1>7 DEF WritePassword, WritePIN, At
  <2>2. PICK u : u = User(c)
    OBVIOUS
  <2>3. u \in UserIds /\ Exists(u) /\ users[u] \in UserRows
    <3>1. Named(calls[c].op, calls[c].pc)
      BY <2>1 DEF Named
    <3> QED BY <2>2, <3>1, KnownUser
  <2>4. Remembers(calls[c].op, Mem(c))
    BY DEF CallsOK, Mem
  <2>5. PICK r \in UserRows :
          /\ users' = [users EXCEPT ![u] = r]
          /\ r.email = users[u].email /\ r.phone = users[u].phone
          /\ r.enabled = users[u].enabled /\ r.secret = users[u].secret /\ r.kyc = users[u].kyc
    <3>1. CASE calls[c].op = "password"
      <4>1. PICK r : r = [users[u] EXCEPT !.password = Mem(c).new]
        OBVIOUS
      <4>2. Mem(c).new \in Passwords
        BY <2>4, <3>1 DEF Remembers
      <4>3. r \in UserRows
        BY <2>3, <4>1, <4>2 DEF UserRows
      <4>4. users' = [users EXCEPT ![u] = r]
        BY <2>1, <2>2, <3>1, <4>1
      <4> QED BY <2>3, <4>1, <4>3, <4>4 DEF UserRows
    <3>2. CASE calls[c].op = "setpin"
      <4>1. PICK r : r = [users[u] EXCEPT !.pin = Mem(c)]
        OBVIOUS
      <4>2. Mem(c) \in Pins
        BY <2>4, <3>2 DEF Remembers
      <4>3. r \in UserRows
        BY <2>3, <4>1, <4>2 DEF UserRows
      <4>4. users' = [users EXCEPT ![u] = r]
        BY <2>1, <2>2, <3>2, <4>1
      <4> QED BY <2>3, <4>1, <4>3, <4>4 DEF UserRows
    <3> QED BY <2>1, <3>1, <3>2
  <2>6. /\ UsersOK' /\ UsersStay
        /\ users'[u] = r /\ \A v \in UserIds : v # u => users'[v] = users[v]
    BY <2>3, <2>5, RowWritten
  <2>7. SecondFactorKept /\ LevelKept
    BY <2>5, <2>6 DEF SecondFactorKept, LevelKept
  <2> QED BY <2>1, <2>6, <2>7, FinishMoves DEF Moved
<1>8. ASSUME NEW c \in Workers, NEW u \in UserIds, NEW pin \in Pins,
             SetTradingPIN(c, u, pin) \/ VerifyTradingPIN(c, u, pin)
      PROVE  Moved(AccountOps) /\ SecondFactorKept /\ LevelKept
  <2>1. /\ users' = users /\ Exists(u)
        /\ Begin(c, "setpin", "write", {}, u, pin) \/ Begin(c, "pin", "read", {}, u, pin)
    BY <1>8 DEF SetTradingPIN, VerifyTradingPIN
  <2>2. Remembers("setpin", pin) /\ Remembers("pin", pin) /\ Exists(u)'
    BY <1>1, <2>1 DEF Remembers, UsersStay
  <2> QED BY <1>1, <2>1, <2>2, BeginMoves DEF Moved
<1>9. ASSUME NEW c \in Workers, CheckPIN(c) \/ AcceptPIN(c)
      PROVE  Moved(AccountOps) /\ SecondFactorKept /\ LevelKept
  <2>1. /\ calls[c].op = "pin" /\ users' = users
        /\ Finish(c) \/ (Goto(c, "accept") /\ users[calls[c].user].pin = calls[c].mem)
    BY <1>9 DEF CheckPIN, AcceptPIN, At, Row, User, Mem
  <2>2. \A pc : Named("pin", pc)
    BY DEF Named
  <2>3. \A row, mem : row.pin = mem => Allows(row, "pin", mem)
    BY DEF Allows
  <2> QED BY <1>1, <2>1, <2>2, <2>3, GotoMoves, FinishMoves DEF Moved
<1> QED BY <1>2, <1>3, <1>4, <1>5, <1>6, <1>7, <1>8, <1>9 DEF AccountNext, AccountStep

\* No call moves.
LEMMA NoCallMoves ==
  ASSUME CallsOK, UsersStay, UNCHANGED <<calls, work, faults, hurt>>, NEW ops
  PROVE  CallsOK' /\ Touches(ops) /\ Justified
<1>1. \A c \in Workers : CallerOK(c)'
  <2> TAKE c \in Workers
  <2>1. CallerOK(c)
    BY DEF CallsOK
  <2> QED BY <2>1 DEF CallerOK, User, UsersStay
<1> QED BY <1>1 DEF CallsOK, Shape, Touches, Justified

\* UpdateTwoFA: the columns of the second factor, and no other.
LEMMA TwoFAWritten ==
  ASSUME UsersOK, NEW u \in UserIds, Exists(u), NEW secret \in Secrets \cup {NoSecret},
         NEW enabled \in BOOLEAN, UpdateTwoFA(u, secret, enabled)
  PROVE  /\ UsersOK' /\ UsersStay /\ LevelKept
         /\ users'[u].secret = secret /\ users'[u].enabled = enabled
         /\ \A v \in UserIds : v # u => users'[v] = users[v]
<1>1. PICK s : s = [users[u] EXCEPT !.secret = secret]
  OBVIOUS
<1>2. /\ s \in UserRows /\ s.secret = secret
      /\ s.email = users[u].email /\ s.phone = users[u].phone /\ s.kyc = users[u].kyc
  BY <1>1 DEF UsersOK, UserRows
<1>3. PICK r : r = [s EXCEPT !.enabled = enabled]
  OBVIOUS
<1>4. /\ r \in UserRows /\ r.secret = secret /\ r.enabled = enabled
      /\ r.email = users[u].email /\ r.phone = users[u].phone /\ r.kyc = users[u].kyc
  BY <1>2, <1>3 DEF UserRows
<1>5. users' = [users EXCEPT ![u] = r]
  BY <1>1, <1>3 DEF UpdateTwoFA, UsersOK
<1>6. /\ UsersOK' /\ UsersStay
      /\ users'[u] = r /\ \A v \in UserIds : v # u => users'[v] = users[v]
  BY <1>4, <1>5, RowWritten
<1> QED BY <1>4, <1>6 DEF LevelKept

LEMMA SessionsMove ==
  ASSUME CallsOK, UsersOK, SessionsOK, SessionNext
  PROVE  Moved(SessionOps) /\ LevelKept
<1> USE DEF SessionOps
<1>1. ASSUME users' = users PROVE UsersOK' /\ UsersStay /\ LevelKept
  BY <1>1, NoRowWritten DEF LevelKept
<1>2. \A row, mem : /\ ~row.enabled => Allows(row, "google", mem)
                    /\ ~row.enabled /\ row.password = mem => Allows(row, "login", mem)
                    /\ row.enabled /\ row.secret = mem => Allows(row, "second", mem)
  BY DEF Allows
<1>3. ASSUME NEW c \in Workers, NEW op, NEW pc, NEW on, NEW u \in UserIds, NEW mem,
             Begin(c, op, pc, on, u, mem), users' = users, op \in SessionOps, pc # "issue",
             Exists(u), pc # "accept", Remembers(op, mem)
      PROVE  Moved(SessionOps) /\ LevelKept
  <2>1. Exists(u)'
    BY <1>3 DEF Exists
  <2>2. /\ CallsOK' /\ Touches(SessionOps) /\ Justified /\ hurt' = hurt
    BY <1>1, <1>3, <2>1, BeginMoves
  <2> QED BY <1>1, <1>3, <2>2 DEF Moved
<1>4. ASSUME NEW c \in Workers, NEW u \in UserIds, NEW password \in Passwords, Login(c, u, password)
      PROVE  Moved(SessionOps) /\ LevelKept
  BY <1>3, <1>4 DEF Login, Remembers
<1>5. ASSUME NEW c \in Workers, NEW email \in Emails, GoogleLogin(c, email)
      PROVE  Moved(SessionOps) /\ LevelKept
  <2>1. Begin(c, "google", "find", {}, Nobody, email) /\ users' = users
    BY <1>5 DEF GoogleLogin
  <2>2. Remembers("google", email) /\ ~Named("google", "find")
    BY DEF Remembers, Named
  <2> QED BY <1>1, <2>1, <2>2, BeginMoves DEF Moved
<1>6. ASSUME NEW c \in Workers, FindAccount(c)
      PROVE  Moved(SessionOps) /\ LevelKept
  <2>1. calls[c].op = "google" /\ calls[c].pc = "find" /\ users' = users
    BY <1>6 DEF FindAccount, At
  <2>2. CASE Goto(c, "create")
    <3>1. ~Named(calls[c].op, "create")
      BY <2>1 DEF Named
    <3> QED BY <1>1, <2>1, <2>2, <3>1, GotoMoves DEF Moved
  <2>3. CASE /\ FindByEmail(Mem(c)) # {}
             /\ calls' = [calls EXCEPT ![c].pc = "read",
                                       ![c].user = CHOOSE u \in FindByEmail(Mem(c)) : TRUE]
             /\ UNCHANGED <<work, faults, hurt>>
    <3>1. PICK u : u = CHOOSE v \in FindByEmail(Mem(c)) : TRUE
      OBVIOUS
    <3>2. u \in UserIds /\ users[u].email = Mem(c)
      BY <2>3, <3>1 DEF FindByEmail
    <3>3. Exists(u)
      <4>1. Mem(c) \in Emails
        BY <2>1 DEF CallsOK, Remembers, Mem
      <4> QED BY <3>2, <4>1, EmailsAssumption DEF Exists, NoUser
    <3>4. Turns(c, calls[c].op, "read", calls[c].on, u, calls[c].mem)
      BY <2>3, <3>1, FoundTurns DEF CallsOK
    <3>5. /\ calls[c].op \in work \cup {"idle"} /\ Remembers(calls[c].op, calls[c].mem)
          /\ Exists(u)'
      BY <2>1, <3>3 DEF CallsOK, CallerOK, Exists
    <3>6. PICK on, mem : on = calls[c].on /\ mem = calls[c].mem
      OBVIOUS
    <3>7. /\ Turns(c, "google", "read", on, u, mem) /\ "google" \in work \cup {"idle"}
          /\ Remembers("google", mem)
      BY <2>1, <3>4, <3>5, <3>6
    <3>8. CallsOK' /\ Touches(SessionOps) /\ Justified
      <4>1. faults' \in 0..MaxFaults
        BY <2>3 DEF CallsOK
      <4> QED BY <1>1, <2>1, <2>3, <3>2, <3>5, <3>7, <4>1, TurnMoves
    <3> QED BY <1>1, <2>1, <2>3, <3>8 DEF Moved
  <2> QED BY <1>6, <2>2, <2>3 DEF FindAccount
<1>7. ASSUME NEW c \in Workers, NEW u \in UserIds, CreateAccount(c, u)
      PROVE  Moved(SessionOps) /\ LevelKept
  <2>1. calls[c].op = "google"
    BY <1>7 DEF CreateAccount, At
  <2>2. CASE Finish(c) /\ users' = users
    BY <1>1, <2>1, <2>2, FinishMoves DEF Moved
  <2>3. CASE /\ FindByEmail(Mem(c)) = {}
             /\ Insert(u, Mem(c), GooglePhone(u), NewPassword)
             /\ calls' = [calls EXCEPT ![c].pc = "issue", ![c].user = u]
             /\ UNCHANGED <<work, faults, hurt>>
    <3>1. PICK email, phone, password :
             email = Mem(c) /\ phone = GooglePhone(u) /\ password = NewPassword
      OBVIOUS
    <3>2. Mem(c) \in Emails /\ Remembers("google", Mem(c))
      BY <2>1 DEF CallsOK, Remembers, Mem
    <3>3. phone \notin Phones
      <4>1. u \in Nat \ {0}
        BY UserIdsAssumption
      <4>2. -u \notin Nat
        BY <4>1
      <4> QED BY <3>1, <4>2, PhonesAssumption DEF GooglePhone
    <3>4. /\ UsersOK' /\ UsersStay /\ Exists(u)' /\ users'[u].enabled = FALSE
          /\ \A v \in UserIds : users'[v].kyc = users[v].kyc
      BY <2>3, <3>1, <3>2, <3>3, RowInserted
    <3>5. Turns(c, calls[c].op, "issue", calls[c].on, u, calls[c].mem)
      BY <2>3, FoundTurns DEF CallsOK
    <3>6. PICK on, mem : on = calls[c].on /\ mem = calls[c].mem
      OBVIOUS
    <3>7. /\ Turns(c, "google", "issue", on, u, mem) /\ "google" \in work \cup {"idle"}
          /\ Remembers("google", mem)
      BY <2>1, <3>2, <3>5, <3>6 DEF CallsOK, CallerOK, Mem
    <3>8. u # Nobody /\ Allows(users'[u], "google", mem)
      <4>1. PICK row : row = users'[u]
        OBVIOUS
      <4> QED BY <1>2, <3>4, <4>1, UserIdsAssumption DEF Nobody
    <3>9. CallsOK' /\ Touches(SessionOps) /\ Justified
      <4>1. faults' \in 0..MaxFaults
        BY <2>3 DEF CallsOK
      <4> QED BY <2>1, <2>3, <3>4, <3>7, <3>8, <4>1, TurnMoves
    <3> QED BY <2>3, <3>4, <3>9 DEF Moved, LevelKept
  <2> QED BY <1>7, <2>2, <2>3 DEF CreateAccount
<1>8. ASSUME NEW c \in Workers, ReadAccount(c)
      PROVE  Moved(SessionOps) /\ LevelKept
  <2>1. calls[c].op \in {"login", "google"} /\ calls[c].pc = "read" /\ users' = users
    BY <1>8 DEF ReadAccount
  <2>2. Named(calls[c].op, calls[c].pc)
    BY <2>1 DEF Named
  <2>3. \/ Finish(c)
        \/ /\ Goto(c, "issue")
           /\ ~(calls[c].op = "login" /\ Row(c).password # Mem(c))
           /\ ~(Row(c).enabled /\ (calls[c].op = "login" => Row(c).password = Mem(c)))
    BY <1>8 DEF ReadAccount
  <2>4. CASE Finish(c)
    BY <1>1, <2>1, <2>4, FinishMoves DEF Moved
  <2>5. CASE /\ Goto(c, "issue")
             /\ ~(calls[c].op = "login" /\ Row(c).password # Mem(c))
             /\ ~(Row(c).enabled /\ (calls[c].op = "login" => Row(c).password = Mem(c)))
    <3>1. Allows(users'[calls[c].user], calls[c].op, calls[c].mem)
      BY <1>2, <2>1, <2>5 DEF Row, User, Mem
    <3> QED BY <1>1, <2>1, <2>2, <2>5, <3>1, GotoMoves DEF Moved
  <2> QED BY <2>3, <2>4, <2>5
<1>9. ASSUME NEW c \in Workers, NEW u \in UserIds, NEW code \in Secrets,
             LoginTwoFA(c, u, code) \/ ConfirmTwoFA(c, u, code) \/ DisableTwoFA(c, u, code)
      PROVE  Moved(SessionOps) /\ LevelKept
  <2>1. \A op \in {"second", "enable", "disable"} : Remembers(op, code)
    BY DEF Remembers
  <2>2. Exists(u) /\ users' = users
    BY <1>9 DEF LoginTwoFA, ConfirmTwoFA, DisableTwoFA, SessionsOK, TokensOK
  <2>3. PICK op \in {"second", "enable", "disable"} : Begin(c, op, "read", {}, u, code)
    BY <1>9 DEF LoginTwoFA, ConfirmTwoFA, DisableTwoFA
  <2> QED BY <1>3, <2>1, <2>2, <2>3
<1>10. ASSUME NEW c \in Workers, users' = users, Finish(c), calls[c].op \in SessionOps
       PROVE  Moved(SessionOps) /\ LevelKept
  BY <1>1, <1>10, FinishMoves DEF Moved
<1>11. ASSUME NEW c \in Workers, NEW pc, users' = users, Goto(c, pc),
              calls[c].op \in SessionOps, calls[c].op # "google",
              calls[c].op \in Answers =>
                 Allows(users'[calls[c].user], calls[c].op, calls[c].mem)
       PROVE  Moved(SessionOps) /\ LevelKept
  <2>1. Named(calls[c].op, calls[c].pc)
    BY <1>11 DEF Named
  <2>2. CallsOK' /\ Touches(SessionOps) /\ Justified /\ hurt' = hurt
    BY <1>1, <1>11, <2>1, GotoMoves
  <2> QED BY <1>1, <1>11, <2>2 DEF Moved
<1>12. ASSUME NEW c \in Workers, VerifyTwoFA(c)
       PROVE  Moved(SessionOps) /\ LevelKept
  <2>1. /\ calls[c].op = "second" /\ users' = users
        /\ \/ Finish(c)
           \/ /\ Goto(c, "issue")
              /\ users[calls[c].user].enabled /\ users[calls[c].user].secret = calls[c].mem
    BY <1>12 DEF VerifyTwoFA, At, Row, User, Mem
  <2> QED BY <1>2, <1>10, <1>11, <2>1
<1>13. ASSUME NEW c \in Workers, NEW t \in TokenIds, OpenSession(c, t) \/ IssueNext(c, t)
       PROVE  Moved(SessionOps) /\ LevelKept
  BY <1>10, <1>11, <1>13 DEF OpenSession, IssueNext, At, Answers
<1>14. ASSUME NEW c \in Workers, NEW t \in TokenIds,
              RefreshToken(c, t) \/ Logout(c, t) \/ LogoutWithoutCookie(c, t)
       PROVE  Moved(SessionOps) /\ LevelKept
  <2>1. PICK u, on : u = tokens[t].user /\ on = {Family(t)}
    OBVIOUS
  <2>2. u \in UserIds /\ Exists(u) /\ users' = users
    BY <1>14, <2>1 DEF RefreshToken, Logout, LogoutWithoutCookie, SessionsOK, TokensOK
  <2>3. \/ Begin(c, "refresh", "read", on, u, t) \/ Begin(c, "logout", "revoke", on, u, t)
        \/ Begin(c, "logout", "answer", {}, u, t)
    BY <1>14, <2>1 DEF RefreshToken, Logout, LogoutWithoutCookie
  <2>4. Remembers("refresh", t) /\ Remembers("logout", t)
    BY DEF Remembers
  <2> QED BY <1>3, <2>2, <2>3, <2>4
<1>15. ASSUME NEW c \in Workers, ReadToken(c) \/ AnswerLogout(c) \/ RevokeOld(c)
                                  \/ RevokeOne(c) \/ RevokeAll(c)
       PROVE  Moved(SessionOps) /\ LevelKept
  BY <1>10, <1>11, <1>15 DEF ReadToken, AnswerLogout, RevokeOld, RevokeOne, RevokeAll, At, Answers
<1>16. ASSUME NEW c \in Workers, NEW u \in UserIds, LogoutAll(c, u)
       PROVE  Moved(SessionOps) /\ LevelKept
  <2>1. PICK on : Begin(c, "logoutall", "revoke", on, u, "nothing")
    BY <1>16 DEF LogoutAll
  <2>2. Exists(u) /\ users' = users
    BY <1>16 DEF LogoutAll, FamiliesOf, SessionsOK, TokensOK
  <2>3. Remembers("logoutall", "nothing")
    BY DEF Remembers
  <2> QED BY <1>3, <2>1, <2>2, <2>3
<1>17. ASSUME NEW c \in Workers, NEW u \in UserIds, InitiateTwoFA(c, u)
       PROVE  Moved(SessionOps) /\ LevelKept
  <2>1. PICK n : n = secretsMade + 1
    OBVIOUS
  <2>2. Begin(c, "setup", "store", {}, u, n) /\ Exists(u) /\ users' = users
    BY <1>17, <2>1 DEF InitiateTwoFA
  <2>3. n \in Secrets
    BY <1>17, <2>1, TokenIdsAssumption DEF InitiateTwoFA, Secrets, SessionsOK, TokensOK, SessionsTypeOK
  <2>4. Remembers("setup", n)
    BY <2>3 DEF Remembers
  <2> QED BY <1>3, <2>2, <2>4
<1>18. ASSUME NEW c \in Workers, CheckSecret(c) \/ CheckEnabled(c)
       PROVE  Moved(SessionOps) /\ LevelKept
  BY <1>10, <1>11, <1>18 DEF CheckSecret, CheckEnabled, At, Answers
<1>19. ASSUME NEW c \in Workers, StoreSecret(c) \/ EnableTwoFA(c) \/ ClearSecret(c)
       PROVE  Moved(SessionOps) /\ LevelKept
  <2>1. PICK secret, enabled :
          /\ UpdateTwoFA(User(c), secret, enabled) /\ enabled \in BOOLEAN
          /\ secret = Mem(c) \/ secret = NoSecret
          /\ calls[c].op \in {"setup", "enable", "disable"} /\ Finish(c)
    BY <1>19 DEF StoreSecret, EnableTwoFA, ClearSecret, At
  <2>2. Named(calls[c].op, calls[c].pc)
    BY <2>1 DEF Named
  <2>3. User(c) \in UserIds /\ Exists(User(c))
    BY <2>2, KnownUser
  <2>4. secret \in Secrets \cup {NoSecret}
    BY <2>1 DEF CallsOK, Remembers, Mem
  <2>5. UsersOK' /\ UsersStay /\ LevelKept
    BY <2>1, <2>3, <2>4, TwoFAWritten
  <2>6. CallsOK' /\ Touches(SessionOps) /\ Justified /\ hurt' = hurt
    BY <2>1, <2>5, FinishMoves
  <2> QED BY <2>5, <2>6 DEF Moved
<1>20. ASSUME NEW t \in TokenIds, Expire(t)
       PROVE  Moved(SessionOps) /\ LevelKept
  BY <1>1, <1>20, NoCallMoves DEF Expire, control, Moved
<1> QED
  BY <1>4, <1>5, <1>6, <1>7, <1>8, <1>9, <1>12, <1>13, <1>14, <1>15, <1>16, <1>17, <1>18,
     <1>19, <1>20
  DEF SessionNext, SessionStep

LEMMA CodesMove ==
  ASSUME CallsOK, UsersOK, CodesOK, CodeNext
  PROVE  Moved(CodeOps) /\ users' = users
<1> USE DEF CodeOps
<1>1. users' = users
  BY DEF CodeNext, StoreCode, SendSMS, ReadCode, MarkUsed, MarkFails, SendPhoneOTP,
         VerifyPhoneOTP, ExpireCode
<1>2. UsersOK' /\ UsersStay
  BY <1>1, NoRowWritten
<1>3. /\ \A pc : Named("send", pc) /\ ~Named("verify", pc)
      /\ \A mem : Remembers("send", mem)
      /\ \A mem \in CodeIds : Remembers("verify", mem)
  BY DEF Named, Remembers
<1>4. ASSUME NEW c \in Workers, NEW u \in UserIds, SendPhoneOTP(c, u)
      PROVE  Moved(CodeOps)
  <2>1. Begin(c, "send", "store", {}, u, "nothing") /\ Exists(u)
    BY <1>4 DEF SendPhoneOTP
  <2>2. Exists(u)'
    BY <1>2, <2>1 DEF UsersStay
  <2> QED BY <1>2, <1>3, <2>1, <2>2, BeginMoves DEF Moved
<1>5. ASSUME NEW c \in Workers, NEW u \in UserIds, NEW k \in CodeIds, VerifyPhoneOTP(c, u, k)
      PROVE  Moved(CodeOps)
  <2>1. PICK on : Begin(c, "verify", "read", on, u, k)
    BY <1>5 DEF VerifyPhoneOTP
  <2> QED BY <1>2, <1>3, <2>1, BeginMoves DEF Moved
<1>6. ASSUME NEW c \in Workers, StoreCode(c)
      PROVE  Moved(CodeOps)
  <2>1. PICK n : calls[c].op = "send" /\ GotoWith(c, "message", n)
    BY <1>6 DEF StoreCode, At
  <2> QED BY <1>2, <1>3, <2>1, GotoWithMoves DEF Moved
<1>7. ASSUME NEW c \in Workers, SendSMS(c) \/ ReadCode(c) \/ MarkUsed(c)
      PROVE  Moved(CodeOps)
  <2>1. calls[c].op \in {"send", "verify"}
    BY <1>7 DEF SendSMS, ReadCode, MarkUsed, At
  <2>2. CASE Finish(c)
    BY <1>2, <2>1, <2>2, FinishMoves DEF Moved
  <2>3. CASE Goto(c, "mark") /\ calls[c].op = "verify"
    BY <1>2, <1>3, <2>3, GotoMoves DEF Moved
  <2> QED BY <1>7, <2>2, <2>3 DEF SendSMS, ReadCode, MarkUsed, At
<1>8. ASSUME NEW c \in Workers, MarkFails(c)
      PROVE  Moved(CodeOps)
  <2>1. /\ calls[c].op = "verify" /\ work' = work
        /\ calls' = [calls EXCEPT ![c] = Idle] /\ hurt \subseteq hurt'
    BY <1>8 DEF MarkFails, At
  <2>2. faults' \in 0..MaxFaults
    BY <1>8, AccountBoundsAssumption DEF MarkFails, CallsOK
  <2>3. Turns(c, "idle", "idle", {}, Nobody, "nothing")
    BY <2>1, Replaces DEF Idle, CallsOK
  <2>4. ~Named("idle", "idle") /\ Remembers("idle", "nothing") /\ "idle" \notin Answers
    BY DEF Named, Remembers, Answers
  <2>5. CallsOK' /\ Touches(CodeOps) /\ Justified
    BY <1>2, <2>1, <2>2, <2>3, <2>4, TurnMoves
  <2> QED BY <1>2, <2>1, <2>5 DEF Moved
<1>9. ASSUME NEW u \in UserIds, ExpireCode(u)
      PROVE  Moved(CodeOps)
  BY <1>2, <1>9, NoCallMoves DEF ExpireCode, control, Moved
<1> QED BY <1>1, <1>4, <1>5, <1>6, <1>7, <1>8, <1>9 DEF CodeNext

LEMMA KycMove ==
  ASSUME CallsOK, UsersOK, KycOK, KycNext
  PROVE  Moved(KycOps) /\ SecondFactorKept
<1> USE DEF KycOps
<1>1. ASSUME users' = users PROVE UsersOK' /\ UsersStay /\ SecondFactorKept
  BY <1>1, NoRowWritten DEF SecondFactorKept
<1>2. /\ \A pc, op : op \in KycOps => Named(op, pc)
      /\ \A mem : Remembers("submit", mem)
      /\ \A mem \in SubmissionIds : Remembers("approve", mem) /\ Remembers("reject", mem)
  BY DEF Named, Remembers
<1>3. ASSUME NEW c \in Workers, NEW op, NEW pc, NEW on, NEW u \in UserIds, NEW mem,
             Begin(c, op, pc, on, u, mem), users' = users, op \in KycOps,
             pc \in {"latest", "status"}, Exists(u), Remembers(op, mem)
      PROVE  Moved(KycOps) /\ SecondFactorKept
  <2>1. Exists(u)'
    BY <1>3 DEF Exists
  <2>2. CallsOK' /\ Touches(KycOps) /\ Justified /\ hurt' = hurt
    BY <1>1, <1>3, <2>1, BeginMoves
  <2> QED BY <1>1, <1>3, <2>2 DEF Moved
<1>4. ASSUME NEW c \in Workers, NEW u \in UserIds, Submit(c, u)
      PROVE  Moved(KycOps) /\ SecondFactorKept
  <2>1. PICK on : Begin(c, "submit", "latest", on, u, "nothing")
    BY <1>4 DEF Submit
  <2> QED BY <1>2, <1>3, <1>4, <2>1 DEF Submit
<1>5. ASSUME NEW c \in Workers, NEW s \in SubmissionIds, Approve(c, s) \/ Reject(c, s)
      PROVE  Moved(KycOps) /\ SecondFactorKept
  <2>1. PICK u, on : u = submissions[s].user /\ on = {Review(s)}
    OBVIOUS
  <2>2. u \in UserIds /\ Exists(u) /\ users' = users
    BY <1>5, <2>1 DEF Approve, Reject, KycOK
  <2>3. Begin(c, "approve", "status", on, u, s) \/ Begin(c, "reject", "status", on, u, s)
    BY <1>5, <2>1 DEF Approve, Reject
  <2> QED BY <1>2, <1>3, <2>2, <2>3
<1>6. ASSUME NEW c \in Workers, users' = users, calls[c].op \in KycOps, Finish(c)
      PROVE  Moved(KycOps) /\ SecondFactorKept
  BY <1>1, <1>6, FinishMoves DEF Moved
<1>7. ASSUME NEW c \in Workers, LookAtLatest(c) \/ MarkApproved(c) \/ MarkRejected(c)
      PROVE  Moved(KycOps) /\ SecondFactorKept
  <2>1. calls[c].op \in KycOps /\ users' = users
    BY <1>7 DEF LookAtLatest, MarkApproved, MarkRejected, At
  <2>2. PICK pc : Finish(c) \/ Goto(c, pc)
    BY <1>7 DEF LookAtLatest, MarkApproved, MarkRejected
  <2>3. ASSUME Goto(c, pc) PROVE Moved(KycOps) /\ SecondFactorKept
    <3>1. CallsOK' /\ Touches(KycOps) /\ Justified /\ hurt' = hurt
      BY <1>1, <1>2, <2>1, <2>3, GotoMoves DEF Answers
    <3> QED BY <1>1, <2>1, <3>1 DEF Moved
  <2> QED BY <1>6, <2>1, <2>2, <2>3
<1>8. ASSUME NEW c \in Workers, NEW s \in SubmissionIds, CreateSubmission(c, s)
      PROVE  Moved(KycOps) /\ SecondFactorKept
  BY <1>6, <1>8 DEF CreateSubmission, At
<1>9. ASSUME NEW c \in Workers, UpdateKycLevel(c)
      PROVE  Moved(KycOps) /\ SecondFactorKept
  <2>1. /\ calls[c].op = "approve" /\ Finish(c)
        /\ users' = [users EXCEPT ![User(c)].kyc = 1]
    BY <1>9 DEF UpdateKycLevel, At
  <2>2. PICK u : u = User(c)
    OBVIOUS
  <2>3. u \in UserIds /\ Exists(u) /\ users[u] \in UserRows
    BY <1>2, <2>1, <2>2, KnownUser
  <2>4. PICK r : r = [users[u] EXCEPT !.kyc = 1]
    OBVIOUS
  <2>5. /\ r \in UserRows /\ r.email = users[u].email /\ r.phone = users[u].phone
        /\ r.enabled = users[u].enabled /\ r.secret = users[u].secret
    BY <2>3, <2>4 DEF UserRows
  <2>6. users' = [users EXCEPT ![u] = r]
    BY <2>1, <2>2, <2>4
  <2>7. /\ UsersOK' /\ UsersStay
        /\ users'[u] = r /\ \A v \in UserIds : v # u => users'[v] = users[v]
    BY <2>3, <2>5, <2>6, RowWritten
  <2>8. SecondFactorKept
    BY <2>5, <2>7 DEF SecondFactorKept
  <2> QED BY <2>1, <2>7, <2>8, FinishMoves DEF Moved
<1>10. ASSUME NEW c \in Workers, LookupFails(c)
       PROVE  Moved(KycOps) /\ SecondFactorKept
  <2>1. PICK on, u, mem : on = calls[c].on /\ u = calls[c].user /\ mem = calls[c].mem
    OBVIOUS
  <2>2. /\ calls[c].op = "submit" /\ users' = users /\ work' = work
        /\ calls' = [calls EXCEPT ![c].pc = "create"] /\ hurt \subseteq hurt'
    BY <1>10 DEF LookupFails, At
  <2>3. faults' \in 0..MaxFaults
    BY <1>10, AccountBoundsAssumption DEF LookupFails, CallsOK
  <2>4. Turns(c, "submit", "create", on, u, mem)
    BY <2>1, <2>2, StepTurns DEF CallsOK
  <2>5. u \in UserIds /\ Exists(u)'
    <3>1. Named("submit", calls[c].pc)
      BY <1>2
    <3>2. u \in UserIds /\ Exists(u)
      BY <2>1, <2>2, <3>1, KnownUser DEF User
    <3> QED BY <2>2, <3>2 DEF Exists
  <2>6. "submit" \in work \cup {"idle"}
    BY <2>2 DEF CallsOK, CallerOK
  <2>7. CallsOK' /\ Touches(KycOps) /\ Justified
    BY <1>1, <1>2, <2>2, <2>3, <2>4, <2>5, <2>6, TurnMoves
  <2> QED BY <1>1, <2>2, <2>7 DEF Moved
<1> QED BY <1>4, <1>5, <1>7, <1>8, <1>9, <1>10 DEF KycNext

LEMMA CutMoves ==
  ASSUME CallsOK, UsersOK, NEW c \in Workers, CutOff(c), users' = users
  PROVE  /\ CallsOK' /\ UsersOK' /\ UsersStay /\ Justified /\ hurt \subseteq hurt'
         /\ calls'[c].op = "idle" /\ calls[c].on \subseteq hurt'
         /\ \A d \in Workers : d # c => calls'[d] = calls[d]
<1>1. UsersOK' /\ UsersStay
  BY NoRowWritten
<1>2. work' = work /\ hurt \subseteq hurt' /\ calls[c].on \subseteq hurt'
  BY DEF CutOff
<1>3. faults' \in 0..MaxFaults
  BY AccountBoundsAssumption DEF CutOff, CallsOK
<1>4. Turns(c, "idle", "idle", {}, Nobody, "nothing")
  <2>1. calls' = [calls EXCEPT ![c] = Idle]
    BY DEF CutOff
  <2> QED BY <2>1, Replaces DEF Idle, CallsOK
<1>5. ~Named("idle", "idle") /\ Remembers("idle", "nothing") /\ "idle" \notin Answers
  BY DEF Named, Remembers, Answers
<1>6. PICK ops : ops = {calls[c].op}
  OBVIOUS
<1>7. calls[c].op \in ops \cup {"idle"}
  BY <1>6
<1>8. CallsOK' /\ Justified
  BY <1>1, <1>2, <1>3, <1>4, <1>5, <1>7, TurnMoves
<1> QED BY <1>1, <1>2, <1>4, <1>8 DEF Turns

\* Calls of operations ops stay as they are, unless they are cut off and leave
\* what they worked on half done.
Spares(ops) ==
    \A c \in Workers :
        \/ calls'[c] = calls[c]
        \/ calls[c].op \notin ops /\ calls'[c].op \notin ops
        \/ calls'[c].op = "idle" /\ calls[c].on \subseteq hurt'

LEMMA StepMoves ==
  ASSUME CallsOK, UsersOK, SessionsOK, CodesOK, KycOK, Next
  PROVE  /\ CallsOK' /\ UsersOK' /\ UsersStay /\ Justified /\ hurt \subseteq hurt'
         /\ \/ /\ SessionNext /\ LevelKept /\ UNCHANGED <<codeVars, kycVars>>
               /\ Spares(CodeOps) /\ Spares(KycOps)
            \/ /\ CodeNext /\ users' = users /\ UNCHANGED <<sessionVars, kycVars>>
               /\ Spares(SessionOps) /\ Spares(KycOps)
            \/ /\ KycNext /\ SecondFactorKept /\ UNCHANGED <<sessionVars, codeVars>>
               /\ Spares(SessionOps) /\ Spares(CodeOps)
            \/ /\ SecondFactorKept /\ LevelKept /\ UNCHANGED <<sessionVars, codeVars, kycVars>>
               /\ Spares(SessionOps) /\ Spares(CodeOps) /\ Spares(KycOps)
<1> USE DEF Moved
<1>1. CASE Managed
  <2>1. Moved(AccountOps) /\ SecondFactorKept /\ LevelKept /\ UNCHANGED <<sessionVars, codeVars, kycVars>>
    BY <1>1, AccountsMove DEF Managed
  <2>2. Spares(SessionOps) /\ Spares(CodeOps) /\ Spares(KycOps)
    BY <2>1 DEF Touches, Spares, AccountOps, SessionOps, CodeOps, KycOps
  <2> QED BY <2>1, <2>2
<1>2. CASE SignedIn
  <2>1. /\ SessionNext /\ Moved(SessionOps) /\ LevelKept
        /\ UNCHANGED <<codeVars, kycVars>>
    BY <1>2, SessionsMove DEF SignedIn
  <2>2. Spares(CodeOps) /\ Spares(KycOps)
    BY <2>1 DEF Touches, Spares, SessionOps, CodeOps, KycOps
  <2> QED BY <2>1, <2>2
<1>3. CASE Texted
  <2>1. /\ CodeNext /\ Moved(CodeOps) /\ users' = users
        /\ UNCHANGED <<sessionVars, kycVars>>
    BY <1>3, CodesMove DEF Texted
  <2>2. Spares(SessionOps) /\ Spares(KycOps)
    BY <2>1 DEF Touches, Spares, SessionOps, CodeOps, KycOps
  <2> QED BY <2>1, <2>2
<1>4. CASE Reviewed
  <2>1. /\ KycNext /\ Moved(KycOps) /\ SecondFactorKept
        /\ UNCHANGED <<sessionVars, codeVars>>
    BY <1>4, KycMove DEF Reviewed
  <2>2. Spares(SessionOps) /\ Spares(CodeOps)
    BY <2>1 DEF Touches, Spares, SessionOps, CodeOps, KycOps
  <2> QED BY <2>1, <2>2
<1>5. CASE Interrupted
  <2>1. PICK c \in Workers : CutOff(c)
    BY <1>5 DEF Interrupted
  <2>2. users' = users /\ UNCHANGED <<sessionVars, codeVars, kycVars>>
    BY <1>5 DEF Interrupted
  <2>3. /\ CallsOK' /\ UsersOK' /\ UsersStay /\ Justified /\ hurt \subseteq hurt'
        /\ calls'[c].op = "idle" /\ calls[c].on \subseteq hurt'
        /\ \A d \in Workers : d # c => calls'[d] = calls[d]
    BY <2>1, <2>2, CutMoves
  <2>4. \A ops : Spares(ops)
    BY <2>3 DEF Spares
  <2> QED BY <2>2, <2>3, <2>4 DEF SecondFactorKept, LevelKept
<1> QED BY <1>1, <1>2, <1>3, <1>4, <1>5 DEF Next

-----------------------------------------------------------------------------
\* Races, and answers.

SharedIsOverlapping ==
    \A c, d \in Workers : c # d =>
        \A x \in calls[c].on \cap calls[d].on : x \in Overlapping

LEMMA Shared == SharedIsOverlapping
<1> SUFFICES ASSUME NEW c \in Workers, NEW d \in Workers, c # d,
                    NEW x \in calls[c].on \cap calls[d].on
             PROVE  x \in Overlapping
  BY DEF SharedIsOverlapping
<1> DEFINE S == {e \in Workers : x \in calls[e].on}
<1>1. IsFiniteSet(S) /\ {c, d} \subseteq S
  BY WorkersAssumption, FS_Subset
<1>2. Cardinality({c, d}) <= Cardinality(S)
  BY <1>1, FS_Subset
<1>3. Cardinality({c, d}) = 2
  <2>1. Cardinality({c}) = 1 /\ IsFiniteSet({c})
    BY FS_Singleton
  <2>2. Cardinality({c} \cup {d}) = Cardinality({c}) + 1
    BY <2>1, FS_AddElement
  <2>3. {c} \cup {d} = {c, d}
    OBVIOUS
  <2> QED BY <2>1, <2>2, <2>3
<1>4. Cardinality(S) \in Nat
  BY <1>1, FS_CardinalityType
<1>5. Cardinality(S) > 1
  BY <1>2, <1>3, <1>4
<1> QED BY <1>5 DEF Overlapping

LEMMA RacesAreKnown ==
  ASSUME raced' = raced \cup Overlapping', hurt \subseteq hurt'
  PROVE  RacesOK' /\ \A x : Undisturbed(x)' => Undisturbed(x)
<1>1. SharedIsOverlapping'
  BY Shared, PTL
<1>2. RacesOK'
  BY <1>1 DEF SharedIsOverlapping, RacesOK
<1> QED BY <1>2 DEF Undisturbed

LEMMA AnswersStayJustified ==
  ASSUME CallsOK, AnswersJustified, Justified, Remember
  PROVE  AnswersJustified'
<1> SUFFICES ASSUME NEW c \in Workers, calls'[c].pc \in {"issue", "accept"},
                    calls'[c].op \in Answers
             PROVE  \E row \in seen'[c] : Allows(row, calls'[c].op, calls'[c].mem)
  BY DEF AnswersJustified, Mem
<1>1. calls'[c].op # "idle"
  BY DEF Answers
<1>2. seen'[c] = IF Busy(c) /\ Busy(c)' THEN seen[c] \cup SeenBy(c)' ELSE SeenBy(c)'
  BY DEF Remember
<1>3. CASE calls'[c] = calls[c]
  <2>1. PICK row \in seen[c] : Allows(row, calls[c].op, calls[c].mem)
    BY <1>3 DEF AnswersJustified, Mem
  <2>2. row \in seen'[c]
    BY <1>1, <1>2, <1>3, <2>1 DEF Busy
  <2> QED BY <1>3, <2>1, <2>2
<1>4. CASE /\ calls'[c].user # Nobody
           /\ Allows(users'[calls'[c].user], calls'[c].op, calls'[c].mem)
  <2>1. SeenBy(c)' = {users'[calls'[c].user]}
    BY <1>4 DEF SeenBy, User, Row
  <2> QED BY <1>2, <1>4, <2>1
<1> QED BY <1>3, <1>4 DEF Justified

-----------------------------------------------------------------------------
\* Sessions.

\* What was not disturbed was not before either.
Calm == \A x : Undisturbed(x)' => Undisturbed(x)

\* Only call c may move.
Others(c) == \A d \in Workers : d # c => calls'[d] = calls[d]

\* No token changes.
LEMMA QuietSession ==
  ASSUME SessionsOK, UsersStay, Calm, tokens' = tokens, ended' = ended,
         confirmed \subseteq confirmed', SessionsTypeOK', \A u \in challenged' : Exists(u)',
         EnabledIsConfirmed',
         \A d \in Workers : \/ calls'[d] = calls[d]
                           \/ /\ SessionCall(d)'
                              /\ At(d, "refresh", "revoke") => calls[d].on \subseteq hurt'
  PROVE  SessionsOK'
<1>1. TokensOK'
  <2>1. ASSUME NEW t \in TokenIds, Made(t)
        PROVE  Exists(tokens[t].user)'
    <3>1. PICK u \in UserIds : u = tokens[t].user /\ Exists(u)
      BY <2>1 DEF SessionsOK, TokensOK
    <3>2. Exists(u)'
      BY <3>1 DEF UsersStay
    <3>3. tokens'[t].user = u
      BY <3>1
    <3> QED BY <3>2, <3>3 DEF Exists
  <2> QED BY <2>1 DEF SessionsOK, TokensOK, Made
<1>2. \A t : /\ Made(t)' <=> Made(t)
             /\ Live(t)' <=> Live(t)
             /\ Family(t)' = Family(t)
  BY DEF Made, Live, Family
<1>3. ASSUME NEW t \in TokenIds, Good(t)', Undisturbed(Family(t))' PROVE Good(t)
  <2>1. Live(t)
    BY <1>2, <1>3 DEF Good
  <2>2. ASSUME NEW d \in Workers, At(d, "refresh", "revoke"), Mem(d) = t PROVE FALSE
    <3>1. calls'[d] # calls[d]
      BY <1>3, <2>2 DEF Good, At, Mem
    <3>2. calls[d].on = {Family(t)}
      BY <2>2 DEF SessionsOK, SessionCall, At
    <3>3. Family(t) \in hurt'
      BY <2>2, <3>1, <3>2
    <3>4. Family(t)' \notin hurt'
      BY <1>3 DEF Undisturbed
    <3> QED BY <1>2, <3>3, <3>4
  <2> QED BY <2>1, <2>2 DEF Good
<1>4. OneGood'
  <2> SUFFICES ASSUME NEW s \in TokenIds, NEW t \in TokenIds, Good(s)', Good(t)',
                      Family(s)' = Family(t)', Undisturbed(Family(s))'
               PROVE  s = t
    BY DEF OneGood
  <2>1. Family(s) = Family(t) /\ Good(s) /\ Good(t)
    <3>1. Family(s) = Family(t)
      BY <1>2
    <3>2. Undisturbed(Family(t))'
      BY DEF Undisturbed
    <3> QED BY <1>3, <3>1, <3>2
  <2>2. Undisturbed(Family(s))
    <3>1. PICK f : f = Family(s)
      OBVIOUS
    <3>2. Undisturbed(f)'
      BY <1>2, <3>1 DEF Undisturbed
    <3> QED BY <3>1, <3>2 DEF Calm
  <2> QED BY <2>1, <2>2 DEF SessionsOK, OneGood
<1>5. EndedStaysEnded'
  <2> SUFFICES ASSUME NEW t \in TokenIds, Live(t)', Undisturbed(Family(t))'
               PROVE  Family(t)' \notin ended'
    BY DEF EndedStaysEnded
  <2>1. Undisturbed(Family(t))
    <3>1. PICK f : f = Family(t)
      OBVIOUS
    <3>2. Undisturbed(f)'
      BY <1>2, <3>1 DEF Undisturbed
    <3> QED BY <3>1, <3>2 DEF Calm
  <2> QED BY <1>2, <2>1 DEF SessionsOK, EndedStaysEnded
<1>6. ASSUME NEW d \in Workers, calls'[d] = calls[d] PROVE SessionCall(d)'
  <2>1. calls'[d] = calls[d] /\ SessionCall(d)
    BY <1>6 DEF SessionsOK
  <2>2. PICK r, m, f : r = calls[d] /\ m = calls[d].mem /\ f = Family(m)
    OBVIOUS
  <2>3. Undisturbed(f)' => Undisturbed(f)
    BY DEF Calm
  <2>4. Family(m)' = f
    BY <1>2, <2>2
  <2>5. /\ r.op = "refresh" \/ (r.op = "logout" /\ r.pc = "revoke") =>
            Made(m) /\ tokens[m].user = r.user /\ r.on = {f}
        /\ r.op = "logoutall" => \A t \in TokenIds :
            /\ ~Made(t) => <<"family", t>> \in r.on
            /\ Made(t) /\ tokens[t].user = r.user => Family(t) \in r.on
        /\ r.op = "refresh" /\ r.pc = "issue" /\ Undisturbed(f) =>
            /\ f \notin ended
            /\ \A t \in TokenIds : Live(t) /\ Family(t) = f => t = m
        /\ r.op = "enable" /\ r.pc = "write" => m \in confirmed
    BY <2>1, <2>2 DEF SessionCall, At, Mem, User
  <2>6. /\ r.op = "refresh" \/ (r.op = "logout" /\ r.pc = "revoke") =>
            Made(m)' /\ tokens'[m].user = r.user /\ r.on = {f}
        /\ r.op = "logoutall" => \A t \in TokenIds :
            /\ ~Made(t)' => <<"family", t>> \in r.on
            /\ Made(t)' /\ tokens'[t].user = r.user => Family(t)' \in r.on
        /\ r.op = "refresh" /\ r.pc = "issue" /\ Undisturbed(f)' =>
            /\ f \notin ended'
            /\ \A t \in TokenIds : Live(t)' /\ Family(t)' = f => t = m
        /\ r.op = "enable" /\ r.pc = "write" => m \in confirmed'
    BY <1>2, <2>3, <2>5
  <2>7. calls'[d] = r /\ calls'[d].mem = m
    BY <2>1, <2>2
  <2> QED BY <2>4, <2>6, <2>7 DEF SessionCall, At, Mem, User, Made, Live, Family, Undisturbed
<1> QED BY <1>1, <1>4, <1>5, <1>6 DEF SessionsOK

\* No call works on a session, but some may be cut off that did.
LEMMA SessionsStand ==
  ASSUME SessionsOK, UsersStay, SecondFactorKept, Calm, UNCHANGED sessionVars,
         Spares(SessionOps)
  PROVE  SessionsOK'
<1>1. tokens' = tokens /\ ended' = ended /\ confirmed' = confirmed /\ challenged' = challenged
      /\ secretsMade' = secretsMade
  BY DEF sessionVars
<1>2. SessionsTypeOK'
  BY <1>1 DEF SessionsOK, TokensOK, SessionsTypeOK
<1>3. \A u \in challenged' : Exists(u)'
  <2>1. challenged \subseteq UserIds /\ \A u \in challenged : Exists(u)
    BY DEF SessionsOK, TokensOK, SessionsTypeOK
  <2> QED BY <1>1, <2>1 DEF UsersStay
<1>4. EnabledIsConfirmed'
  BY <1>1 DEF SessionsOK, EnabledIsConfirmed, SecondFactorKept
<1>5. ASSUME NEW d \in Workers, calls'[d] # calls[d]
      PROVE  SessionCall(d)' /\ (At(d, "refresh", "revoke") => calls[d].on \subseteq hurt')
  <2>1. calls'[d].op \notin SessionOps
    BY <1>5 DEF Spares, SessionOps
  <2>2. SessionCall(d)'
    BY <2>1 DEF SessionCall, At, SessionOps
  <2>3. calls[d].op \in SessionOps => calls[d].on \subseteq hurt'
    BY <1>5 DEF Spares
  <2> QED BY <2>2, <2>3 DEF At, SessionOps
<1> QED BY <1>1, <1>2, <1>3, <1>4, <1>5, QuietSession

\* A sign-in, or a call on the second factor.
LEMMA SignInsKeep ==
  ASSUME CallsOK, UsersOK, SessionsOK, UsersStay, Calm, tokens' = tokens, ended' = ended,
         confirmed \subseteq confirmed', SessionsTypeOK', \A u \in challenged' : Exists(u)',
         EnabledIsConfirmed',
         NEW c \in Workers, NEW op, NEW pc, NEW on, NEW u, NEW mem, Turns(c, op, pc, on, u, mem),
         ~At(c, "refresh", "revoke"), op \notin {"refresh", "logout", "logoutall"},
         op = "enable" /\ pc = "write" => mem \in confirmed'
  PROVE  SessionsOK'
<1>1. \A d \in Workers : d # c => calls'[d] = calls[d]
  BY DEF Turns
<1>2. SessionCall(c)'
  BY DEF Turns, SessionCall, At, Mem
<1> QED BY <1>1, <1>2, QuietSession

LEMMA SignInStepsKeep ==
  ASSUME CallsOK, UsersOK, SessionsOK, UsersStay, Calm, NEW c \in Workers,
         \/ \E u \in UserIds :
               \/ \E password \in Passwords : Login(c, u, password)
               \/ \E code \in Secrets : LoginTwoFA(c, u, code) \/ ConfirmTwoFA(c, u, code)
                                         \/ DisableTwoFA(c, u, code)
               \/ InitiateTwoFA(c, u) \/ CreateAccount(c, u)
         \/ \E email \in Emails : GoogleLogin(c, email)
         \/ FindAccount(c) \/ ReadAccount(c) \/ VerifyTwoFA(c)
         \/ StoreSecret(c) \/ CheckSecret(c) \/ EnableTwoFA(c) \/ CheckEnabled(c)
         \/ ClearSecret(c)
  PROVE  SessionsOK'
<1>1. /\ SessionsTypeOK /\ (\A u \in challenged : Exists(u))
      /\ challenged \subseteq UserIds /\ EnabledIsConfirmed
  BY DEF SessionsOK, TokensOK, SessionsTypeOK
<1>2. \A u \in challenged : Exists(u)'
  BY <1>1 DEF UsersStay
<1>3. ASSUME UNCHANGED sessionVars PROVE SessionsTypeOK' /\ (\A u \in challenged' : Exists(u)')
  <2>1. SessionsTypeOK'
    BY <1>1, <1>3 DEF SessionsTypeOK, sessionVars
  <2> QED BY <1>2, <1>3, <2>1 DEF sessionVars
<1>4. ASSUME SecondFactorKept, confirmed \subseteq confirmed' PROVE EnabledIsConfirmed'
  BY <1>1, <1>4 DEF EnabledIsConfirmed, SecondFactorKept
<1>5. ASSUME users' = users PROVE SecondFactorKept
  BY <1>5 DEF SecondFactorKept
<1>6. ASSUME Finish(c) PROVE Turns(c, "idle", "idle", {}, Nobody, "nothing")
  BY <1>6, FinishTurns DEF CallsOK
<1>7. ASSUME NEW op, NEW pc, NEW on, NEW u, NEW mem, Begin(c, op, pc, on, u, mem)
      PROVE  Turns(c, op, pc, on, u, mem) /\ ~At(c, "refresh", "revoke")
  BY <1>7, BeginTurns DEF CallsOK, At
<1>8. ASSUME NEW pc, Goto(c, pc)
      PROVE  Turns(c, calls[c].op, pc, calls[c].on, calls[c].user, calls[c].mem)
  BY <1>8, GotoTurns DEF CallsOK
<1>9. ASSUME UNCHANGED <<users, sessionVars>>,
             NEW op, NEW pc, NEW on, NEW u, NEW mem, Turns(c, op, pc, on, u, mem),
             ~At(c, "refresh", "revoke"), op \notin {"refresh", "logout", "logoutall"},
             ~(op = "enable" /\ pc = "write")
      PROVE  SessionsOK'
  BY <1>3, <1>4, <1>5, <1>9, SignInsKeep DEF sessionVars
<1>10. ASSUME NEW op, NEW u, NEW mem, Begin(c, op, "read", {}, u, mem) \/ Begin(c, op, "find", {}, u, mem),
              op \in {"login", "google", "second", "enable", "disable"},
              UNCHANGED <<users, sessionVars>>
       PROVE  SessionsOK'
  BY <1>7, <1>9, <1>10
<1>11. ASSUME NEW u \in UserIds, NEW password, Login(c, u, password)
       PROVE  SessionsOK'
  BY <1>10, <1>11 DEF Login
<1>12. ASSUME NEW u \in UserIds, NEW code,
              LoginTwoFA(c, u, code) \/ ConfirmTwoFA(c, u, code) \/ DisableTwoFA(c, u, code)
       PROVE  SessionsOK'
  BY <1>10, <1>12 DEF LoginTwoFA, ConfirmTwoFA, DisableTwoFA
<1>13. ASSUME NEW email \in Emails, GoogleLogin(c, email)
       PROVE  SessionsOK'
  BY <1>10, <1>13 DEF GoogleLogin
<1>14. ASSUME NEW u \in UserIds, InitiateTwoFA(c, u)
       PROVE  SessionsOK'
  <2>1. PICK n : n = secretsMade + 1
    OBVIOUS
  <2>2. Begin(c, "setup", "store", {}, u, n)
        /\ UNCHANGED <<users, tokens, challenged, confirmed, ended>>
    BY <1>14, <2>1 DEF InitiateTwoFA
  <2>3. SessionsTypeOK'
    BY <1>1, <1>14, TokenIdsAssumption DEF InitiateTwoFA, SessionsTypeOK
  <2>4. EnabledIsConfirmed'
    BY <1>4, <1>5, <2>2
  <2> QED BY <1>2, <1>7, <2>2, <2>3, <2>4, SignInsKeep
<1>15. ASSUME FindAccount(c)
       PROVE  SessionsOK'
  <2>1. calls[c].op = "google" /\ UNCHANGED <<users, sessionVars>>
    BY <1>15 DEF FindAccount, At
  <2>2. CASE Goto(c, "create")
    BY <1>8, <1>9, <2>1, <2>2 DEF At
  <2>3. CASE calls' = [calls EXCEPT ![c].pc = "read",
                                    ![c].user = CHOOSE u \in FindByEmail(Mem(c)) : TRUE]
    <3>1. PICK u : u = CHOOSE v \in FindByEmail(Mem(c)) : TRUE
      OBVIOUS
    <3>2. Turns(c, calls[c].op, "read", calls[c].on, u, calls[c].mem)
      BY <2>3, <3>1, FoundTurns DEF CallsOK
    <3> QED BY <1>9, <2>1, <3>2 DEF At
  <2> QED BY <1>15, <2>2, <2>3 DEF FindAccount
<1>16. ASSUME NEW u \in UserIds, CreateAccount(c, u)
       PROVE  SessionsOK'
  <2>1. calls[c].op = "google" /\ UNCHANGED sessionVars /\ calls[c].pc = "create"
    BY <1>16 DEF CreateAccount, At
  <2>2. CASE Finish(c) /\ users' = users
    BY <1>6, <1>9, <2>1, <2>2 DEF At
  <2>3. CASE /\ FindByEmail(Mem(c)) = {}
             /\ Insert(u, Mem(c), GooglePhone(u), NewPassword)
             /\ calls' = [calls EXCEPT ![c].pc = "issue", ![c].user = u]
    <3>1. PICK email, phone, password :
             email = Mem(c) /\ phone = GooglePhone(u) /\ password = NewPassword
      OBVIOUS
    <3>2. Mem(c) \in Emails
      BY <2>1 DEF CallsOK, Remembers, Mem
    <3>3. phone \notin Phones
      <4>1. u \in Nat \ {0}
        BY UserIdsAssumption
      <4>2. -u \notin Nat
        BY <4>1
      <4> QED BY <3>1, <4>2, PhonesAssumption DEF GooglePhone
    <3>4. \A v \in UserIds : /\ users'[v].enabled = users[v].enabled
                             /\ users'[v].secret = users[v].secret
      BY <2>3, <3>1, <3>2, <3>3, RowInserted
    <3>5. Turns(c, calls[c].op, "issue", calls[c].on, u, calls[c].mem)
      BY <2>3, FoundTurns DEF CallsOK
    <3>6. EnabledIsConfirmed'
      BY <1>4, <2>1, <3>4 DEF sessionVars, SecondFactorKept
    <3> QED BY <1>3, <2>1, <3>5, <3>6, SignInsKeep DEF sessionVars, At
  <2> QED BY <1>16, <2>2, <2>3 DEF CreateAccount
<1>17. ASSUME ReadAccount(c)
       PROVE  SessionsOK'
  <2>1. /\ calls[c].op \in {"login", "google"} /\ calls[c].pc = "read"
        /\ UNCHANGED <<users, tokens, secretsMade, confirmed, ended>>
        /\ Finish(c) \/ Goto(c, "issue")
        /\ challenged' = challenged \/ challenged' = challenged \cup {User(c)}
    BY <1>17 DEF ReadAccount
  <2>2. User(c) \in UserIds /\ Exists(User(c))
    <3>1. Named(calls[c].op, calls[c].pc)
      BY <2>1 DEF Named
    <3> QED BY <3>1, KnownUser
  <2>3. PICK u : u = User(c)
    OBVIOUS
  <2>4. Exists(u)'
    BY <2>2, <2>3 DEF UsersStay
  <2>5. SessionsTypeOK' /\ \A v \in challenged' : Exists(v)'
    BY <1>1, <1>2, <2>1, <2>2, <2>3, <2>4 DEF SessionsTypeOK
  <2>6. EnabledIsConfirmed'
    BY <1>4, <1>5, <2>1
  <2>7. CASE Finish(c)
    BY <1>6, <2>1, <2>5, <2>6, <2>7, SignInsKeep DEF At
  <2>8. CASE Goto(c, "issue")
    BY <1>8, <2>1, <2>5, <2>6, <2>8, SignInsKeep DEF At
  <2> QED BY <2>1, <2>7, <2>8
<1>18. ASSUME VerifyTwoFA(c) \/ CheckEnabled(c)
       PROVE  SessionsOK'
  <2>1. /\ calls[c].op \in {"second", "disable"} /\ calls[c].pc = "read"
        /\ UNCHANGED <<users, sessionVars>>
        /\ Finish(c) \/ Goto(c, "issue") \/ Goto(c, "write")
    BY <1>18 DEF VerifyTwoFA, CheckEnabled, At
  <2> QED BY <1>6, <1>8, <1>9, <2>1 DEF At
<1>19. ASSUME CheckSecret(c)
       PROVE  SessionsOK'
  <2>1. /\ calls[c].op = "enable" /\ calls[c].pc = "read"
        /\ UNCHANGED <<users, tokens, challenged, secretsMade, ended>>
        /\ \/ Finish(c) /\ confirmed' = confirmed
           \/ Goto(c, "write") /\ confirmed' = confirmed \cup {calls[c].mem}
    BY <1>19 DEF CheckSecret, At, Mem
  <2>2. SessionsTypeOK'
    <3>1. calls[c].mem \in Secrets
      BY <2>1 DEF CallsOK, Remembers
    <3> QED BY <1>1, <2>1, <3>1 DEF SessionsTypeOK
  <2>3. EnabledIsConfirmed'
    BY <1>4, <1>5, <2>1
  <2>4. \A u \in challenged' : Exists(u)'
    BY <1>2, <2>1
  <2>5. CASE Finish(c)
    BY <1>6, <2>1, <2>2, <2>3, <2>4, <2>5, SignInsKeep DEF At
  <2>6. CASE Goto(c, "write") /\ confirmed' = confirmed \cup {calls[c].mem}
    BY <1>8, <2>1, <2>2, <2>3, <2>4, <2>6, SignInsKeep DEF At
  <2> QED BY <2>1, <2>5, <2>6
<1>20. ASSUME StoreSecret(c) \/ EnableTwoFA(c) \/ ClearSecret(c)
       PROVE  SessionsOK'
  <2>1. PICK secret, enabled :
          /\ UpdateTwoFA(User(c), secret, enabled) /\ enabled \in BOOLEAN
          /\ secret = Mem(c) \/ secret = NoSecret
          /\ calls[c].op \in {"setup", "enable", "disable"} /\ Finish(c)
          /\ enabled => secret = Mem(c) /\ At(c, "enable", "write")
          /\ UNCHANGED sessionVars
    BY <1>20 DEF StoreSecret, EnableTwoFA, ClearSecret, At
  <2>2. Named(calls[c].op, calls[c].pc)
    BY <2>1 DEF Named
  <2>3. User(c) \in UserIds /\ Exists(User(c))
    BY <2>2, KnownUser
  <2>4. secret \in Secrets \cup {NoSecret}
    BY <2>1 DEF CallsOK, Remembers, Mem
  <2>5. enabled => secret \in confirmed
    BY <2>1 DEF SessionsOK, SessionCall
  <2>6. PICK u : u = User(c)
    OBVIOUS
  <2>7. /\ users'[u].secret = secret /\ users'[u].enabled = enabled
        /\ \A v \in UserIds : v # u => users'[v] = users[v]
    BY <2>1, <2>3, <2>4, <2>6, TwoFAWritten
  <2>8. EnabledIsConfirmed'
    BY <1>1, <2>1, <2>5, <2>7 DEF EnabledIsConfirmed, sessionVars
  <2> QED BY <1>3, <1>6, <2>1, <2>8, SignInsKeep DEF sessionVars, At
<1> QED BY <1>11, <1>12, <1>13, <1>14, <1>15, <1>16, <1>17, <1>18, <1>19, <1>20

\* A call on a session begins, or a refresh has found its token good.
LEMMA TokenCallsKeep ==
  ASSUME CallsOK, UsersOK, RacesOK, SessionsOK, UsersStay, Calm, NEW c \in Workers,
         \/ \E t \in TokenIds : \/ RefreshToken(c, t) \/ Logout(c, t)
                               \/ LogoutWithoutCookie(c, t)
         \/ \E u \in UserIds : LogoutAll(c, u)
         \/ ReadToken(c) \/ AnswerLogout(c)
  PROVE  SessionsOK'
<1>1. UNCHANGED <<users, sessionVars>>
  BY DEF RefreshToken, Logout, LogoutWithoutCookie, LogoutAll, ReadToken, AnswerLogout
<1>2. /\ SessionsTypeOK /\ (\A u \in challenged : Exists(u))
      /\ challenged \subseteq UserIds /\ EnabledIsConfirmed
  BY DEF SessionsOK, TokensOK, SessionsTypeOK
<1>3. /\ SessionsTypeOK' /\ (\A u \in challenged' : Exists(u)') /\ EnabledIsConfirmed'
      /\ tokens' = tokens /\ ended' = ended /\ confirmed' = confirmed
  BY <1>1, <1>2 DEF SessionsTypeOK, sessionVars, UsersStay, EnabledIsConfirmed
<1>4. ASSUME NEW op, NEW pc, NEW on, NEW u, NEW mem, Turns(c, op, pc, on, u, mem),
             ~At(c, "refresh", "revoke"), SessionCall(c)'
      PROVE  SessionsOK'
  <2>1. \A d \in Workers : d # c => calls'[d] = calls[d]
    BY <1>4 DEF Turns
  <2> QED BY <1>3, <1>4, <2>1, QuietSession
<1>5. ASSUME NEW t \in TokenIds,
              RefreshToken(c, t) \/ Logout(c, t) \/ LogoutWithoutCookie(c, t)
      PROVE  SessionsOK'
  <2>1. PICK on, u : on = {Family(t)} /\ u = tokens[t].user
    OBVIOUS
  <2>2. PICK op, pc, at : /\ Begin(c, op, pc, at, u, t) /\ op \in {"refresh", "logout"}
                          /\ pc # "issue" /\ Made(t)
                          /\ at = on \/ (op = "logout" /\ pc # "revoke")
    BY <1>5, <2>1 DEF RefreshToken, Logout, LogoutWithoutCookie
  <2>3. Turns(c, op, pc, at, u, t) /\ calls[c].op = "idle"
    BY <2>2, BeginTurns DEF CallsOK
  <2>4. /\ calls'[c].op = op /\ calls'[c].pc = pc /\ calls'[c].on = at /\ calls'[c].user = u
        /\ calls'[c].mem = t
    BY <2>3 DEF Turns
  <2>5. SessionCall(c)'
    BY <1>3, <2>1, <2>2, <2>4 DEF SessionCall, At, Mem, User, Made, Family
  <2> QED BY <1>4, <2>3, <2>5 DEF At
<1>6. ASSUME NEW u \in UserIds, LogoutAll(c, u)
      PROVE  SessionsOK'
  <2>1. PICK on : on = FamiliesOf(u) \cup {<<"family", t>> : t \in {t \in TokenIds : ~Made(t)}}
    OBVIOUS
  <2>2. Begin(c, "logoutall", "revoke", on, u, "nothing")
    BY <1>6, <2>1 DEF LogoutAll
  <2>3. Turns(c, "logoutall", "revoke", on, u, "nothing") /\ calls[c].op = "idle"
    BY <2>2, BeginTurns DEF CallsOK
  <2>4. calls'[c].op = "logoutall" /\ calls'[c].on = on /\ calls'[c].user = u
    BY <2>3 DEF Turns
  <2>5. \A t \in TokenIds : /\ ~Made(t) => <<"family", t>> \in on
                            /\ Made(t) /\ tokens[t].user = u => Family(t) \in on
    BY <2>1 DEF FamiliesOf
  <2>6. SessionCall(c)'
    BY <1>3, <2>4, <2>5 DEF SessionCall, At, Mem, User, Made, Family
  <2> QED BY <1>4, <2>3, <2>6 DEF At
<1>7. ASSUME ReadToken(c)
      PROVE  SessionsOK'
  <2>1. PICK on, u, t : on = calls[c].on /\ u = calls[c].user /\ t = calls[c].mem
    OBVIOUS
  <2>2. /\ calls[c].op = "refresh" /\ calls[c].pc = "read"
        /\ (Live(t) /\ Goto(c, "issue")) \/ Finish(c)
    BY <1>7, <2>1 DEF ReadToken, At, Mem
  <2>3. CASE Finish(c)
    <3>1. Turns(c, "idle", "idle", {}, Nobody, "nothing")
      BY <2>3, FinishTurns DEF CallsOK
    <3>2. SessionCall(c)'
      BY <3>1 DEF Turns, SessionCall, At
    <3> QED BY <1>4, <2>2, <3>1, <3>2 DEF At
  <2>4. CASE Live(t) /\ Goto(c, "issue")
    <3>1. Turns(c, "refresh", "issue", on, u, t)
      BY <2>1, <2>2, <2>4, GotoTurns DEF CallsOK
    <3>2. Made(t) /\ tokens[t].user = u /\ on = {Family(t)} /\ t \in TokenIds
      BY <2>1, <2>2 DEF SessionsOK, SessionCall, User, Mem, CallsOK, Remembers
    <3>3. ASSUME NEW s \in TokenIds, Live(s), Family(s) = Family(t), Undisturbed(Family(t))
          PROVE  Good(s)
      <4>1. ASSUME NEW d \in Workers, At(d, "refresh", "revoke"), Mem(d) = s
            PROVE  FALSE
        <5>1. calls[d].on = {Family(s)}
          BY <4>1 DEF SessionsOK, SessionCall, At
        <5>2. d # c
          BY <2>2, <4>1 DEF At
        <5>3. Family(t) \in calls[c].on \cap calls[d].on
          BY <2>1, <3>2, <3>3, <5>1
        <5>4. Family(t) \in raced
          BY <5>2, <5>3 DEF RacesOK
        <5> QED BY <3>3, <5>4 DEF Undisturbed
      <4> QED BY <3>3, <4>1 DEF Good
    <3>4. Undisturbed(Family(t)) =>
            /\ Family(t) \notin ended
            /\ \A s \in TokenIds : Live(s) /\ Family(s) = Family(t) => s = t
      <4> SUFFICES ASSUME Undisturbed(Family(t))
                   PROVE  /\ Family(t) \notin ended
                          /\ \A s \in TokenIds : Live(s) /\ Family(s) = Family(t) => s = t
        OBVIOUS
      <4>1. Good(t)
        BY <2>4, <3>2, <3>3
      <4>2. Family(t) \notin ended
        BY <2>4, <3>2 DEF SessionsOK, EndedStaysEnded
      <4>3. ASSUME NEW s \in TokenIds, Live(s), Family(s) = Family(t) PROVE s = t
        <5>1. Good(s) /\ Undisturbed(Family(s))
          BY <3>3, <4>3
        <5> QED BY <3>2, <4>1, <4>3, <5>1 DEF SessionsOK, OneGood
      <4> QED BY <4>2, <4>3
    <3>5. PICK f : f = Family(t)
      OBVIOUS
    <3>6. Undisturbed(f)' => Undisturbed(f)
      BY DEF Calm
    <3>7. /\ calls'[c].op = "refresh" /\ calls'[c].pc = "issue" /\ calls'[c].on = on
          /\ calls'[c].user = u /\ calls'[c].mem = t
      BY <3>1 DEF Turns
    <3>8. /\ Made(t)' /\ tokens'[t].user = u /\ on = {f} /\ Family(t)' = f
          /\ Undisturbed(f)' => f \notin ended' /\ \A s \in TokenIds : Live(s)' /\ Family(s)' = f => s = t
      BY <1>3, <3>2, <3>4, <3>5, <3>6 DEF Made, Live, Family
    <3>9. SessionCall(c)'
      BY <3>7, <3>8 DEF SessionCall, At, Mem, User, Made, Live, Family, Undisturbed
    <3> QED BY <1>4, <2>2, <3>1, <3>9 DEF At
  <2> QED BY <2>2, <2>3, <2>4
<1>8. ASSUME AnswerLogout(c)
      PROVE  SessionsOK'
  <2>1. calls[c].op = "logout" /\ Finish(c)
    BY <1>8 DEF AnswerLogout, At
  <2>2. Turns(c, "idle", "idle", {}, Nobody, "nothing")
    BY <2>1, FinishTurns DEF CallsOK
  <2>3. SessionCall(c)'
    BY <2>2 DEF Turns, SessionCall, At
  <2> QED BY <1>4, <2>1, <2>2, <2>3 DEF At
<1> QED BY <1>5, <1>6, <1>7, <1>8

\* Tokens end, and maybe sessions: no token becomes good, and no session ends
\* that has a good token left or one that is being exchanged.
LEMMA TokensEnd ==
  ASSUME CallsOK, SessionsOK, Calm, UNCHANGED <<users, challenged, secretsMade, confirmed>>,
         SessionsTypeOK',
         \A t \in TokenIds : /\ Made(t)' <=> Made(t)
                             /\ tokens'[t].user = tokens[t].user
                             /\ tokens'[t].family = tokens[t].family
                             /\ Live(t)' => Live(t),
         \A d \in Workers : calls'[d] = calls[d] \/ calls'[d].op = "idle",
         \A t \in TokenIds : Good(t)' => Good(t),
         NEW new, ended' = ended \cup new,
         \A t \in TokenIds : <<"family", t>> \in new => Made(t),
         \A t \in TokenIds : Live(t)' /\ Undisturbed(Family(t)) => Family(t) \notin new,
         \A d \in Workers :
            calls'[d] = calls[d] /\ At(d, "refresh", "issue") /\ Undisturbed(Family(Mem(d))) =>
               Family(Mem(d)) \notin new
  PROVE  SessionsOK'
<1>1. \A t \in TokenIds : Family(t)' = Family(t)
  BY DEF Family
<1>2. \A t \in TokenIds : Undisturbed(Family(t))' => Undisturbed(Family(t))
  <2> TAKE t \in TokenIds
  <2>1. PICK f : f = Family(t)
    OBVIOUS
  <2>2. Undisturbed(f)' => Undisturbed(f)
    BY DEF Calm
  <2> QED BY <1>1, <2>1, <2>2 DEF Undisturbed
<1>3. TokensOK'
  <2>1. TokensOK
    BY DEF SessionsOK
  <2>2. ASSUME NEW t \in TokenIds, Made(t)'
        PROVE  /\ tokens'[t].user \in UserIds /\ tokens'[t].family \in TokenIds
               /\ Made(tokens[t].family)' /\ tokens'[tokens'[t].family].user = tokens'[t].user
               /\ Exists(tokens[t].user)'
    <3>1. PICK u, f : u = tokens[t].user /\ f = tokens[t].family
      OBVIOUS
    <3>2. /\ u \in UserIds /\ f \in TokenIds /\ Made(f) /\ tokens[f].user = u /\ Exists(u)
      BY <2>1, <2>2, <3>1 DEF TokensOK
    <3>3. Made(f)' /\ tokens'[f].user = u /\ tokens'[t].user = u /\ tokens'[t].family = f
      BY <3>1, <3>2
    <3>4. Exists(u)'
      BY <3>2 DEF Exists
    <3> QED BY <3>2, <3>3, <3>4 DEF Made, Exists
  <2>3. (\A u \in challenged' : Exists(u)') /\ (\A t \in TokenIds : <<"family", t>> \in ended' => Made(t)')
    BY <2>1 DEF TokensOK, Exists
  <2> QED BY <2>2, <2>3 DEF TokensOK, Made, Exists
<1>4. OneGood'
  <2> SUFFICES ASSUME NEW s \in TokenIds, NEW t \in TokenIds, Good(s)', Good(t)',
                      Family(s)' = Family(t)', Undisturbed(Family(s))'
               PROVE  s = t
    BY DEF OneGood
  <2>1. Family(s) = Family(t) /\ Undisturbed(Family(s))
    BY <1>1, <1>2
  <2>2. Good(s) /\ Good(t)
    OBVIOUS
  <2> QED BY <2>1, <2>2 DEF SessionsOK, OneGood
<1>5. EndedStaysEnded'
  <2> SUFFICES ASSUME NEW t \in TokenIds, Live(t)', Undisturbed(Family(t))'
               PROVE  Family(t)' \notin ended'
    BY DEF EndedStaysEnded
  <2>1. Family(t)' = Family(t) /\ Undisturbed(Family(t)) /\ Live(t)
    BY <1>1, <1>2
  <2>2. Family(t) \notin ended /\ Family(t) \notin new
    BY <2>1 DEF SessionsOK, EndedStaysEnded
  <2> QED BY <2>1, <2>2
<1>6. EnabledIsConfirmed'
  BY DEF SessionsOK, EnabledIsConfirmed
<1>7. ASSUME NEW d \in Workers, calls'[d] = calls[d] PROVE SessionCall(d)'
  <2>1. SessionCall(d)
    BY DEF SessionsOK
  <2>2. PICK r, m, f : r = calls[d] /\ m = calls[d].mem /\ f = Family(m)
    OBVIOUS
  <2>3. calls'[d] = r /\ calls'[d].mem = m
    BY <1>7, <2>2
  <2>4. /\ r.op = "refresh" \/ (r.op = "logout" /\ r.pc = "revoke") =>
            m \in TokenIds /\ Made(m) /\ tokens[m].user = r.user /\ r.on = {f}
        /\ r.op = "logoutall" => \A t \in TokenIds :
            /\ ~Made(t) => <<"family", t>> \in r.on
            /\ Made(t) /\ tokens[t].user = r.user => Family(t) \in r.on
        /\ r.op = "refresh" /\ r.pc = "issue" /\ Undisturbed(f) =>
            /\ f \notin ended
            /\ \A t \in TokenIds : Live(t) /\ Family(t) = f => t = m
        /\ r.op = "enable" /\ r.pc = "write" => m \in confirmed
    <3>1. r.op = "refresh" \/ (r.op = "logout" /\ r.pc = "revoke") => m \in TokenIds
      BY <2>2 DEF CallsOK, Remembers
    <3> QED BY <2>1, <2>2, <3>1 DEF SessionCall, At, Mem, User
  <2>5. r.op = "refresh" /\ r.pc = "issue" /\ Undisturbed(f) => f \notin new
    BY <1>7, <2>2 DEF At, Mem
  <2>6. ASSUME r.op = "refresh" \/ (r.op = "logout" /\ r.pc = "revoke")
        PROVE  /\ Made(m)' /\ tokens'[m].user = r.user /\ r.on = {f} /\ Family(m)' = f
               /\ Undisturbed(f)' => Undisturbed(f)
    <3>1. m \in TokenIds
      BY <2>4, <2>6
    <3> QED BY <1>1, <2>2, <2>4, <2>6, <3>1 DEF Calm
  <2>7. r.op = "logoutall" => \A t \in TokenIds :
            /\ ~Made(t)' => <<"family", t>> \in r.on
            /\ Made(t)' /\ tokens'[t].user = r.user => Family(t)' \in r.on
    BY <1>1, <2>4
  <2>8. r.op = "refresh" /\ r.pc = "issue" /\ Undisturbed(f)' =>
            /\ f \notin ended'
            /\ \A t \in TokenIds : Live(t)' /\ Family(t)' = f => t = m
    BY <1>1, <2>4, <2>5, <2>6
  <2>9. r.op = "enable" /\ r.pc = "write" => m \in confirmed'
    BY <2>4
  <2> QED BY <2>3, <2>6, <2>7, <2>8, <2>9
          DEF SessionCall, At, Mem, User, Made, Live, Family, Undisturbed
<1>8. ASSUME NEW d \in Workers, calls'[d].op = "idle" PROVE SessionCall(d)'
  BY <1>8 DEF SessionCall, At
<1> QED BY <1>3, <1>4, <1>5, <1>6, <1>7, <1>8 DEF SessionsOK

LEMMA TokensRevoked ==
  ASSUME SessionsOK, NEW ts, \A t \in ts : Made(t), Revoke(ts)
  PROVE  /\ tokens' \in [TokenIds -> [user : UserIds \cup {Nobody}, family : TokenIds \cup {0},
                                      revoked : BOOLEAN, expired : BOOLEAN]]
         /\ \A t \in TokenIds : /\ Made(t)' <=> Made(t)
                                /\ tokens'[t].user = tokens[t].user
                                /\ tokens'[t].family = tokens[t].family
                                /\ Live(t)' <=> Live(t) /\ t \notin ts
<1> DEFINE Row0 == [user : UserIds \cup {Nobody}, family : TokenIds \cup {0},
                    revoked : BOOLEAN, expired : BOOLEAN]
<1>1. tokens \in [TokenIds -> Row0]
  BY DEF SessionsOK, TokensOK, SessionsTypeOK
<1>2. ASSUME NEW t \in TokenIds
      PROVE  /\ tokens'[t] \in Row0
             /\ Made(t)' <=> Made(t)
             /\ tokens'[t].user = tokens[t].user
             /\ tokens'[t].family = tokens[t].family
             /\ Live(t)' <=> Live(t) /\ t \notin ts
  <2>1. CASE t \notin ts
    BY <1>1, <2>1 DEF Revoke, Made, Live
  <2>2. CASE t \in ts
    <3>1. tokens'[t] = [tokens[t] EXCEPT !.revoked = TRUE]
      BY <2>2 DEF Revoke
    <3>2. /\ tokens'[t] \in Row0 /\ tokens'[t].revoked = TRUE
          /\ tokens'[t].user = tokens[t].user /\ tokens'[t].family = tokens[t].family
      BY <1>1, <3>1
    <3>3. NoToken.revoked = FALSE
      BY DEF NoToken
    <3> QED BY <2>2, <3>2, <3>3 DEF Made, Live
  <2> QED BY <2>1, <2>2
<1>3. tokens' = [t \in TokenIds |-> tokens'[t]]
  BY DEF Revoke
<1>4. tokens' \in [TokenIds -> Row0]
  BY <1>2, <1>3
<1> QED BY <1>2, <1>4

LEMMA TokenEndsKeep ==
  ASSUME CallsOK, UsersOK, RacesOK, SessionsOK, Calm,
         \/ \E c \in Workers : RevokeOld(c) \/ RevokeOne(c) \/ RevokeAll(c)
         \/ \E t \in TokenIds : Expire(t)
  PROVE  SessionsOK'
<1>1. /\ SessionsTypeOK /\ TokensOK
      /\ ended \subseteq {<<"family", t>> : t \in TokenIds}
  BY DEF SessionsOK, TokensOK, SessionsTypeOK
\* Two calls on a session disturb it.
<1>2. ASSUME NEW c \in Workers, NEW d \in Workers, c # d,
             NEW f \in calls[c].on \cap calls[d].on
      PROVE  ~Undisturbed(f)
  BY <1>2 DEF RacesOK, Undisturbed
<1>3. ASSUME NEW c \in Workers, RevokeOld(c)
      PROVE  SessionsOK'
  <2>1. PICK m : m = calls[c].mem
    OBVIOUS
  <2>2. /\ At(c, "refresh", "revoke") /\ Revoke({m}) /\ Finish(c)
        /\ UNCHANGED <<users, challenged, secretsMade, confirmed, ended>>
    BY <1>3, <2>1 DEF RevokeOld, Mem
  <2>3. m \in TokenIds /\ Made(m)
    BY <2>1, <2>2 DEF At, Mem, SessionsOK, SessionCall, CallsOK, Remembers
  <2>4. /\ tokens' \in [TokenIds -> [user : UserIds \cup {Nobody}, family : TokenIds \cup {0},
                                     revoked : BOOLEAN, expired : BOOLEAN]]
        /\ \A t \in TokenIds : /\ Made(t)' <=> Made(t)
                               /\ tokens'[t].user = tokens[t].user
                               /\ tokens'[t].family = tokens[t].family
                               /\ Live(t)' <=> Live(t) /\ t \notin {m}
    BY <2>2, <2>3, TokensRevoked
  <2>5. Turns(c, "idle", "idle", {}, Nobody, "nothing")
    BY <2>2, FinishTurns DEF CallsOK
  <2>6. \A d \in Workers : calls'[d] = calls[d] \/ (d = c /\ calls'[d].op = "idle")
    BY <2>5 DEF Turns
  <2>7. ASSUME NEW t \in TokenIds, Good(t)' PROVE Good(t)
    <3>1. Live(t) /\ t # m
      BY <2>4, <2>7 DEF Good
    <3>2. ASSUME NEW d \in Workers, At(d, "refresh", "revoke"), Mem(d) = t PROVE FALSE
      <4>1. d # c
        BY <2>1, <3>1, <3>2 DEF Mem
      <4>2. calls'[d] = calls[d]
        BY <2>6, <4>1
      <4> QED BY <2>7, <3>2, <4>2 DEF Good, At, Mem
    <3> QED BY <3>1, <3>2 DEF Good
  <2>8. SessionsTypeOK'
    BY <1>1, <2>2, <2>4 DEF SessionsTypeOK
  <2>9. PICK new : new = {}
    OBVIOUS
  <2>10. ended' = ended \cup new /\ \A x : x \notin new
    BY <2>2, <2>9
  <2> QED BY <2>2, <2>4, <2>6, <2>7, <2>8, <2>10, TokensEnd
<1>4. ASSUME NEW c \in Workers, NEW ts, \A t \in ts : t \in TokenIds /\ Made(t), Revoke(ts),
             NEW new, ended' = ended \cup new, Finish(c),
             UNCHANGED <<users, challenged, secretsMade, confirmed>>,
             ~At(c, "refresh", "revoke"), \A t \in new : t \in calls[c].on,
             \A f \in new : \E t \in TokenIds : Made(t) /\ f = Family(t),
             \A t \in TokenIds : Good(t) /\ Undisturbed(Family(t)) /\ Family(t) \in new => t \in ts
      PROVE  SessionsOK'
  <2>1. /\ tokens' \in [TokenIds -> [user : UserIds \cup {Nobody}, family : TokenIds \cup {0},
                                     revoked : BOOLEAN, expired : BOOLEAN]]
        /\ \A t \in TokenIds : /\ Made(t)' <=> Made(t)
                               /\ tokens'[t].user = tokens[t].user
                               /\ tokens'[t].family = tokens[t].family
                               /\ Live(t)' <=> Live(t) /\ t \notin ts
    BY <1>4, TokensRevoked
  <2>2. Turns(c, "idle", "idle", {}, Nobody, "nothing")
    BY <1>4, FinishTurns DEF CallsOK
  <2>3. \A d \in Workers : calls'[d] = calls[d] \/ (d = c /\ calls'[d].op = "idle")
    BY <2>2 DEF Turns
  <2>4. ASSUME NEW t \in TokenIds, Good(t)' PROVE Good(t)
    <3>1. Live(t)
      BY <2>1, <2>4 DEF Good
    <3>2. ASSUME NEW d \in Workers, At(d, "refresh", "revoke"), Mem(d) = t PROVE FALSE
      <4>1. calls'[d] = calls[d]
        BY <1>4, <2>3, <3>2
      <4> QED BY <2>4, <3>2, <4>1 DEF Good, At, Mem
    <3> QED BY <3>1, <3>2 DEF Good
  <2>5. ASSUME NEW t \in TokenIds, Live(t)', Undisturbed(Family(t))
        PROVE  Family(t) \notin new
    <3>1. Live(t) /\ t \notin ts
      BY <2>1, <2>5
    <3>2. ASSUME Family(t) \in new PROVE FALSE
      <4>1. ASSUME NEW d \in Workers, At(d, "refresh", "revoke"), Mem(d) = t PROVE FALSE
        <5>1. calls[d].on = {Family(t)} /\ d # c
          BY <1>4, <4>1 DEF At, SessionsOK, SessionCall
        <5>2. Family(t) \in calls[c].on \cap calls[d].on
          BY <1>4, <3>2, <5>1
        <5> QED BY <1>2, <2>5, <5>1, <5>2
      <4>2. Good(t)
        BY <3>1, <4>1 DEF Good
      <4> QED BY <1>4, <2>5, <3>1, <3>2, <4>2
    <3> QED BY <3>2
  <2>6. ASSUME NEW d \in Workers, calls'[d] = calls[d], At(d, "refresh", "issue"),
               Undisturbed(Family(Mem(d)))
        PROVE  Family(Mem(d)) \notin new
    <3>1. PICK f : f = Family(Mem(d))
      OBVIOUS
    <3>2. calls[d].on = {f}
      BY <2>6, <3>1 DEF At, SessionsOK, SessionCall
    <3>3. d # c
      BY <2>2, <2>6 DEF Turns, At
    <3>4. f \in new => f \in calls[c].on \cap calls[d].on
      BY <1>4, <3>2
    <3> QED BY <1>2, <2>6, <3>1, <3>3, <3>4
  <2>7. /\ new \subseteq {<<"family", t>> : t \in TokenIds}
        /\ \A t \in TokenIds : <<"family", t>> \in new => Made(t)
    <3>1. ASSUME NEW f \in new PROVE \E t \in TokenIds : f = <<"family", t>> /\ Made(t)
      <4>1. PICK s \in TokenIds : Made(s) /\ f = Family(s)
        BY <1>4
      <4> QED BY <1>1, <4>1 DEF TokensOK, Family
    <3> QED BY <3>1
  <2>8. SessionsTypeOK'
    BY <1>1, <1>4, <2>1, <2>7 DEF SessionsTypeOK
  <2> QED BY <1>4, <2>1, <2>3, <2>4, <2>5, <2>6, <2>7, <2>8, TokensEnd
<1>5. ASSUME NEW c \in Workers, RevokeOne(c)
      PROVE  SessionsOK'
  <2>1. PICK m, f : m = calls[c].mem /\ f = Family(m)
    OBVIOUS
  <2>2. /\ At(c, "logout", "revoke") /\ Revoke({m}) /\ Finish(c)
        /\ UNCHANGED <<users, challenged, secretsMade, confirmed>>
        /\ ended' = IF Live(m) THEN ended \cup {f} ELSE ended
    BY <1>5, <2>1 DEF RevokeOne, Mem
  <2>3. m \in TokenIds /\ Made(m) /\ calls[c].on = {f}
    BY <2>1, <2>2 DEF At, Mem, SessionsOK, SessionCall, CallsOK, Remembers
  <2>4. PICK new : new = IF Live(m) THEN {f} ELSE {}
    OBVIOUS
  <2>5. ended' = ended \cup new
    BY <2>2, <2>4
  <2>6. ASSUME NEW t \in TokenIds, Good(t), Undisturbed(Family(t)), Family(t) \in new
        PROVE  t = m
    <3>1. Family(t) = f /\ Live(m)
      BY <2>4, <2>6
    <3>2. ASSUME NEW d \in Workers, At(d, "refresh", "revoke"), Mem(d) = m PROVE FALSE
      <4>1. calls[d].on = {f} /\ d # c
        BY <2>1, <2>2, <3>2 DEF At, SessionsOK, SessionCall
      <4>2. f \in calls[c].on \cap calls[d].on
        BY <2>3, <4>1
      <4> QED BY <1>2, <2>6, <3>1, <4>1, <4>2
    <3>3. Good(m)
      BY <3>1, <3>2 DEF Good
    <3> QED BY <2>1, <2>3, <2>6, <3>1, <3>3 DEF SessionsOK, OneGood
  <2>7. ~At(c, "refresh", "revoke")
    BY <2>2 DEF At
  <2>8. \A x \in new : x \in calls[c].on /\ \E t \in TokenIds : Made(t) /\ x = Family(t)
    BY <2>1, <2>3, <2>4
  <2>9. PICK ts : ts = {m}
    OBVIOUS
  <2>10. /\ Revoke(ts) /\ \A t \in ts : t \in TokenIds /\ Made(t)
         /\ \A t \in TokenIds : Good(t) /\ Undisturbed(Family(t)) /\ Family(t) \in new => t \in ts
    BY <2>2, <2>3, <2>6, <2>9
  <2> QED BY <1>4, <2>2, <2>5, <2>7, <2>8, <2>10
<1>6. ASSUME NEW c \in Workers, RevokeAll(c)
      PROVE  SessionsOK'
  <2>1. PICK u : u = User(c)
    OBVIOUS
  <2>2. PICK ts : ts = {t \in TokenIds : Made(t) /\ tokens[t].user = u}
    OBVIOUS
  <2>3. /\ At(c, "logoutall", "revoke") /\ Revoke(ts) /\ Finish(c)
        /\ UNCHANGED <<users, challenged, secretsMade, confirmed>>
        /\ ended' = ended \cup FamiliesOf(u)
    BY <1>6, <2>1, <2>2 DEF RevokeAll
  <2>4. PICK new : new = FamiliesOf(u)
    OBVIOUS
  <2>5. \A x \in new : x \in calls[c].on /\ \E t \in TokenIds : Made(t) /\ x = Family(t)
    <3>1. \A t \in TokenIds : Made(t) /\ tokens[t].user = u => Family(t) \in calls[c].on
      BY <2>1, <2>3 DEF At, SessionsOK, SessionCall
    <3> QED BY <2>4, <3>1 DEF FamiliesOf
  <2>6. ASSUME NEW t \in TokenIds, Good(t), Family(t) \in new
        PROVE  t \in ts
    <3>1. PICK s \in TokenIds : Made(s) /\ tokens[s].user = u /\ Family(t) = Family(s)
      BY <2>4, <2>6 DEF FamiliesOf
    <3>2. tokens[t].family = tokens[s].family
      BY <3>1 DEF Family
    <3>3. Made(t)
      BY <2>6 DEF Good, Live
    <3>4. tokens[t].user = u
      BY <1>1, <3>1, <3>2, <3>3 DEF TokensOK
    <3> QED BY <2>2, <3>3, <3>4
  <2>7. ~At(c, "refresh", "revoke")
    BY <2>3 DEF At
  <2>8. ended' = ended \cup new
    BY <2>3, <2>4
  <2>9. \A t \in ts : t \in TokenIds /\ Made(t)
    BY <2>2
  <2> QED BY <1>4, <2>3, <2>5, <2>6, <2>7, <2>8, <2>9
<1>7. ASSUME NEW m \in TokenIds, Expire(m)
      PROVE  SessionsOK'
  <2>1. /\ tokens' = [tokens EXCEPT ![m] = [tokens[m] EXCEPT !.expired = TRUE]]
        /\ calls' = calls /\ UNCHANGED <<users, challenged, secretsMade, confirmed, ended>>
    BY <1>7 DEF Expire, control
  <2> DEFINE Row0 == [user : UserIds \cup {Nobody}, family : TokenIds \cup {0},
                      revoked : BOOLEAN, expired : BOOLEAN]
  <2>2. PICK r : r = [tokens[m] EXCEPT !.expired = TRUE]
    OBVIOUS
  <2>3. tokens \in [TokenIds -> Row0]
    BY <1>1 DEF SessionsTypeOK
  <2>4. /\ r \in Row0 /\ r.expired = TRUE
        /\ r.user = tokens[m].user /\ r.family = tokens[m].family
    BY <2>2, <2>3
  <2>5. /\ tokens' \in [TokenIds -> Row0]
        /\ tokens'[m] = r /\ \A t \in TokenIds : t # m => tokens'[t] = tokens[t]
    BY <2>1, <2>2, <2>3, <2>4
  <2>6. r # NoToken /\ Made(m)
    BY <1>7, <2>4 DEF NoToken, Expire, Live
  <2>7. \A t \in TokenIds : /\ Made(t)' <=> Made(t)
                            /\ tokens'[t].user = tokens[t].user
                            /\ tokens'[t].family = tokens[t].family
                            /\ Live(t)' => Live(t)
    BY <2>4, <2>5, <2>6 DEF Made, Live
  <2>8. \A t \in TokenIds : Good(t)' => Good(t)
    BY <2>1, <2>7 DEF Good, At, Mem
  <2>9. SessionsTypeOK'
    BY <1>1, <2>1, <2>5 DEF SessionsTypeOK
  <2>10. PICK new : new = {}
    OBVIOUS
  <2>11. ended' = ended \cup new /\ \A x : x \notin new
    BY <2>1, <2>10
  <2> QED BY <2>1, <2>7, <2>8, <2>9, <2>11, TokensEnd
<1> QED BY <1>3, <1>5, <1>6, <1>7

LEMMA TokenMade ==
  ASSUME SessionsOK, NEW t \in TokenIds, NEW u \in UserIds, NEW f \in TokenIds, NewToken(t, u, f)
  PROVE  /\ tokens' \in [TokenIds -> [user : UserIds \cup {Nobody}, family : TokenIds \cup {0},
                                      revoked : BOOLEAN, expired : BOOLEAN]]
         /\ ~Made(t) /\ Live(t)' /\ Made(t)' /\ tokens'[t].user = u /\ tokens'[t].family = f
         /\ \A s \in TokenIds : s # t => tokens'[s] = tokens[s]
         /\ UNCHANGED <<challenged, secretsMade, confirmed, ended>>
<1> DEFINE Row0 == [user : UserIds \cup {Nobody}, family : TokenIds \cup {0},
                    revoked : BOOLEAN, expired : BOOLEAN]
<1>1. PICK r : r = [user |-> u, family |-> f, revoked |-> FALSE, expired |-> FALSE]
  OBVIOUS
<1>2. /\ r \in Row0 /\ r.user = u /\ r.family = f /\ r.revoked = FALSE /\ r.expired = FALSE
  BY <1>1
<1>3. r # NoToken
  BY <1>2, UserIdsAssumption DEF NoToken, Nobody
<1>4. tokens \in [TokenIds -> Row0]
  BY DEF SessionsOK, TokensOK, SessionsTypeOK
<1>5. tokens' = [tokens EXCEPT ![t] = r] /\ ~Made(t)
  BY <1>1 DEF NewToken
<1>6. /\ tokens' \in [TokenIds -> Row0]
      /\ tokens'[t] = r /\ \A s \in TokenIds : s # t => tokens'[s] = tokens[s]
  BY <1>2, <1>4, <1>5
<1> QED BY <1>2, <1>3, <1>5, <1>6 DEF NewToken, Live, Made

\* A new token of family f: no session ends, and f has no other good token.
LEMMA NewTokenKeeps ==
  ASSUME CallsOK, SessionsOK, Calm, users' = users,
         NEW t \in TokenIds, NEW u \in UserIds, NEW f \in TokenIds, NewToken(t, u, f), Exists(u),
         f = t \/ (Made(f) /\ tokens[f].user = u),
         Undisturbed(<<"family", f>>) => <<"family", f>> \notin ended,
         NEW c \in Workers, Others(c), SessionCall(c)',
         \A s \in TokenIds : Good(s)' /\ s # t =>
            Good(s) /\ (Undisturbed(<<"family", f>>) => Family(s) # <<"family", f>>),
         \A d \in Workers : d # c /\ At(d, "refresh", "issue") /\ Undisturbed(Family(Mem(d))) =>
            Family(Mem(d)) # <<"family", f>>,
         \A d \in Workers : d # c /\ calls[d].op = "logoutall" /\ User(d) = u =>
            <<"family", f>> \in calls[d].on
  PROVE  SessionsOK'
<1>1. /\ tokens' \in [TokenIds -> [user : UserIds \cup {Nobody}, family : TokenIds \cup {0},
                                   revoked : BOOLEAN, expired : BOOLEAN]]
      /\ ~Made(t) /\ Live(t)' /\ Made(t)' /\ tokens'[t].user = u /\ tokens'[t].family = f
      /\ \A s \in TokenIds : s # t => tokens'[s] = tokens[s]
      /\ UNCHANGED <<challenged, secretsMade, confirmed, ended>>
  BY TokenMade
<1>2. TokensOK /\ SessionsTypeOK
  BY DEF SessionsOK, TokensOK
<1>3. PICK ff : ff = <<"family", f>>
  OBVIOUS
<1>4. /\ Family(t)' = ff
      /\ \A s \in TokenIds : s # t => /\ Family(s)' = Family(s)
                                      /\ Made(s)' <=> Made(s)
                                      /\ Live(s)' <=> Live(s)
  BY <1>1, <1>3 DEF Family, Made, Live
<1>5. SessionsTypeOK'
  BY <1>1, <1>2 DEF SessionsTypeOK
<1>6. TokensOK'
  <2>1. ASSUME NEW s \in TokenIds, Made(s)'
        PROVE  /\ tokens'[s].user \in UserIds /\ tokens'[s].family \in TokenIds
               /\ tokens'[tokens'[s].family] # NoToken
               /\ tokens'[tokens'[s].family].user = tokens'[s].user
               /\ users'[tokens'[s].user] # NoUser
    <3>1. CASE s # t
      <4>1. PICK v, g : v = tokens[s].user /\ g = tokens[s].family
        OBVIOUS
      <4>2. Made(s)
        BY <1>4, <2>1, <3>1
      <4>3. v \in UserIds /\ g \in TokenIds /\ Made(g) /\ tokens[g].user = v /\ Exists(v)
        BY <1>2, <4>1, <4>2 DEF TokensOK
      <4>4. g # t
        BY <1>1, <4>3
      <4>5. Made(g)' /\ tokens'[g].user = v /\ tokens'[s].user = v /\ tokens'[s].family = g
        BY <1>1, <1>4, <3>1, <4>1, <4>3, <4>4
      <4> QED BY <4>3, <4>5 DEF Made, Exists
    <3>2. CASE s = t
      <4>1. CASE f = t
        BY <1>1, <3>2, <4>1 DEF Made, Exists
      <4>2. CASE f # t
        <5>1. Made(f)' /\ tokens'[f].user = u
          BY <1>1, <1>4, <4>2
        <5> QED BY <1>1, <3>2, <5>1 DEF Made, Exists
      <4> QED BY <4>1, <4>2
    <3> QED BY <3>1, <3>2
  <2>2. \A v \in challenged' : Exists(v)'
    BY <1>1, <1>2 DEF TokensOK, Exists
  <2>3. \A s \in TokenIds : <<"family", s>> \in ended' => Made(s)'
    BY <1>1, <1>2, <1>4 DEF TokensOK
  <2> QED BY <1>5, <2>1, <2>2, <2>3 DEF TokensOK, Made, Exists
<1>7. Undisturbed(ff)' => Undisturbed(ff)
  BY DEF Calm
<1>8. OneGood'
  <2> SUFFICES ASSUME NEW r \in TokenIds, NEW s \in TokenIds, Good(r)', Good(s)',
                      Family(r)' = Family(s)', Undisturbed(Family(r))'
               PROVE  r = s
    BY DEF OneGood
  <2>1. CASE r # t /\ s # t
    <3>1. PICK g : g = Family(r)
      OBVIOUS
    <3>2. Undisturbed(g)'
      BY <1>4, <2>1, <3>1 DEF Undisturbed
    <3>3. Undisturbed(Family(r)) /\ Family(r) = Family(s)
      BY <1>4, <2>1, <3>1, <3>2 DEF Calm
    <3> QED BY <2>1, <3>3 DEF SessionsOK, OneGood
  <2>2. CASE r = t \/ s = t
    <3>1. Family(r)' = ff /\ Family(s)' = ff
      BY <1>4, <2>2
    <3>2. Undisturbed(ff)'
      BY <3>1 DEF Undisturbed
    <3>3. Undisturbed(ff)
      BY <1>7, <3>2
    <3> QED BY <1>3, <1>4, <2>2, <3>1, <3>3
  <2> QED BY <2>1, <2>2
<1>9. EndedStaysEnded'
  <2> SUFFICES ASSUME NEW s \in TokenIds, Live(s)', Undisturbed(Family(s))'
               PROVE  Family(s)' \notin ended'
    BY DEF EndedStaysEnded
  <2>1. PICK g : g = Family(s)'
    OBVIOUS
  <2>2. Undisturbed(g)
    BY <2>1 DEF Undisturbed, Calm
  <2>3. CASE s = t
    BY <1>1, <1>3, <1>4, <2>1, <2>2, <2>3
  <2>4. CASE s # t
    BY <1>1, <1>4, <2>1, <2>2, <2>4 DEF SessionsOK, EndedStaysEnded
  <2> QED BY <2>3, <2>4
<1>10. EnabledIsConfirmed'
  BY <1>1 DEF SessionsOK, EnabledIsConfirmed
<1>11. ASSUME NEW d \in Workers, d # c PROVE SessionCall(d)'
  <2>1. SessionCall(d)
    BY DEF SessionsOK
  <2>2. PICK r, m, g : r = calls[d] /\ m = calls[d].mem /\ g = Family(m)
    OBVIOUS
  <2>3. calls'[d] = r /\ calls'[d].mem = m
    BY <1>11, <2>2 DEF Others
  <2>4. /\ r.op = "refresh" \/ (r.op = "logout" /\ r.pc = "revoke") =>
            m \in TokenIds /\ Made(m) /\ tokens[m].user = r.user /\ r.on = {g}
        /\ r.op = "logoutall" => \A s \in TokenIds :
            /\ ~Made(s) => <<"family", s>> \in r.on
            /\ Made(s) /\ tokens[s].user = r.user => Family(s) \in r.on
        /\ r.op = "refresh" /\ r.pc = "issue" /\ Undisturbed(g) =>
            /\ g \notin ended
            /\ \A s \in TokenIds : Live(s) /\ Family(s) = g => s = m
        /\ r.op = "enable" /\ r.pc = "write" => m \in confirmed
    <3>1. r.op = "refresh" \/ (r.op = "logout" /\ r.pc = "revoke") => m \in TokenIds
      BY <2>2 DEF CallsOK, Remembers
    <3> QED BY <2>1, <2>2, <3>1 DEF SessionCall, At, Mem, User
  <2>5. /\ r.op = "refresh" /\ r.pc = "issue" /\ Undisturbed(g) => g # ff
        /\ r.op = "logoutall" /\ r.user = u => ff \in r.on
    BY <1>3, <1>11, <2>2 DEF At, Mem, User
  <2>6. ASSUME r.op = "refresh" \/ (r.op = "logout" /\ r.pc = "revoke")
        PROVE  /\ Made(m)' /\ tokens'[m].user = r.user /\ r.on = {g} /\ Family(m)' = g
               /\ Undisturbed(g)' => Undisturbed(g)
    <3>1. m \in TokenIds /\ m # t
      BY <1>1, <2>4, <2>6
    <3> QED BY <1>1, <1>4, <2>2, <2>4, <2>6, <3>1 DEF Calm
  <2>7. r.op = "logoutall" => \A s \in TokenIds :
            /\ ~Made(s)' => <<"family", s>> \in r.on
            /\ Made(s)' /\ tokens'[s].user = r.user => Family(s)' \in r.on
    BY <1>1, <1>4, <2>4, <2>5
  <2>8. r.op = "refresh" /\ r.pc = "issue" /\ Undisturbed(g)' =>
            /\ g \notin ended'
            /\ \A s \in TokenIds : Live(s)' /\ Family(s)' = g => s = m
    BY <1>1, <1>4, <2>4, <2>5, <2>6
  <2>9. r.op = "enable" /\ r.pc = "write" => m \in confirmed'
    BY <1>1, <2>4
  <2> QED BY <2>3, <2>6, <2>7, <2>8, <2>9
          DEF SessionCall, At, Mem, User, Made, Live, Family, Undisturbed
<1> QED BY <1>6, <1>8, <1>9, <1>10, <1>11 DEF SessionsOK

LEMMA NewTokensKeep ==
  ASSUME CallsOK, UsersOK, RacesOK, SessionsOK, Calm, NEW c \in Workers, NEW t \in TokenIds,
         OpenSession(c, t) \/ IssueNext(c, t)
  PROVE  SessionsOK'
<1>1. TokensOK
  BY DEF SessionsOK
<1>2. PICK u : u = User(c)
  OBVIOUS
<1>3. u \in UserIds /\ Exists(u)
  <2>1. Named(calls[c].op, calls[c].pc)
    BY DEF OpenSession, IssueNext, Named, At
  <2> QED BY <1>2, <2>1, KnownUser
<1>4. ~Made(t) /\ users' = users
  BY DEF OpenSession, IssueNext, NewToken
<1>5. CASE OpenSession(c, t)
  <2>1. /\ calls[c].op \in {"login", "google", "second"} /\ NewToken(t, u, t) /\ Finish(c)
    BY <1>2, <1>5 DEF OpenSession
  <2>2. Turns(c, "idle", "idle", {}, Nobody, "nothing")
    BY <2>1, FinishTurns DEF CallsOK
  <2>3. Others(c) /\ SessionCall(c)'
    BY <2>2 DEF Turns, Others, SessionCall, At
  <2>4. \A s \in TokenIds : Made(s) => Family(s) # <<"family", t>>
    BY <1>1, <1>4 DEF TokensOK, Family
  <2>5. /\ \A s \in TokenIds : s # t => tokens'[s] = tokens[s]
    BY <1>3, <2>1, TokenMade
  <2>6. ASSUME NEW s \in TokenIds, Good(s)', s # t
        PROVE  Good(s) /\ Family(s) # <<"family", t>>
    <3>1. Live(s)
      BY <2>5, <2>6 DEF Good, Live, Made
    <3>2. ASSUME NEW d \in Workers, At(d, "refresh", "revoke"), Mem(d) = s PROVE FALSE
      <4>1. calls'[d] = calls[d]
        BY <2>1, <2>3, <3>2 DEF Others, At
      <4> QED BY <2>6, <3>2, <4>1 DEF Good, At, Mem
    <3> QED BY <2>4, <3>1, <3>2 DEF Good, Live
  <2>7. <<"family", t>> \notin ended
    BY <1>1, <1>4 DEF TokensOK
  <2>8. ASSUME NEW d \in Workers, d # c, At(d, "refresh", "issue")
        PROVE  Family(Mem(d)) # <<"family", t>>
    <3>1. Mem(d) \in TokenIds /\ Made(Mem(d))
      BY <2>8 DEF At, Mem, CallsOK, Remembers, SessionsOK, SessionCall
    <3> QED BY <2>4, <3>1
  <2>9. \A d \in Workers : calls[d].op = "logoutall" => <<"family", t>> \in calls[d].on
    BY <1>4 DEF SessionsOK, SessionCall
  <2> QED BY <1>3, <1>4, <2>1, <2>3, <2>6, <2>7, <2>8, <2>9, NewTokenKeeps
<1>6. CASE IssueNext(c, t)
  <2>1. PICK m, f, on : m = calls[c].mem /\ f = tokens[m].family /\ on = calls[c].on
    OBVIOUS
  <2>2. /\ calls[c].op = "refresh" /\ calls[c].pc = "issue" /\ At(c, "refresh", "issue")
        /\ NewToken(t, u, f) /\ Goto(c, "revoke")
    BY <1>2, <1>6, <2>1 DEF IssueNext, At, Mem
  <2>3. PICK ff : ff = <<"family", f>>
    OBVIOUS
  <2>4. /\ m \in TokenIds /\ Made(m) /\ tokens[m].user = u /\ on = {ff} /\ Family(m) = ff
        /\ Undisturbed(ff) => /\ ff \notin ended
                              /\ \A s \in TokenIds : Live(s) /\ Family(s) = ff => s = m
    <3>1. m \in TokenIds
      BY <2>1, <2>2 DEF CallsOK, Remembers
    <3>2. SessionCall(c)
      BY DEF SessionsOK
    <3> QED BY <1>2, <2>1, <2>2, <2>3, <3>1, <3>2 DEF SessionCall, Mem, User, Family
  <2>5. f \in TokenIds /\ Made(f) /\ tokens[f].user = u
    BY <1>1, <2>1, <2>4 DEF TokensOK
  <2>6. Turns(c, "refresh", "revoke", on, u, m)
    BY <1>2, <2>1, <2>2, GotoTurns DEF CallsOK, User
  <2>7. /\ \A s \in TokenIds : s # t => tokens'[s] = tokens[s]
    BY <1>3, <2>2, <2>5, TokenMade
  <2>8. m # t
    BY <1>4, <2>4
  <2>9. /\ calls'[c].op = "refresh" /\ calls'[c].pc = "revoke" /\ calls'[c].on = on
        /\ calls'[c].user = u /\ calls'[c].mem = m /\ Others(c)
    BY <2>6 DEF Turns, Others
  <2>10. SessionCall(c)'
    <3>1. Made(m)' /\ tokens'[m].user = u /\ Family(m)' = ff
      BY <2>4, <2>7, <2>8 DEF Made, Family
    <3> QED BY <2>4, <2>9, <3>1 DEF SessionCall, At, Mem, User, Made, Family
  <2>11. ASSUME NEW s \in TokenIds, Good(s)', s # t
         PROVE  Good(s) /\ (Undisturbed(ff) => Family(s) # ff)
    <3>1. Live(s)
      BY <2>7, <2>11 DEF Good, Live, Made
    <3>2. s # m
      BY <2>9, <2>11 DEF Good, At, Mem
    <3>3. ASSUME NEW d \in Workers, At(d, "refresh", "revoke"), Mem(d) = s PROVE FALSE
      <4>1. calls'[d] = calls[d]
        BY <2>2, <2>9, <3>3 DEF Others, At
      <4> QED BY <2>11, <3>3, <4>1 DEF Good, At, Mem
    <3> QED BY <2>4, <3>1, <3>2, <3>3 DEF Good
  <2>12. ASSUME NEW d \in Workers, d # c, At(d, "refresh", "issue"), Undisturbed(Family(Mem(d)))
         PROVE  Family(Mem(d)) # ff
    <3>1. calls[d].on = {Family(Mem(d))}
      BY <2>12 DEF At, SessionsOK, SessionCall
    <3>2. Family(Mem(d)) = ff => ff \in calls[c].on \cap calls[d].on
      BY <2>1, <2>4, <3>1
    <3> QED BY <2>12, <3>2 DEF RacesOK, Undisturbed
  <2>13. ASSUME NEW d \in Workers, d # c, calls[d].op = "logoutall", User(d) = u
         PROVE  ff \in calls[d].on
    <3>1. Family(m) \in calls[d].on
      BY <2>4, <2>13 DEF SessionsOK, SessionCall
    <3> QED BY <2>4, <3>1
  <2> QED BY <1>3, <1>4, <2>2, <2>3, <2>4, <2>5, <2>9, <2>10, <2>11, <2>12, <2>13, NewTokenKeeps
<1> QED BY <1>5, <1>6

\* Sessions rotate whatever is called.
LEMMA SessionsKeep ==
  ASSUME CallsOK, UsersOK, RacesOK, SessionsOK, UsersStay, Calm, SessionNext
  PROVE  SessionsOK'
<1>1. CASE \E t \in TokenIds : Expire(t)
  BY <1>1, TokenEndsKeep
<1>2. ASSUME NEW c \in Workers, SessionStep(c)
      PROVE  SessionsOK'
  <2>1. CASE RevokeOld(c) \/ RevokeOne(c) \/ RevokeAll(c)
    BY <2>1, TokenEndsKeep
  <2>2. CASE \E t \in TokenIds : OpenSession(c, t) \/ IssueNext(c, t)
    BY <2>2, NewTokensKeep
  <2>3. CASE ReadToken(c) \/ AnswerLogout(c)
    BY <2>3, TokenCallsKeep
  <2>4. CASE \/ \E u \in UserIds : CreateAccount(c, u)
             \/ FindAccount(c) \/ ReadAccount(c) \/ VerifyTwoFA(c)
             \/ StoreSecret(c) \/ CheckSecret(c) \/ EnableTwoFA(c) \/ CheckEnabled(c)
             \/ ClearSecret(c)
    BY <2>4, SignInStepsKeep
  <2> QED BY <1>2, <2>1, <2>2, <2>3, <2>4 DEF SessionStep
<1>3. ASSUME NEW c \in Workers,
             \/ \E t \in TokenIds : \/ RefreshToken(c, t) \/ Logout(c, t)
                                   \/ LogoutWithoutCookie(c, t)
             \/ \E u \in UserIds : LogoutAll(c, u)
      PROVE  SessionsOK'
  BY <1>3, TokenCallsKeep
<1>4. ASSUME NEW c \in Workers,
             \/ \E email \in Emails : GoogleLogin(c, email)
             \/ \E u \in UserIds :
                   \/ InitiateTwoFA(c, u)
                   \/ \E password \in Passwords : Login(c, u, password)
                   \/ \E code \in Secrets : LoginTwoFA(c, u, code) \/ ConfirmTwoFA(c, u, code)
                                             \/ DisableTwoFA(c, u, code)
      PROVE  SessionsOK'
  BY <1>4, SignInStepsKeep
<1> QED BY <1>1, <1>2, <1>3, <1>4 DEF SessionNext

-----------------------------------------------------------------------------
\* One-time codes.

LEMMA CodeCallStays ==
  ASSUME CallsOK, CodesOK, Calm, codesMade' \in Nat, codesMade <= codesMade',
         NEW d \in Workers, calls'[d] = calls[d],
         At(d, "verify", "mark") /\ Undisturbed(Code(Mem(d)))' =>
            accepted'[calls[d].mem] = accepted[calls[d].mem]
  PROVE  CodeCall(d)'
<1>1. PICK r, m, k : r = calls[d] /\ m = calls[d].mem /\ k = Code(m)
  OBVIOUS
<1>2. calls'[d] = r /\ calls'[d].mem = m /\ r.mem = m
  BY <1>1
<1>3. codesMade \in Nat
  BY MaxCodesAssumption DEF CodesOK, CodesTypeOK
<1>4. /\ r.op = "send" /\ r.pc = "message" => m \in 1..codesMade
      /\ r.op = "verify" => r.user \in UserIds /\ m \in Nat /\ m <= codesMade /\ r.on = {k}
      /\ r.op = "verify" /\ r.pc = "mark" /\ Undisturbed(k) => accepted[m] = 0
  <2>1. CodeCall(d)
    BY DEF CodesOK
  <2>2. r.op = "verify" => m \in Nat
    BY <1>1, MaxCodesAssumption DEF CallsOK, Remembers, CodeIds
  <2> QED BY <1>1, <2>1, <2>2 DEF CodeCall, At, Mem, User
<1>5. r.op = "verify" /\ r.pc = "mark" /\ Undisturbed(k)' => accepted'[m] = accepted[m] /\ Undisturbed(k)
  BY <1>1, <1>2 DEF At, Mem, Calm, Code, Undisturbed
<1>6. /\ r.op = "send" /\ r.pc = "message" => m \in 1..codesMade'
      /\ r.op = "verify" => m <= codesMade'
  BY <1>3, <1>4
<1> QED BY <1>1, <1>2, <1>4, <1>5, <1>6 DEF CodeCall, At, Mem, User, Code, Undisturbed

\* No call works on a code, but some may be cut off that did.
LEMMA CodesStand ==
  ASSUME CallsOK, CodesOK, Calm, UNCHANGED codeVars, Spares(CodeOps)
  PROVE  CodesOK'
<1>1. codes' = codes /\ codesMade' = codesMade /\ received' = received /\ accepted' = accepted
  BY DEF codeVars
<1>2. codesMade \in Nat
  BY MaxCodesAssumption DEF CodesOK, CodesTypeOK
<1>3. CodesTypeOK' /\ FreshCodeIsGood'
  BY <1>1 DEF CodesOK, CodesTypeOK, FreshCodeIsGood
<1>4. \A k : Undisturbed(Code(k))' => Undisturbed(Code(k))
  BY DEF Calm, Undisturbed, Code
<1>5. ASSUME NEW d \in Workers PROVE CodeCall(d)'
  <2>1. CASE calls'[d] = calls[d]
    BY <1>1, <1>2, <2>1, CodeCallStays
  <2>2. CASE calls'[d].op \notin CodeOps
    BY <2>2 DEF CodeCall, At, CodeOps
  <2> QED BY <2>1, <2>2 DEF Spares, CodeOps
<1> QED BY <1>1, <1>3, <1>4, <1>5 DEF CodesOK

LEMMA CodesKeep ==
  ASSUME CallsOK, RacesOK, CodesOK, Calm, CodeNext
  PROVE  CodesOK'
<1>1. /\ codesMade \in Nat /\ codes \in [UserIds -> [id : CodeIds \cup {0}, used : BOOLEAN, expired : BOOLEAN]]
      /\ codesMade \in 0..MaxCodes /\ received \subseteq CodeIds /\ accepted \in [CodeIds -> Nat]
      /\ CodeIds \subseteq Nat \ {0}
  BY MaxCodesAssumption DEF CodesOK, CodesTypeOK, CodeIds
<1>2. \A k : Undisturbed(Code(k))' => Undisturbed(Code(k))
  BY DEF Calm, Undisturbed, Code
<1>3. ASSUME UNCHANGED codeVars, NEW c \in Workers, Others(c), CodeCall(c)'
      PROVE  CodesOK'
  <2>1. codes' = codes /\ codesMade' = codesMade /\ received' = received /\ accepted' = accepted
    BY <1>3 DEF codeVars
  <2>2. CodesTypeOK' /\ FreshCodeIsGood'
    BY <2>1 DEF CodesOK, CodesTypeOK, FreshCodeIsGood
  <2>3. ASSUME NEW d \in Workers, d # c PROVE CodeCall(d)'
    BY <1>1, <1>3, <2>1, <2>3, CodeCallStays DEF Others
  <2> QED BY <1>2, <1>3, <2>1, <2>2, <2>3 DEF CodesOK
<1>4. ASSUME NEW c \in Workers, NEW u \in UserIds, SendPhoneOTP(c, u)
      PROVE  CodesOK'
  <2>1. Turns(c, "send", "store", {}, u, "nothing") /\ UNCHANGED codeVars
    BY <1>4, BeginTurns DEF SendPhoneOTP, CallsOK
  <2>2. Others(c) /\ CodeCall(c)'
    BY <2>1 DEF Turns, Others, CodeCall, At
  <2> QED BY <1>3, <2>1, <2>2
<1>5. ASSUME NEW c \in Workers, NEW u \in UserIds, NEW k \in CodeIds, VerifyPhoneOTP(c, u, k)
      PROVE  CodesOK'
  <2>1. PICK on : on = {Code(k)}
    OBVIOUS
  <2>2. Begin(c, "verify", "read", on, u, k) /\ UNCHANGED codeVars /\ k \in received
    BY <1>5, <2>1 DEF VerifyPhoneOTP
  <2>3. Turns(c, "verify", "read", on, u, k)
    BY <2>2, BeginTurns DEF CallsOK
  <2>4. k <= codesMade /\ codesMade' = codesMade
    BY <2>2 DEF CodesOK, codeVars
  <2>5. Others(c) /\ CodeCall(c)'
    BY <2>1, <2>3, <2>4 DEF Turns, Others, CodeCall, At, Mem, User, Code
  <2> QED BY <1>3, <2>2, <2>5
<1>6. ASSUME NEW c \in Workers, StoreCode(c)
      PROVE  CodesOK'
  <2>1. PICK n, r : n = codesMade + 1 /\ r = [id |-> n, used |-> FALSE, expired |-> FALSE]
    OBVIOUS
  <2>2. PICK u, on : u = User(c) /\ on = calls[c].on
    OBVIOUS
  <2>3. /\ calls[c].op = "send" /\ calls[c].pc = "store" /\ codesMade' = n /\ codesMade < MaxCodes
        /\ codes' = [codes EXCEPT ![u] = r] /\ GotoWith(c, "message", n)
        /\ received' = received /\ accepted' = accepted
    BY <1>6, <2>1, <2>2 DEF StoreCode, At
  <2>4. n \in CodeIds /\ n \in 0..MaxCodes /\ n > codesMade /\ n \in Nat
    BY <1>1, <2>1, <2>3, MaxCodesAssumption DEF CodeIds
  <2>5. r \in [id : CodeIds \cup {0}, used : BOOLEAN, expired : BOOLEAN] /\ r.id = n /\ r.used = FALSE
    BY <2>1, <2>4
  <2>6. Turns(c, "send", "message", on, u, n)
    BY <2>2, <2>3, GotoWithTurns DEF CallsOK, User
  <2>7. CodesTypeOK'
    BY <1>1, <2>3, <2>4, <2>5 DEF CodesTypeOK
  <2>8. \A v \in UserIds : codes'[v] = codes[v] \/ codes'[v] = r
    BY <1>1, <2>3
  <2>9. accepted[n] = 0
    BY <2>4 DEF CodesOK
  <2>10. FreshCodeIsGood'
    BY <2>3, <2>5, <2>8 DEF CodesOK, FreshCodeIsGood
  <2>11. \A v \in UserIds : codes'[v].id <= codesMade' /\ (codes'[v].used => codes'[v].id \in CodeIds)
    <3> TAKE v \in UserIds
    <3>1. codes[v].id <= codesMade /\ codes[v].id \in Nat
      <4>1. codes[v].id \in CodeIds \cup {0}
        BY <1>1
      <4>2. codes[v].id \in Nat
        <5>1. CodeIds \subseteq Nat
          BY MaxCodesAssumption DEF CodeIds
        <5>2. 0 \in Nat
          OBVIOUS
        <5>3. PICK i : i = codes[v].id
          OBVIOUS
        <5> QED BY <4>1, <5>1, <5>2, <5>3, Zenon
      <4>3. codes[v].id <= codesMade
        BY DEF CodesOK
      <4> QED BY <4>2, <4>3
    <3>2. codes[v].id <= n
      BY <1>1, <2>4, <3>1
    <3> QED BY <2>3, <2>4, <2>5, <2>8, <3>2 DEF CodesOK
  <2>12. \A k \in received' : k <= codesMade'
    <3> TAKE k \in received'
    <3>1. k \in Nat /\ k <= codesMade
      BY <1>1, <2>3 DEF CodesOK
    <3> QED BY <1>1, <2>3, <2>4, <3>1
  <2>13. \A k \in CodeIds : k > codesMade' => accepted'[k] = 0
    <3> TAKE k \in CodeIds
    <3>1. k > n => k > codesMade
      BY <1>1, <2>4
    <3> QED BY <2>3, <3>1 DEF CodesOK
  <2>14. \A k \in CodeIds : Undisturbed(Code(k))' =>
            /\ accepted'[k] <= 1
            /\ accepted'[k] > 0 => \A v \in UserIds : codes'[v].id = k => codes'[v].used
    <3> SUFFICES ASSUME NEW k \in CodeIds, Undisturbed(Code(k))'
                 PROVE  /\ accepted'[k] <= 1
                        /\ accepted'[k] > 0 => \A v \in UserIds : codes'[v].id = k => codes'[v].used
      OBVIOUS
    <3>1. /\ accepted[k] <= 1
          /\ accepted[k] > 0 => \A v \in UserIds : codes[v].id = k => codes[v].used
      BY <1>2 DEF CodesOK
    <3> QED BY <2>3, <2>5, <2>8, <2>9, <3>1
  <2>15. ASSUME NEW d \in Workers PROVE CodeCall(d)'
    <3>1. CASE d = c
      <4>1. /\ calls'[c].op = "send" /\ calls'[c].mem = n
        BY <2>6 DEF Turns
      <4>2. n \in 1..codesMade'
        BY <2>3, <2>4, <1>1
      <4> QED BY <3>1, <4>1, <4>2 DEF CodeCall, At, Mem
    <3>2. CASE d # c
      <4>1. calls'[d] = calls[d]
        BY <2>6, <3>2 DEF Turns
      <4>2. codesMade' \in Nat /\ codesMade <= codesMade'
        BY <1>1, <2>3, <2>4
      <4> QED BY <2>3, <4>1, <4>2, CodeCallStays
    <3> QED BY <3>1, <3>2
  <2> QED BY <2>7, <2>10, <2>11, <2>12, <2>13, <2>14, <2>15 DEF CodesOK
<1>7. ASSUME NEW c \in Workers, SendSMS(c)
      PROVE  CodesOK'
  <2>1. PICK m : m = calls[c].mem
    OBVIOUS
  <2>2. /\ calls[c].op = "send" /\ calls[c].pc = "message" /\ Finish(c)
        /\ received' \in {received, received \cup {m}}
        /\ codes' = codes /\ codesMade' = codesMade /\ accepted' = accepted
    BY <1>7, <2>1 DEF SendSMS, At, Mem
  <2>3. m \in 1..codesMade
    BY <2>1, <2>2 DEF CodesOK, CodeCall, At, Mem
  <2>4. m \in CodeIds /\ m <= codesMade
    BY <1>1, <2>3, MaxCodesAssumption DEF CodeIds
  <2>5. Turns(c, "idle", "idle", {}, Nobody, "nothing")
    BY <2>2, FinishTurns DEF CallsOK
  <2>6. CodesTypeOK' /\ FreshCodeIsGood'
    BY <1>1, <2>2, <2>4 DEF CodesOK, CodesTypeOK, FreshCodeIsGood
  <2>7. \A k \in received' : k <= codesMade'
    BY <2>2, <2>4 DEF CodesOK
  <2>8. ASSUME NEW d \in Workers PROVE CodeCall(d)'
    <3>1. CASE d = c
      BY <2>5, <3>1 DEF Turns, CodeCall, At
    <3>2. CASE d # c
      <4>1. calls'[d] = calls[d]
        BY <2>5, <3>2 DEF Turns
      <4> QED BY <1>1, <2>2, <4>1, CodeCallStays
    <3> QED BY <3>1, <3>2
  <2> QED BY <1>2, <2>2, <2>6, <2>7, <2>8 DEF CodesOK
<1>8. ASSUME NEW c \in Workers, ReadCode(c)
      PROVE  CodesOK'
  <2>1. PICK u, m, on : u = calls[c].user /\ m = calls[c].mem /\ on = calls[c].on
    OBVIOUS
  <2>2. /\ calls[c].op = "verify" /\ calls[c].pc = "read" /\ UNCHANGED codeVars
        /\ Finish(c) \/ (Goto(c, "mark") /\ codes[u].id = m /\ ~codes[u].used)
    BY <1>8, <2>1 DEF ReadCode, At, Mem, User
  <2>3. CASE Finish(c)
    <3>1. Turns(c, "idle", "idle", {}, Nobody, "nothing")
      BY <2>3, FinishTurns DEF CallsOK
    <3>2. Others(c) /\ CodeCall(c)'
      BY <3>1 DEF Turns, Others, CodeCall, At
    <3> QED BY <1>3, <2>2, <3>2
  <2>4. CASE Goto(c, "mark") /\ codes[u].id = m /\ ~codes[u].used
    <3>1. Turns(c, "verify", "mark", on, u, m)
      BY <2>1, <2>2, <2>4, GotoTurns DEF CallsOK
    <3>2. /\ calls'[c].op = "verify" /\ calls'[c].pc = "mark" /\ calls'[c].on = on
          /\ calls'[c].user = u /\ calls'[c].mem = m /\ Others(c)
      BY <3>1 DEF Turns, Others
    <3>3. m \in CodeIds /\ u \in UserIds /\ m <= codesMade /\ on = {Code(m)}
      BY <2>1, <2>2 DEF CallsOK, Remembers, CodesOK, CodeCall, Mem, User
    <3>4. Undisturbed(Code(m))' => accepted[m] = 0
      <4>1. Undisturbed(Code(m)) => ~(accepted[m] > 0)
        BY <2>4, <3>3 DEF CodesOK
      <4>2. accepted[m] \in Nat
        BY <1>1, <3>3
      <4> QED BY <1>2, <4>1, <4>2
    <3>5. codesMade' = codesMade /\ accepted' = accepted
      BY <2>2 DEF codeVars
    <3>6. CodeCall(c)'
      BY <3>2, <3>3, <3>4, <3>5 DEF CodeCall, At, Mem, User, Code, Undisturbed
    <3> QED BY <1>3, <2>2, <3>2, <3>6
  <2> QED BY <2>2, <2>3, <2>4
<1>9. ASSUME NEW c \in Workers, MarkUsed(c) \/ MarkFails(c)
      PROVE  CodesOK'
  <2>1. PICK m : m = calls[c].mem
    OBVIOUS
  <2>2. /\ calls[c].op = "verify" /\ calls[c].pc = "mark"
        /\ accepted' = [accepted EXCEPT ![m] = @ + 1]
        /\ codesMade' = codesMade /\ received' = received
        /\ calls' = [calls EXCEPT ![c] = Idle]
        /\ \/ codes' = [u \in UserIds |-> IF codes[u].id = m
                                   THEN [codes[u] EXCEPT !.used = TRUE] ELSE codes[u]]
           \/ codes' = codes /\ calls[c].on \subseteq hurt'
    BY <1>9, <2>1 DEF MarkUsed, MarkFails, At, Mem, Finish
  <2>3. Turns(c, "idle", "idle", {}, Nobody, "nothing")
    BY <2>2, Replaces DEF Idle, CallsOK
  <2>4. /\ m \in CodeIds /\ m <= codesMade /\ calls[c].on = {Code(m)}
        /\ Undisturbed(Code(m)) => accepted[m] = 0
    BY <2>1, <2>2 DEF CallsOK, Remembers, CodesOK, CodeCall, At, Mem
  <2>5. /\ accepted' \in [CodeIds -> Nat] /\ accepted'[m] = accepted[m] + 1
        /\ \A k \in CodeIds : k # m => accepted'[k] = accepted[k]
        /\ \A k \in CodeIds : accepted[k] \in Nat
    BY <1>1, <2>2, <2>4
  <2>6. /\ codes' \in [UserIds -> [id : CodeIds \cup {0}, used : BOOLEAN, expired : BOOLEAN]]
        /\ \A u \in UserIds : /\ codes'[u].id = codes[u].id
                              /\ codes[u].used => codes'[u].used
                              /\ codes[u].id # m => codes'[u] = codes[u]
    <3>1. CASE codes' = codes
      BY <1>1, <3>1
    <3>2. CASE codes' = [u \in UserIds |-> IF codes[u].id = m
                                   THEN [codes[u] EXCEPT !.used = TRUE] ELSE codes[u]]
      <4>1. ASSUME NEW u \in UserIds
            PROVE  /\ codes'[u] \in [id : CodeIds \cup {0}, used : BOOLEAN, expired : BOOLEAN]
                   /\ codes'[u].id = codes[u].id
                   /\ codes[u].used => codes'[u].used
                   /\ codes[u].id # m => codes'[u] = codes[u]
        BY <1>1, <3>2
      <4> QED BY <3>2, <4>1
    <3> QED BY <2>2, <3>1, <3>2
  <2>7. CodesTypeOK'
    BY <1>1, <2>2, <2>5, <2>6 DEF CodesTypeOK
  <2>8. FreshCodeIsGood'
    <3> SUFFICES ASSUME NEW u \in UserIds, codes'[u].used
                 PROVE  accepted'[codes'[u].id] > 0
      BY DEF FreshCodeIsGood
    <3>1. CASE codes[u].id = m
      BY <2>4, <2>5, <2>6, <3>1
    <3>2. CASE codes[u].id # m
      <4>1. codes[u].used /\ codes[u].id \in CodeIds /\ accepted[codes[u].id] > 0
        BY <2>6, <3>2 DEF CodesOK, FreshCodeIsGood
      <4> QED BY <2>5, <2>6, <3>2, <4>1
    <3> QED BY <3>1, <3>2
  <2>9. \A u \in UserIds : codes'[u].id <= codesMade' /\ (codes'[u].used => codes'[u].id \in CodeIds)
    BY <2>2, <2>4, <2>6 DEF CodesOK
  <2>10. \A k \in CodeIds : k > codesMade' => accepted'[k] = 0
    <3> TAKE k \in CodeIds
    <3>1. k > codesMade => k # m
      BY <1>1, <2>4
    <3> QED BY <2>2, <2>5, <3>1 DEF CodesOK
  <2>11. Undisturbed(Code(m))' =>
            \A u \in UserIds : codes'[u].id = m => codes'[u].used
    <3>1. calls[c].on \subseteq hurt' => ~Undisturbed(Code(m))'
      BY <2>4 DEF Undisturbed, Code
    <3>2. CASE codes' = [u \in UserIds |-> IF codes[u].id = m
                                   THEN [codes[u] EXCEPT !.used = TRUE] ELSE codes[u]]
      BY <1>1, <3>2
    <3> QED BY <2>2, <3>1, <3>2
  <2>12. \A k \in CodeIds : Undisturbed(Code(k))' =>
            /\ accepted'[k] <= 1
            /\ accepted'[k] > 0 => \A v \in UserIds : codes'[v].id = k => codes'[v].used
    <3> SUFFICES ASSUME NEW k \in CodeIds, Undisturbed(Code(k))'
                 PROVE  /\ accepted'[k] <= 1
                        /\ accepted'[k] > 0 => \A v \in UserIds : codes'[v].id = k => codes'[v].used
      OBVIOUS
    <3>1. CASE k = m
      BY <1>2, <2>4, <2>5, <2>11, <3>1
    <3>2. CASE k # m
      <4>1. /\ accepted[k] <= 1
            /\ accepted[k] > 0 => \A v \in UserIds : codes[v].id = k => codes[v].used
        BY <1>2 DEF CodesOK
      <4> QED BY <2>5, <2>6, <3>2, <4>1
    <3> QED BY <3>1, <3>2
  <2>13. ASSUME NEW d \in Workers PROVE CodeCall(d)'
    <3>1. CASE d = c
      BY <2>3, <3>1 DEF Turns, CodeCall, At
    <3>2. CASE d # c
      <4>1. calls'[d] = calls[d]
        BY <2>3, <3>2 DEF Turns
      <4>2. ASSUME At(d, "verify", "mark"), Undisturbed(Code(Mem(d)))'
            PROVE  accepted'[calls[d].mem] = accepted[calls[d].mem]
        <5>1. PICK k : k = calls[d].mem
          OBVIOUS
        <5>2. k \in CodeIds /\ calls[d].on = {Code(k)}
          BY <4>2, <5>1 DEF At, Mem, CallsOK, Remembers, CodesOK, CodeCall
        <5>3. Undisturbed(Code(k))'
          BY <4>1, <4>2, <5>1 DEF Mem, Undisturbed, Code
        <5>4. k # m
          <6>1. Undisturbed(Code(k))
            BY <1>2, <5>3
          <6>2. k = m => Code(k) \in calls[c].on \cap calls[d].on
            BY <2>4, <5>2
          <6> QED BY <3>2, <6>1, <6>2 DEF RacesOK, Undisturbed
        <5> QED BY <2>5, <5>1, <5>2, <5>4
      <4> QED BY <1>1, <2>2, <4>1, <4>2, CodeCallStays
    <3> QED BY <3>1, <3>2
  <2> QED BY <2>2, <2>7, <2>8, <2>9, <2>10, <2>12, <2>13 DEF CodesOK
<1>10. ASSUME NEW u \in UserIds, ExpireCode(u)
       PROVE  CodesOK'
  <2>1. /\ codes' = [codes EXCEPT ![u] = [codes[u] EXCEPT !.expired = TRUE]]
        /\ calls' = calls /\ codesMade' = codesMade /\ received' = received /\ accepted' = accepted
    BY <1>10 DEF ExpireCode, control
  <2>2. /\ codes' \in [UserIds -> [id : CodeIds \cup {0}, used : BOOLEAN, expired : BOOLEAN]]
        /\ \A v \in UserIds : codes'[v].id = codes[v].id /\ codes'[v].used = codes[v].used
    <3>1. PICK r : r = [codes[u] EXCEPT !.expired = TRUE]
      OBVIOUS
    <3>2. /\ r \in [id : CodeIds \cup {0}, used : BOOLEAN, expired : BOOLEAN]
          /\ r.id = codes[u].id /\ r.used = codes[u].used
      BY <1>1, <3>1
    <3>3. codes' = [codes EXCEPT ![u] = r]
      BY <2>1, <3>1
    <3> QED BY <1>1, <3>2, <3>3
  <2>3. CodesTypeOK' /\ FreshCodeIsGood'
    BY <1>1, <2>1, <2>2 DEF CodesOK, CodesTypeOK, FreshCodeIsGood
  <2>4. ASSUME NEW d \in Workers PROVE CodeCall(d)'
    BY <1>1, <2>1, CodeCallStays
  <2> QED BY <1>2, <2>1, <2>2, <2>3, <2>4 DEF CodesOK
<1> QED BY <1>4, <1>5, <1>6, <1>7, <1>8, <1>9, <1>10 DEF CodeNext

-----------------------------------------------------------------------------
\* Reviews.

LEMMA KycCallStays ==
  ASSUME CallsOK, KycOK, NEW d \in Workers, calls'[d] = calls[d],
         raced \subseteq raced', hurt \subseteq hurt', everApproved \subseteq everApproved',
         \A s \in SubmissionIds : submissions[s] # NoSubmission =>
            submissions'[s].user = submissions[s].user,
         \A s \in SubmissionIds : At(d, "submit", "create") /\ Submitting(User(d)) \notin raced' \cup hurt' =>
            submissions'[s] = submissions[s]
            \/ (submissions'[s].status # "pending")
            \/ submissions'[s].user # User(d)
  PROVE  KycCall(d)'
<1>1. PICK r, m, u : r = calls[d] /\ m = calls[d].mem /\ u = calls[d].user
  OBVIOUS
<1>2. calls'[d] = r /\ r.mem = m /\ r.user = u
  BY <1>1
<1>3. KycCall(d)
  BY DEF KycOK
<1>4. /\ r.op = "submit" => r.on = {Submitting(u)}
      /\ r.op \in {"approve", "reject"} => /\ submissions[m].user = u /\ r.on = {Review(m)}
                                           /\ m \in SubmissionIds
      /\ r.op = "approve" /\ r.pc = "level" => m \in everApproved
  BY <1>1, <1>3 DEF KycCall, At, User, Mem, CallsOK, Remembers
<1>5. ASSUME r.op = "submit", r.pc = "create", Submitting(u) \notin raced' \cup hurt',
             NEW s \in SubmissionIds, submissions'[s].user = u
      PROVE  submissions'[s].status # "pending"
  <2>1. At(d, "submit", "create") /\ User(d) = u /\ Submitting(u) \notin raced \cup hurt
    BY <1>1, <1>5 DEF At, User
  <2>2. submissions[s].user = u => submissions[s].status # "pending"
    BY <1>3, <2>1 DEF KycCall, Submissions
  <2> QED BY <1>5, <2>1, <2>2
<1>6. ASSUME r.op \in {"approve", "reject"} PROVE submissions'[m].user = u
  <2>1. User(d) \in UserIds /\ User(d) = u
    <3>1. Named(calls[d].op, calls[d].pc)
      BY <1>1, <1>6 DEF Named
    <3> QED BY <1>1, <3>1 DEF CallsOK, CallerOK, User
  <2>2. u # Nobody
    BY <2>1, UserIdsAssumption DEF Nobody
  <2>3. submissions[m] # NoSubmission
    BY <1>4, <1>6, <2>2 DEF NoSubmission
  <2> QED BY <1>4, <1>6, <2>3
<1> QED BY <1>1, <1>2, <1>4, <1>5, <1>6 DEF KycCall, At, User, Mem, Submissions, Submitting, Review

LEMMA KycStands ==
  ASSUME CallsOK, UsersStay, KycOK, LevelKept, UNCHANGED kycVars, Spares(KycOps),
         raced \subseteq raced', hurt \subseteq hurt'
  PROVE  KycOK'
<1>1. submissions' = submissions /\ everApproved' = everApproved
  BY DEF kycVars
<1>2. KycTypeOK'
  BY <1>1 DEF KycOK, KycTypeOK
<1>3. LevelIsEarned'
  <2> SUFFICES ASSUME NEW u \in UserIds
               PROVE  /\ users'[u].kyc > 0 => everApproved \cap Submissions(u) # {}
                      /\ \A s \in everApproved \cap Submissions(u) :
                            \/ users'[u].kyc > 0
                            \/ Review(s) \in hurt'
                            \/ \E c \in Workers : calls'[c].op = "approve" /\ calls'[c].pc = "level"
                                                  /\ calls'[c].mem = s
    BY <1>1 DEF LevelIsEarned, Submissions, Review, At, Mem
  <2>1. users'[u].kyc = users[u].kyc
    BY DEF LevelKept
  <2>2. LevelIsEarned
    BY DEF KycOK
  <2>3. ASSUME NEW s \in everApproved \cap Submissions(u)
        PROVE  \/ users'[u].kyc > 0
               \/ Review(s) \in hurt'
               \/ \E c \in Workers : calls'[c].op = "approve" /\ calls'[c].pc = "level"
                                     /\ calls'[c].mem = s
    <3>1. CASE users[u].kyc > 0 \/ Review(s) \in hurt
      BY <2>1, <3>1
    <3>2. ASSUME NEW c \in Workers, At(c, "approve", "level"), Mem(c) = s
          PROVE  \/ Review(s) \in hurt'
                 \/ calls'[c].op = "approve" /\ calls'[c].pc = "level" /\ calls'[c].mem = s
      <4>1. CASE calls'[c] = calls[c]
        BY <3>2, <4>1 DEF At, Mem
      <4>2. CASE calls[c].on \subseteq hurt'
        <5>1. calls[c].on = {Review(s)}
          BY <3>2 DEF KycOK, KycCall, At
        <5> QED BY <4>2, <5>1
      <4> QED BY <3>2, <4>1, <4>2 DEF Spares, KycOps, At
    <3> QED BY <2>2, <3>1, <3>2 DEF LevelIsEarned
  <2> QED BY <2>1, <2>2, <2>3 DEF LevelIsEarned
<1>4. \A s \in SubmissionIds : submissions[s] # NoSubmission =>
          submissions[s].user \in UserIds /\ users'[submissions[s].user] # NoUser
  <2> TAKE s \in SubmissionIds
  <2>1. PICK u : u = submissions[s].user
    OBVIOUS
  <2>2. u \in UserIds /\ Exists(u) => Exists(u)'
    BY DEF UsersStay
  <2>3. submissions[s] # NoSubmission => u \in UserIds /\ Exists(u)
    BY <2>1 DEF KycOK
  <2>4. u \in UserIds /\ Exists(u) => users'[u] # NoUser
    BY <2>2 DEF Exists
  <2> QED BY <2>1, <2>3, <2>4
<1>5. ASSUME NEW d \in Workers PROVE KycCall(d)'
  <2>1. CASE calls'[d] = calls[d]
    BY <1>1, <2>1, KycCallStays
  <2>2. CASE calls'[d].op \notin KycOps
    BY <2>2 DEF KycCall, At, KycOps
  <2> QED BY <2>1, <2>2 DEF Spares, KycOps
<1>6. \A u \in UserIds : Submitting(u) \notin raced' \cup hurt' =>
          \A s, r \in Submissions(u) : submissions[s].status = "pending" => r <= s
  BY DEF KycOK
<1> QED BY <1>1, <1>2, <1>3, <1>4, <1>5, <1>6 DEF KycOK, Submissions, Submitting, Exists

\* A review is begun or written down, or a submission is about to be.
LEMMA ReviewKeeps ==
  ASSUME CallsOK, KycOK, raced \subseteq raced', hurt \subseteq hurt',
         users' = users, KycTypeOK', NEW c \in Workers, Others(c), ~At(c, "approve", "level"),
         \A s \in SubmissionIds : /\ submissions'[s].user = submissions[s].user
                                  /\ submissions[s] = NoSubmission <=> submissions'[s] = NoSubmission
                                  /\ submissions'[s].status = "pending" =>
                                        submissions[s].status = "pending",
         NEW new, everApproved' = everApproved \cup new,
         \A s \in new : /\ s \in SubmissionIds /\ submissions[s] # NoSubmission
                        /\ calls'[c].op = "approve" /\ calls'[c].pc = "level" /\ calls'[c].mem = s,
         KycCall(c)'
  PROVE  KycOK'
<1>1. LevelIsEarned'
  <2> SUFFICES ASSUME NEW u \in UserIds
               PROVE  /\ users[u].kyc > 0 => \E s \in everApproved' : s \in SubmissionIds
                                                                      /\ submissions[s].user = u
                      /\ \A s \in everApproved' : s \in SubmissionIds /\ submissions[s].user = u =>
                            \/ users[u].kyc > 0
                            \/ Review(s) \in hurt'
                            \/ \E d \in Workers : calls'[d].op = "approve" /\ calls'[d].pc = "level"
                                                  /\ calls'[d].mem = s
    BY DEF LevelIsEarned, Submissions, Review, At, Mem
  <2>1. LevelIsEarned
    BY DEF KycOK
  <2>2. ASSUME NEW s \in everApproved, s \in SubmissionIds, submissions[s].user = u
        PROVE  \/ users[u].kyc > 0
               \/ Review(s) \in hurt'
               \/ \E d \in Workers : calls'[d].op = "approve" /\ calls'[d].pc = "level"
                                     /\ calls'[d].mem = s
    <3>1. CASE users[u].kyc > 0 \/ Review(s) \in hurt
      BY <3>1
    <3>2. ASSUME NEW d \in Workers, At(d, "approve", "level"), Mem(d) = s
          PROVE  calls'[d].op = "approve" /\ calls'[d].pc = "level" /\ calls'[d].mem = s
      <4>1. calls'[d] = calls[d]
        BY <3>2 DEF Others
      <4> QED BY <3>2, <4>1 DEF At, Mem
    <3> QED BY <2>1, <2>2, <3>1, <3>2 DEF LevelIsEarned, Submissions
  <2>3. users[u].kyc > 0 => \E s \in everApproved' : s \in SubmissionIds /\ submissions[s].user = u
    BY <2>1 DEF LevelIsEarned, Submissions
  <2> QED BY <2>2, <2>3
<1>2. ASSUME NEW d \in Workers, d # c PROVE KycCall(d)'
  <2>1. calls'[d] = calls[d]
    BY <1>2 DEF Others
  <2>2. \A s \in SubmissionIds : At(d, "submit", "create") /\ Submitting(User(d)) \notin raced' \cup hurt' =>
            submissions'[s] = submissions[s]
            \/ (submissions'[s].status # "pending")
            \/ submissions'[s].user # User(d)
    <3> SUFFICES ASSUME NEW s \in SubmissionIds, At(d, "submit", "create"),
                        Submitting(User(d)) \notin raced' \cup hurt', submissions'[s].user = User(d)
                 PROVE  submissions'[s].status # "pending"
      OBVIOUS
    <3>1. Submitting(User(d)) \notin raced \cup hurt /\ s \in Submissions(User(d))
      BY DEF Submissions
    <3>2. submissions[s].status # "pending"
      BY <3>1 DEF KycOK, KycCall
    <3> QED BY <3>2
  <2> QED BY <2>1, <2>2, KycCallStays
<1>3. \A s \in SubmissionIds : submissions'[s] # NoSubmission =>
          submissions'[s].user \in UserIds /\ users'[submissions'[s].user] # NoUser
  BY DEF KycOK, Exists
<1>4. \A r, s \in SubmissionIds : r < s /\ submissions'[s] # NoSubmission =>
          submissions'[r] # NoSubmission
  BY DEF KycOK
<1>5. \A s \in everApproved' : submissions'[s] # NoSubmission
  BY DEF KycOK, KycTypeOK
<1>6. \A u \in UserIds : Submitting(u) \notin raced' \cup hurt' =>
          \A s, r \in SubmissionIds : submissions'[s].user = u /\ submissions'[r].user = u =>
             (submissions'[s].status = "pending" => r <= s)
  <2> SUFFICES ASSUME NEW u \in UserIds, Submitting(u) \notin raced' \cup hurt', NEW s \in SubmissionIds,
                      NEW r \in SubmissionIds, submissions'[s].user = u, submissions'[r].user = u,
                      submissions'[s].status = "pending"
               PROVE  r <= s
    OBVIOUS
  <2>1. s \in Submissions(u) /\ r \in Submissions(u) /\ submissions[s].status = "pending"
    BY DEF Submissions
  <2> QED BY <2>1 DEF KycOK
<1> QED BY <1>1, <1>2, <1>3, <1>4, <1>5, <1>6 DEF KycOK, Submissions, Submitting, Exists

LEMMA StatusWritten ==
  ASSUME KycOK, NEW m \in SubmissionIds, submissions[m] # NoSubmission,
         NEW st \in {"approved", "rejected"},
         submissions' = [submissions EXCEPT ![m].status = st]
  PROVE  /\ submissions' \in [SubmissionIds -> [user : UserIds \cup {Nobody},
                                 status : {"none", "pending", "approved", "rejected"}]]
         /\ \A s \in SubmissionIds : /\ submissions'[s].user = submissions[s].user
                                     /\ submissions[s] = NoSubmission <=> submissions'[s] = NoSubmission
                                     /\ submissions'[s].status = "pending" =>
                                           submissions[s].status = "pending"
<1> DEFINE Row0 == [user : UserIds \cup {Nobody},
                    status : {"none", "pending", "approved", "rejected"}]
<1>1. submissions \in [SubmissionIds -> Row0]
  BY DEF KycOK, KycTypeOK
<1>2. PICK r : r = [submissions[m] EXCEPT !.status = st]
  OBVIOUS
<1>3. r \in Row0 /\ r.user = submissions[m].user /\ r.status = st
  BY <1>1, <1>2
<1>4. submissions' = [submissions EXCEPT ![m] = r]
  BY <1>2
<1>5. /\ submissions' \in [SubmissionIds -> Row0]
      /\ submissions'[m] = r /\ \A s \in SubmissionIds : s # m => submissions'[s] = submissions[s]
  BY <1>1, <1>3, <1>4
<1>6. r # NoSubmission
  BY <1>3 DEF NoSubmission
<1> QED BY <1>3, <1>5, <1>6

\* Of the user's submissions a new one is the last, and the only one pending.
LEMMA SubmissionKeeps ==
  ASSUME CallsOK, UsersOK, RacesOK, KycOK, raced \subseteq raced', hurt \subseteq hurt',
         NEW c \in Workers, NEW s \in SubmissionIds, CreateSubmission(c, s)
  PROVE  KycOK'
<1>1. PICK u : u = User(c)
  OBVIOUS
<1>2. PICK r : r = [user |-> u, status |-> "pending"]
  OBVIOUS
<1>3. /\ calls[c].op = "submit" /\ calls[c].pc = "create" /\ At(c, "submit", "create")
      /\ submissions[s] = NoSubmission /\ submissions' = [submissions EXCEPT ![s] = r]
      /\ Finish(c) /\ users' = users /\ everApproved' = everApproved
  BY <1>1, <1>2 DEF CreateSubmission, At
<1>4. u \in UserIds /\ Exists(u)
  <2>1. Named(calls[c].op, calls[c].pc)
    BY <1>3 DEF Named
  <2> QED BY <1>1, <2>1, KnownUser
<1>5. /\ calls[c].on = {Submitting(u)}
      /\ Submitting(u) \notin raced \cup hurt => \A q \in Submissions(u) : submissions[q].status # "pending"
  <2>1. KycCall(c)
    BY DEF KycOK
  <2> QED BY <1>1, <1>3, <2>1 DEF KycCall
<1>6. r.user = u /\ r.status = "pending" /\ r # NoSubmission
      /\ r \in [user : UserIds \cup {Nobody}, status : {"none", "pending", "approved", "rejected"}]
  BY <1>2, <1>4 DEF NoSubmission
<1>7. /\ submissions' \in [SubmissionIds -> [user : UserIds \cup {Nobody},
                              status : {"none", "pending", "approved", "rejected"}]]
      /\ submissions'[s] = r /\ \A q \in SubmissionIds : q # s => submissions'[q] = submissions[q]
  BY <1>3, <1>6 DEF KycOK, KycTypeOK
<1>8. KycTypeOK'
  BY <1>3, <1>7 DEF KycOK, KycTypeOK
<1>9. Turns(c, "idle", "idle", {}, Nobody, "nothing")
  BY <1>3, FinishTurns DEF CallsOK
<1>10. \A d \in Workers : d # c => calls'[d] = calls[d]
  BY <1>9 DEF Turns
<1>11. \A v \in UserIds : v # Nobody
  BY UserIdsAssumption DEF Nobody
<1>12. s \notin everApproved /\ submissions[s].user = Nobody
  BY <1>3 DEF KycOK, NoSubmission
<1>13. LevelIsEarned'
  <2> SUFFICES ASSUME NEW v \in UserIds
               PROVE  /\ users[v].kyc > 0 => \E q \in everApproved : q \in SubmissionIds
                                                                     /\ submissions'[q].user = v
                      /\ \A q \in everApproved : q \in SubmissionIds /\ submissions'[q].user = v =>
                            \/ users[v].kyc > 0
                            \/ Review(q) \in hurt'
                            \/ \E d \in Workers : calls'[d].op = "approve" /\ calls'[d].pc = "level"
                                                  /\ calls'[d].mem = q
    BY <1>3 DEF LevelIsEarned, Submissions, Review, At, Mem
  <2>1. \A q \in everApproved : q \in SubmissionIds => submissions'[q] = submissions[q]
    BY <1>7, <1>12
  <2>2. LevelIsEarned
    BY DEF KycOK
  <2>3. ASSUME NEW q \in everApproved, q \in SubmissionIds, submissions'[q].user = v
        PROVE  \/ users[v].kyc > 0
               \/ Review(q) \in hurt'
               \/ \E d \in Workers : calls'[d].op = "approve" /\ calls'[d].pc = "level"
                                     /\ calls'[d].mem = q
    <3>1. CASE users[v].kyc > 0 \/ Review(q) \in hurt
      BY <3>1
    <3>2. ASSUME NEW d \in Workers, At(d, "approve", "level"), Mem(d) = q
          PROVE  calls'[d].op = "approve" /\ calls'[d].pc = "level" /\ calls'[d].mem = q
      <4>1. calls'[d] = calls[d]
        BY <1>3, <1>10, <3>2 DEF At
      <4> QED BY <3>2, <4>1 DEF At, Mem
    <3>3. submissions[q].user = v
      BY <2>1, <2>3
    <3> QED BY <2>2, <2>3, <3>1, <3>2, <3>3 DEF LevelIsEarned, Submissions
  <2>4. users[v].kyc > 0 => \E q \in everApproved : q \in SubmissionIds /\ submissions'[q].user = v
    BY <2>1, <2>2 DEF LevelIsEarned, Submissions
  <2> QED BY <2>3, <2>4
<1>14. \A q \in SubmissionIds : submissions'[q] # NoSubmission =>
          submissions'[q].user \in UserIds /\ users'[submissions'[q].user] # NoUser
  BY <1>3, <1>4, <1>6, <1>7 DEF KycOK, Exists
<1>15. ASSUME NEW q \in SubmissionIds, submissions[q] # NoSubmission PROVE q <= s
  <2>1. ~(s < q)
    BY <1>3, <1>15 DEF KycOK
  <2> QED BY <2>1, SubmissionIdsAssumption
<1>16. \A q, p \in SubmissionIds : q < p /\ submissions'[p] # NoSubmission =>
          submissions'[q] # NoSubmission
  <2>1. \A q \in SubmissionIds : q < s => submissions[q] # NoSubmission
    BY DEF CreateSubmission
  <2> QED BY <1>6, <1>7, <2>1 DEF KycOK
<1>17. \A q \in everApproved' : submissions'[q] # NoSubmission
  BY <1>3, <1>7, <1>12 DEF KycOK, KycTypeOK
<1>18. ASSUME NEW v \in UserIds, Submitting(v) \notin raced' \cup hurt', NEW p \in SubmissionIds,
              NEW q \in SubmissionIds, submissions'[p].user = v, submissions'[q].user = v,
              submissions'[p].status = "pending"
       PROVE  q <= p
  <2>1. Submitting(v) \notin raced \cup hurt
    BY <1>18
  <2>2. s \in Nat
    BY SubmissionIdsAssumption
  <2>3. CASE p = s
    <3>1. CASE q = s
      BY <2>2, <2>3, <3>1
    <3>2. CASE q # s
      <4>1. submissions[q].user = v
        BY <1>7, <1>18, <3>2
      <4>2. submissions[q] # NoSubmission
        BY <1>11, <4>1 DEF NoSubmission
      <4> QED BY <1>15, <2>3, <4>2
    <3> QED BY <3>1, <3>2
  <2>4. CASE p # s
    <3>1. p \in Submissions(v) /\ submissions[p].status = "pending"
      BY <1>7, <1>18, <2>4 DEF Submissions
    <3>2. CASE q = s
      <4>1. v = u
        BY <1>6, <1>7, <1>18, <3>2
      <4> QED BY <1>5, <2>1, <3>1, <4>1
    <3>3. CASE q # s
      <4>1. q \in Submissions(v)
        BY <1>7, <1>18, <3>3 DEF Submissions
      <4> QED BY <2>1, <3>1, <4>1 DEF KycOK
    <3> QED BY <3>2, <3>3
  <2> QED BY <2>3, <2>4
<1>19. ASSUME NEW d \in Workers PROVE KycCall(d)'
  <2>1. CASE d = c
    BY <1>9, <2>1 DEF Turns, KycCall, At
  <2>2. CASE d # c
    <3>1. calls'[d] = calls[d]
      BY <1>10, <2>2
    <3>2. ASSUME NEW q \in SubmissionIds, At(d, "submit", "create"), Submitting(User(d)) \notin raced' \cup hurt'
          PROVE  submissions'[q] = submissions[q]
                 \/ (submissions'[q].status # "pending")
                 \/ submissions'[q].user # User(d)
      <4>1. calls[d].on = {Submitting(User(d))}
        BY <3>2 DEF KycOK, KycCall, At
      <4>2. CASE User(d) = u
        <5>1. Submitting(u) \in calls[c].on \cap calls[d].on
          BY <1>5, <4>1, <4>2
        <5>2. Submitting(u) \in raced
          BY <2>2, <5>1, <1>3 DEF RacesOK
        <5> QED BY <3>2, <4>2, <5>2
      <4>3. CASE User(d) # u
        BY <1>6, <1>7, <4>3
      <4> QED BY <4>2, <4>3
    <3>3. \A q \in SubmissionIds : submissions[q] # NoSubmission =>
             submissions'[q].user = submissions[q].user
      BY <1>3, <1>7
    <3> QED BY <1>3, <3>1, <3>2, <3>3, KycCallStays
  <2> QED BY <2>1, <2>2
<1> QED BY <1>8, <1>13, <1>14, <1>16, <1>17, <1>18, <1>19 DEF KycOK, Submissions, Submitting, Exists

LEMMA LevelKeeps ==
  ASSUME CallsOK, UsersOK, UsersStay, KycOK, raced \subseteq raced', hurt \subseteq hurt',
         NEW c \in Workers, UpdateKycLevel(c)
  PROVE  KycOK'
<1>1. PICK u, m : u = User(c) /\ m = calls[c].mem
  OBVIOUS
<1>2. /\ At(c, "approve", "level") /\ Finish(c) /\ users' = [users EXCEPT ![u].kyc = 1]
      /\ submissions' = submissions /\ everApproved' = everApproved
  BY <1>1 DEF UpdateKycLevel, kycVars
<1>3. /\ u \in UserIds
      /\ m \in SubmissionIds /\ submissions[m].user = u /\ m \in everApproved
  <2>1. Named(calls[c].op, calls[c].pc)
    BY <1>2 DEF Named, At
  <2>2. KycCall(c)
    BY DEF KycOK
  <2>3. m \in SubmissionIds
    BY <1>1, <1>2 DEF CallsOK, Remembers, At
  <2> QED BY <1>1, <1>2, <2>1, <2>2, <2>3, KnownUser DEF KycCall, At, Mem
<1>4. /\ users'[u].kyc = 1 /\ \A v \in UserIds : v # u => users'[v] = users[v]
  BY <1>2, <1>3 DEF UsersOK, UserRows
<1>5. Turns(c, "idle", "idle", {}, Nobody, "nothing")
  BY <1>2, FinishTurns DEF CallsOK
<1>6. \A d \in Workers : d # c => calls'[d] = calls[d]
  BY <1>5 DEF Turns
<1>7. LevelIsEarned'
  <2> SUFFICES ASSUME NEW v \in UserIds
               PROVE  /\ users'[v].kyc > 0 => \E q \in everApproved : q \in SubmissionIds
                                                                     /\ submissions[q].user = v
                      /\ \A q \in everApproved : q \in SubmissionIds /\ submissions[q].user = v =>
                            \/ users'[v].kyc > 0
                            \/ Review(q) \in hurt'
                            \/ \E d \in Workers : calls'[d].op = "approve" /\ calls'[d].pc = "level"
                                                  /\ calls'[d].mem = q
    BY <1>2 DEF LevelIsEarned, Submissions, Review, At, Mem
  <2>1. LevelIsEarned
    BY DEF KycOK
  <2>2. CASE v = u
    BY <1>3, <1>4, <2>2
  <2>3. CASE v # u
    <3>1. users'[v] = users[v]
      BY <1>4, <2>3
    <3>2. users[v].kyc > 0 => \E q \in everApproved : q \in SubmissionIds /\ submissions[q].user = v
      BY <2>1 DEF LevelIsEarned, Submissions
    <3>3. ASSUME NEW q \in everApproved, q \in SubmissionIds, submissions[q].user = v
          PROVE  \/ users[v].kyc > 0
                 \/ Review(q) \in hurt'
                 \/ \E d \in Workers : calls'[d].op = "approve" /\ calls'[d].pc = "level"
                                       /\ calls'[d].mem = q
      <4>1. CASE users[v].kyc > 0 \/ Review(q) \in hurt
        BY <4>1
      <4>2. ASSUME NEW d \in Workers, At(d, "approve", "level"), Mem(d) = q
            PROVE  calls'[d].op = "approve" /\ calls'[d].pc = "level" /\ calls'[d].mem = q
        <5>1. d # c
          BY <1>1, <1>3, <2>3, <3>3, <4>2 DEF Mem
        <5>2. calls'[d] = calls[d]
          BY <1>6, <5>1
        <5> QED BY <4>2, <5>2 DEF At, Mem
      <4> QED BY <2>1, <3>3, <4>1, <4>2 DEF LevelIsEarned, Submissions
    <3> QED BY <3>1, <3>2, <3>3
  <2> QED BY <2>2, <2>3
<1>8. \A s \in SubmissionIds : submissions'[s] # NoSubmission =>
          submissions'[s].user \in UserIds /\ users'[submissions'[s].user] # NoUser
  <2> SUFFICES ASSUME NEW s \in SubmissionIds, submissions[s] # NoSubmission
               PROVE  submissions[s].user \in UserIds /\ users'[submissions[s].user] # NoUser
    BY <1>2
  <2>1. PICK v : v = submissions[s].user
    OBVIOUS
  <2>2. v \in UserIds /\ Exists(v)
    BY <2>1 DEF KycOK
  <2>3. Exists(v)'
    BY <2>2 DEF UsersStay
  <2> QED BY <2>1, <2>2, <2>3 DEF Exists
<1>9. ASSUME NEW d \in Workers PROVE KycCall(d)'
  <2>1. CASE d = c
    BY <1>5, <2>1 DEF Turns, KycCall, At
  <2>2. CASE d # c
    <3>1. calls'[d] = calls[d]
      BY <1>6, <2>2
    <3> QED BY <1>2, <3>1, KycCallStays
  <2> QED BY <2>1, <2>2
<1>10. KycTypeOK' /\ (\A s \in everApproved' : submissions'[s] # NoSubmission)
  BY <1>2 DEF KycOK, KycTypeOK
<1>11. \A v \in UserIds : Submitting(v) \notin raced' \cup hurt' =>
          \A s, r \in Submissions(v) : submissions[s].status = "pending" => r <= s
  BY DEF KycOK
<1>12. \A r, s \in SubmissionIds : r < s /\ submissions[s] # NoSubmission =>
          submissions[r] # NoSubmission
  BY DEF KycOK
<1> QED BY <1>2, <1>7, <1>8, <1>9, <1>10, <1>11, <1>12 DEF KycOK, Submissions, Submitting, Exists

LEMMA KycKeep ==
  ASSUME CallsOK, UsersOK, UsersStay, RacesOK, KycOK, KycNext,
         raced \subseteq raced', hurt \subseteq hurt'
  PROVE  KycOK'
<1>1. ASSUME NEW c \in Workers, users' = users, UNCHANGED kycVars,
             NEW op, NEW pc, NEW on, NEW u, NEW mem, Turns(c, op, pc, on, u, mem),
             ~At(c, "approve", "level"), KycCall(c)'
      PROVE  KycOK'
  <2>1. submissions' = submissions /\ everApproved' = everApproved
    BY <1>1 DEF kycVars
  <2>2. KycTypeOK'
    BY <2>1 DEF KycOK, KycTypeOK
  <2>3. Others(c)
    BY <1>1 DEF Turns, Others
  <2>4. PICK new : new = {}
    OBVIOUS
  <2>5. everApproved' = everApproved \cup new /\ \A x : x \notin new
    BY <2>1, <2>4
  <2> QED BY <1>1, <2>1, <2>2, <2>3, <2>5, ReviewKeeps
<1>2. ASSUME NEW c \in Workers, NEW u \in UserIds, Submit(c, u)
      PROVE  KycOK'
  <2>1. PICK on : on = {Submitting(u)}
    OBVIOUS
  <2>2. Begin(c, "submit", "latest", on, u, "nothing") /\ users' = users /\ UNCHANGED kycVars
    BY <1>2, <2>1 DEF Submit
  <2>3. Turns(c, "submit", "latest", on, u, "nothing") /\ ~At(c, "approve", "level")
    BY <2>2, BeginTurns DEF CallsOK, At
  <2>4. KycCall(c)'
    BY <2>1, <2>3 DEF Turns, KycCall, At, User, Submitting
  <2> QED BY <1>1, <2>2, <2>3, <2>4
<1>3. ASSUME NEW c \in Workers, NEW s \in SubmissionIds, Approve(c, s) \/ Reject(c, s)
      PROVE  KycOK'
  <2>1. PICK on, u : on = {Review(s)} /\ u = submissions[s].user
    OBVIOUS
  <2>2. PICK op : /\ op \in {"approve", "reject"} /\ Begin(c, op, "status", on, u, s)
                  /\ users' = users /\ UNCHANGED kycVars
    BY <1>3, <2>1 DEF Approve, Reject
  <2>3. Turns(c, op, "status", on, u, s) /\ ~At(c, "approve", "level")
    BY <2>2, BeginTurns DEF CallsOK, At
  <2>4. submissions' = submissions
    BY <2>2 DEF kycVars
  <2>5. KycCall(c)'
    BY <2>1, <2>2, <2>3, <2>4 DEF Turns, KycCall, At, User, Mem, Review
  <2> QED BY <1>1, <2>2, <2>3, <2>5
<1>4. ASSUME NEW c \in Workers, LookAtLatest(c)
      PROVE  KycOK'
  <2>1. PICK on, u, m : on = calls[c].on /\ u = User(c) /\ m = calls[c].mem
    OBVIOUS
  <2>2. /\ calls[c].op = "submit" /\ calls[c].pc = "latest" /\ users' = users /\ UNCHANGED kycVars
        /\ \/ Finish(c)
           \/ /\ Goto(c, "create")
              /\ ~ \E s \in FindLatestByUserID(u) : submissions[s].status = "pending"
    BY <1>4, <2>1 DEF LookAtLatest, At
  <2>3. ~At(c, "approve", "level")
    BY <2>2 DEF At
  <2>4. CASE Finish(c)
    <3>1. Turns(c, "idle", "idle", {}, Nobody, "nothing")
      BY <2>4, FinishTurns DEF CallsOK
    <3>2. KycCall(c)'
      BY <3>1 DEF Turns, KycCall, At
    <3> QED BY <1>1, <2>2, <2>3, <3>1, <3>2
  <2>5. CASE /\ Goto(c, "create")
             /\ ~ \E s \in FindLatestByUserID(u) : submissions[s].status = "pending"
    <3>1. Turns(c, "submit", "create", on, u, m)
      BY <2>1, <2>2, <2>5, GotoTurns DEF CallsOK, User
    <3>2. on = {Submitting(u)} /\ u \in UserIds
      <4>1. Named(calls[c].op, calls[c].pc)
        BY <2>2 DEF Named
      <4> QED BY <2>1, <2>2, <4>1 DEF KycOK, KycCall, CallsOK, CallerOK
    <3>3. Submitting(u) \notin raced \cup hurt => \A s \in Submissions(u) : submissions[s].status # "pending"
      BY <2>5, <3>2 DEF KycOK, FindLatestByUserID
    <3>4. submissions' = submissions
      BY <2>2 DEF kycVars
    <3>5. /\ calls'[c].op = "submit" /\ calls'[c].pc = "create" /\ calls'[c].on = on
          /\ calls'[c].user = u /\ calls'[c].mem = m
      BY <3>1 DEF Turns
    <3>6. KycCall(c)'
      BY <3>2, <3>3, <3>4, <3>5 DEF KycCall, At, User, Mem, Submissions, Submitting
    <3> QED BY <1>1, <2>2, <2>3, <3>1, <3>6
  <2> QED BY <2>2, <2>4, <2>5
<1>5. ASSUME NEW c \in Workers, MarkApproved(c) \/ MarkRejected(c)
      PROVE  KycOK'
  <2>1. PICK on, u, m : on = calls[c].on /\ u = User(c) /\ m = calls[c].mem
    OBVIOUS
  <2>1a. PICK st, new : /\ st = IF MarkApproved(c) THEN "approved" ELSE "rejected"
                        /\ new = IF MarkApproved(c) THEN {m} ELSE {}
    OBVIOUS
  <2>2. /\ st \in {"approved", "rejected"}
        /\ submissions' = [submissions EXCEPT ![m].status = st]
        /\ everApproved' = everApproved \cup new
        /\ users' = users /\ calls[c].pc = "status"
        /\ \/ calls[c].op = "approve" /\ Goto(c, "level") /\ new = {m}
           \/ calls[c].op = "reject" /\ Finish(c) /\ new = {}
    <3>2. CASE MarkApproved(c)
      <4>1. /\ submissions' = [submissions EXCEPT ![m].status = st]
            /\ everApproved' = everApproved \cup new /\ new = {m}
            /\ users' = users /\ calls[c].pc = "status" /\ calls[c].op = "approve"
            /\ Goto(c, "level")
        BY <2>1, <2>1a, <3>2 DEF MarkApproved, At, Mem
      <4>2. st = "approved"
        BY <2>1a, <3>2
      <4> QED BY <4>1, <4>2
    <3>3. CASE MarkRejected(c) /\ ~MarkApproved(c)
      <4>1. /\ submissions' = [submissions EXCEPT ![m].status = st]
            /\ everApproved' = everApproved \cup new /\ new = {}
            /\ users' = users /\ calls[c].pc = "status" /\ calls[c].op = "reject"
            /\ Finish(c)
        BY <2>1, <2>1a, <3>3 DEF MarkRejected, At, Mem
      <4>2. st = "rejected"
        BY <2>1a, <3>3
      <4> QED BY <4>1, <4>2
    <3> QED BY <1>5, <3>2, <3>3
  <2>3. calls[c].op \in {"approve", "reject"} /\ ~At(c, "approve", "level")
    BY <2>2 DEF At
  <2>4. m \in SubmissionIds /\ submissions[m].user = u /\ on = {Review(m)}
    BY <2>1, <2>3 DEF CallsOK, Remembers, KycOK, KycCall, Mem
  <2>5. u # Nobody
    <3>1. Named(calls[c].op, calls[c].pc)
      BY <2>3 DEF Named
    <3> QED BY <2>1, <3>1, KnownUser
  <2>6. submissions[m] # NoSubmission
    BY <2>4, <2>5 DEF NoSubmission
  <2>7. /\ submissions' \in [SubmissionIds -> [user : UserIds \cup {Nobody},
                                status : {"none", "pending", "approved", "rejected"}]]
        /\ \A s \in SubmissionIds : /\ submissions'[s].user = submissions[s].user
                                    /\ submissions[s] = NoSubmission <=> submissions'[s] = NoSubmission
                                    /\ submissions'[s].status = "pending" =>
                                          submissions[s].status = "pending"
    BY <2>2, <2>4, <2>6, StatusWritten
  <2>8. KycTypeOK'
    BY <2>2, <2>4, <2>7 DEF KycOK, KycTypeOK
  <2>9. CASE calls[c].op = "approve" /\ Goto(c, "level") /\ new = {m}
    <3>1. Turns(c, "approve", "level", on, u, m)
      BY <2>1, <2>9, GotoTurns DEF CallsOK, User
    <3>2. /\ calls'[c].op = "approve" /\ calls'[c].pc = "level" /\ calls'[c].on = on
          /\ calls'[c].user = u /\ calls'[c].mem = m /\ Others(c)
      BY <3>1 DEF Turns, Others
    <3>3. submissions'[m].user = u /\ m \in everApproved'
      BY <2>2, <2>4, <2>7, <2>9
    <3>4. KycCall(c)'
      BY <2>4, <3>2, <3>3 DEF KycCall, At, User, Mem, Review
    <3>5. \A s \in new : /\ s \in SubmissionIds /\ submissions[s] # NoSubmission
                         /\ calls'[c].op = "approve" /\ calls'[c].pc = "level" /\ calls'[c].mem = s
      BY <2>4, <2>6, <2>9, <3>2
    <3> QED BY <2>2, <2>3, <2>7, <2>8, <3>2, <3>4, <3>5, ReviewKeeps
  <2>10. CASE calls[c].op = "reject" /\ Finish(c) /\ new = {}
    <3>1. Turns(c, "idle", "idle", {}, Nobody, "nothing")
      BY <2>10, FinishTurns DEF CallsOK
    <3>2. KycCall(c)' /\ Others(c)
      BY <3>1 DEF Turns, Others, KycCall, At
    <3>3. \A s : s \notin new
      BY <2>10
    <3> QED BY <2>2, <2>3, <2>7, <2>8, <3>2, <3>3, ReviewKeeps
  <2> QED BY <2>2, <2>9, <2>10
<1>6. ASSUME NEW c \in Workers, LookupFails(c)
      PROVE  KycOK'
  <2>1. PICK on, u, m : on = calls[c].on /\ u = User(c) /\ m = calls[c].mem
    OBVIOUS
  <2>2. /\ calls[c].op = "submit" /\ calls[c].pc = "latest" /\ users' = users /\ UNCHANGED kycVars
        /\ calls' = [calls EXCEPT ![c].pc = "create"] /\ hurt' = hurt \cup on
    BY <1>6, <2>1 DEF LookupFails, At
  <2>3. ~At(c, "approve", "level")
    BY <2>2 DEF At
  <2>4. Turns(c, "submit", "create", on, u, m)
    BY <2>1, <2>2, StepTurns DEF CallsOK, User
  <2>5. on = {Submitting(u)}
    BY <2>1, <2>2 DEF KycOK, KycCall
  <2>6. /\ calls'[c].op = "submit" /\ calls'[c].pc = "create" /\ calls'[c].on = on
        /\ calls'[c].user = u
    BY <2>4 DEF Turns
  <2>7. Submitting(u) \in hurt'
    BY <2>2, <2>5
  <2>8. KycCall(c)'
    BY <2>5, <2>6, <2>7 DEF KycCall, At, User, Submitting
  <2> QED BY <1>1, <2>2, <2>3, <2>4, <2>8
<1> QED BY <1>2, <1>3, <1>4, <1>5, <1>6, SubmissionKeeps, LevelKeeps DEF KycNext

-----------------------------------------------------------------------------
\* The invariant is inductive.

LEMMA InitInv == Init => Inv
<1> SUFFICES ASSUME Init PROVE Inv
  OBVIOUS
<1> USE DEF Init, AccountsInit, SessionsInit, CodesInit, KycInit
<1>1. /\ \A c \in Workers : /\ calls[c] = Idle /\ calls[c].op = "idle" /\ calls[c].pc = "idle"
                            /\ calls[c].on = {}
  BY DEF Idle
<1>2. CallsOK
  <2>1. Shape
    BY <1>1 DEF Shape, Idle
  <2>2. \A c \in Workers : CallerOK(c) /\ Remembers(calls[c].op, calls[c].mem)
    BY <1>1 DEF CallerOK, Named, Remembers
  <2> QED BY <2>1, <2>2, AccountBoundsAssumption DEF CallsOK
<1>3. PICK email, phone, password, r :
        /\ email = (CHOOSE e \in Emails : TRUE) /\ phone = (CHOOSE p \in Phones : TRUE)
        /\ password = (CHOOSE p \in Passwords : TRUE) /\ r = FirstUser
  OBVIOUS
<1>4. email \in Emails /\ phone \in Phones /\ password \in Passwords /\ phone \in Nat
  BY <1>3, EmailsAssumption, PhonesAssumption, PasswordsAssumption
<1>5. /\ r.phone \in Phones
      /\ r = [email |-> email, phone |-> phone, password |-> password, pin |-> "none",
              enabled |-> FALSE, secret |-> NoSecret, kyc |-> 0]
  <2>1. r = [NoUser EXCEPT !.email = email, !.phone = phone, !.password = password]
    BY <1>3 DEF FirstUser
  <2>2. PICK r1 : r1 = [NoUser EXCEPT !.email = email]
    OBVIOUS
  <2>3. r1 = [email |-> email, phone |-> 0, password |-> "none", pin |-> "none",
              enabled |-> FALSE, secret |-> NoSecret, kyc |-> 0]
    BY ONLY <2>2 DEF NoUser
  <2>4. PICK r2 : r2 = [r1 EXCEPT !.phone = phone]
    OBVIOUS
  <2>5. r2 = [email |-> email, phone |-> phone, password |-> "none", pin |-> "none",
              enabled |-> FALSE, secret |-> NoSecret, kyc |-> 0]
    BY ONLY <2>3, <2>4
  <2>6. r = [r2 EXCEPT !.password = password]
    BY ONLY <2>1, <2>2, <2>4
  <2>7. r = [email |-> email, phone |-> phone, password |-> password, pin |-> "none",
              enabled |-> FALSE, secret |-> NoSecret, kyc |-> 0]
    BY ONLY <2>5, <2>6
  <2> QED BY <1>4, <2>7
<1>6. r \in UserRows /\ NoUser \in UserRows
  BY <1>4, <1>5 DEF UserRows, NoUser
<1>7. users = [u \in UserIds |-> IF u = 1 THEN r ELSE NoUser]
  BY <1>3
<1>8. UsersOK
  <2>1. users \in [UserIds -> UserRows]
    BY <1>6, <1>7
  <2>2. \A u \in UserIds : Exists(u) => u = 1 /\ users[u].phone \in Phones
    BY <1>5, <1>7 DEF Exists
  <2> QED BY <2>1, <2>2 DEF UsersOK, NamesOneAccount
<1>9. RacesOK
  BY <1>1 DEF RacesOK
<1>10. AnswersJustified
  BY <1>1 DEF AnswersJustified
<1>11. \A u \in UserIds : users[u].enabled = FALSE /\ users[u].kyc = 0
  <2>1. r.enabled = FALSE /\ r.kyc = 0 /\ NoUser.enabled = FALSE /\ NoUser.kyc = 0
    BY <1>5 DEF NoUser
  <2> QED BY <1>7, <2>1
<1>12. SessionsOK
  <2>1. \A t \in TokenIds : ~Made(t)
    BY DEF Made
  <2>2. SessionsTypeOK
    BY TokenIdsAssumption DEF SessionsTypeOK, NoToken
  <2>3. TokensOK
    BY <2>1, <2>2 DEF TokensOK
  <2>4. OneGood /\ EndedStaysEnded
    BY <2>1 DEF OneGood, EndedStaysEnded, Good, Live
  <2>5. EnabledIsConfirmed
    BY <1>11 DEF EnabledIsConfirmed
  <2>6. \A c \in Workers : SessionCall(c)
    BY <1>1 DEF SessionCall, At
  <2> QED BY <2>3, <2>4, <2>5, <2>6 DEF SessionsOK
<1>13. CodesOK
  <2>1. \A u \in UserIds : codes[u].id = 0 /\ codes[u].used = FALSE
    BY DEF NoCode
  <2>2. CodesTypeOK
    BY MaxCodesAssumption DEF CodesTypeOK, NoCode
  <2>3. \A k \in CodeIds : accepted[k] = 0
    OBVIOUS
  <2>4. \A c \in Workers : CodeCall(c)
    BY <1>1 DEF CodeCall, At
  <2> QED BY <2>1, <2>2, <2>3, <2>4 DEF CodesOK, FreshCodeIsGood
<1>14. KycOK
  <2>1. \A s \in SubmissionIds : /\ submissions[s] = NoSubmission /\ submissions[s].user = Nobody
                                 /\ submissions[s].status # "pending"
    BY DEF NoSubmission
  <2>2. KycTypeOK
    BY DEF KycTypeOK, NoSubmission
  <2>3. \A u \in UserIds : Submissions(u) = {}
    BY <2>1, UserIdsAssumption DEF Submissions, Nobody
  <2>4. LevelIsEarned
    BY <1>11 DEF LevelIsEarned
  <2>5. \A c \in Workers : KycCall(c)
    BY <1>1 DEF KycCall, At
  <2> QED BY <2>1, <2>2, <2>3, <2>4, <2>5 DEF KycOK
<1> QED BY <1>2, <1>8, <1>9, <1>10, <1>12, <1>13, <1>14 DEF Inv

LEMMA NextInv == Inv /\ Next => Inv'
<1> SUFFICES ASSUME Inv, Next PROVE Inv'
  OBVIOUS
<1> USE DEF Inv
<1>1. Remember /\ raced' = raced \cup Overlapping'
  BY DEF Next
<1>2. /\ CallsOK' /\ UsersOK' /\ UsersStay /\ Justified /\ hurt \subseteq hurt'
      /\ \/ /\ SessionNext /\ LevelKept /\ UNCHANGED <<codeVars, kycVars>>
            /\ Spares(CodeOps) /\ Spares(KycOps)
         \/ /\ CodeNext /\ users' = users /\ UNCHANGED <<sessionVars, kycVars>>
            /\ Spares(SessionOps) /\ Spares(KycOps)
         \/ /\ KycNext /\ SecondFactorKept /\ UNCHANGED <<sessionVars, codeVars>>
            /\ Spares(SessionOps) /\ Spares(CodeOps)
         \/ /\ SecondFactorKept /\ LevelKept /\ UNCHANGED <<sessionVars, codeVars, kycVars>>
            /\ Spares(SessionOps) /\ Spares(CodeOps) /\ Spares(KycOps)
  BY StepMoves
<1>3. RacesOK' /\ Calm
  BY <1>1, <1>2, RacesAreKnown DEF Calm
<1>4. raced \subseteq raced'
  BY <1>1
<1>5. AnswersJustified'
  BY <1>1, <1>2, AnswersStayJustified
<1>6. SecondFactorKept \/ SessionNext
  BY <1>2 DEF SecondFactorKept
<1>7. LevelKept \/ KycNext
  BY <1>2 DEF LevelKept
<1>8. SessionsOK'
  <2>1. CASE SessionNext
    BY <1>2, <1>3, <2>1, SessionsKeep
  <2>2. CASE UNCHANGED sessionVars /\ Spares(SessionOps) /\ SecondFactorKept
    BY <1>2, <1>3, <2>2, SessionsStand
  <2> QED BY <1>2, <1>6, <2>1, <2>2
<1>9. CodesOK'
  <2>1. CASE CodeNext
    BY <1>3, <2>1, CodesKeep
  <2>2. CASE UNCHANGED codeVars /\ Spares(CodeOps)
    BY <1>3, <2>2, CodesStand
  <2> QED BY <1>2, <2>1, <2>2
<1>10. KycOK'
  <2>1. CASE KycNext
    BY <1>2, <1>4, <2>1, KycKeep
  <2>2. CASE UNCHANGED kycVars /\ Spares(KycOps) /\ LevelKept
    BY <1>2, <1>4, <2>2, KycStands
  <2> QED BY <1>2, <1>7, <2>1, <2>2
<1> QED BY <1>2, <1>3, <1>5, <1>8, <1>9, <1>10

LEMMA StutterInv == Inv /\ UNCHANGED vars => Inv'
<1> SUFFICES ASSUME Inv, UNCHANGED vars PROVE Inv'
  OBVIOUS
<1>1. /\ UNCHANGED <<users, calls, work, faults, hurt, seen, raced>>
      /\ UNCHANGED <<tokens, challenged, secretsMade, confirmed, ended>>
      /\ UNCHANGED <<codes, codesMade, received, accepted, submissions, everApproved>>
  BY DEF vars, control, sessionVars, codeVars, kycVars
<1>2. CallsOK'
  BY <1>1 DEF Inv, CallsOK, Shape, CallerOK, User, Exists
<1>3. UsersOK'
  BY <1>1 DEF Inv, UsersOK, NamesOneAccount, Exists
<1>4. RacesOK' /\ AnswersJustified'
  BY <1>1 DEF Inv, RacesOK, AnswersJustified, Mem
<1>5. SecondFactorKept /\ LevelKept /\ UsersStay /\ Calm
  BY <1>1 DEF SecondFactorKept, LevelKept, UsersStay, Exists, Calm, Undisturbed
<1>6. \A ops : Spares(ops)
  BY <1>1 DEF Spares
<1>7. SessionsOK'
  BY <1>1, <1>5, <1>6, SessionsStand DEF Inv, sessionVars
<1>8. CodesOK'
  BY <1>1, <1>5, <1>6, CodesStand DEF Inv, codeVars
<1>9. KycOK'
  BY <1>1, <1>5, <1>6, KycStands DEF Inv, kycVars
<1> QED BY <1>2, <1>3, <1>4, <1>7, <1>8, <1>9 DEF Inv

LEMMA InvHolds == Spec => []Inv
<1>1. Inv /\ [Next]_vars => Inv'
  BY NextInv, StutterInv
<1> QED BY InitInv, <1>1, PTL DEF Spec

-----------------------------------------------------------------------------
\* What the invariant says.

LEMMA AtMostOne ==
  ASSUME NEW S, \A x, y \in S : x = y
  PROVE  Cardinality(S) <= 1
<1>1. CASE S = {}
  BY <1>1, FS_EmptySet
<1>2. CASE S # {}
  <2>1. PICK x : x \in S
    BY <1>2
  <2>2. S = {x}
    BY <2>1
  <2>3. Cardinality({x}) = 1
    BY FS_Singleton
  <2> QED BY <2>2, <2>3
<1> QED BY <1>1, <1>2

LEMMA InvTypes == Inv => UsersAreSound
<1> SUFFICES ASSUME Inv PROVE UsersAreSound
  OBVIOUS
<1>1. AccountsTypeOK
  <2>1. \A u \in UserIds : users[u] \in UserRows
    BY DEF Inv, UsersOK
  <2>2. \A c \in Workers : calls[c].op \in work \cup {"idle"}
    BY DEF Inv, CallsOK, CallerOK
  <2> QED BY <2>1, <2>2 DEF AccountsTypeOK, UserRows, Inv, CallsOK
<1>2. SessionsTypeOK /\ CodesTypeOK /\ KycTypeOK /\ NamesOneAccount
  BY DEF Inv, SessionsOK, TokensOK, CodesOK, KycOK, UsersOK
<1> QED BY <1>1, <1>2 DEF UsersAreSound, TypeOK

LEMMA InvRotates == Inv => SessionsRotate
<1> SUFFICES ASSUME Inv PROVE SessionsRotate
  OBVIOUS
<1>1. EndedStaysEnded
  BY DEF Inv, SessionsOK
<1>2. ASSUME NEW f, Undisturbed(f)
      PROVE  Cardinality({t \in TokenIds :
                /\ Live(t) /\ Family(t) = f
                /\ \A c \in Workers : ~(At(c, "refresh", "revoke") /\ Mem(c) = t)}) <= 1
  <2> DEFINE S == {t \in TokenIds :
                     /\ Live(t) /\ Family(t) = f
                     /\ \A c \in Workers : ~(At(c, "refresh", "revoke") /\ Mem(c) = t)}
  <2>1. \A t \in S : t \in TokenIds /\ Good(t) /\ Family(t) = f
    BY DEF Good
  <2>2. \A s, t \in S : s = t
    BY <1>2, <2>1 DEF Inv, SessionsOK, OneGood
  <2> HIDE DEF S
  <2>3. Cardinality(S) <= 1
    BY <2>2, AtMostOne
  <2> QED BY <2>3 DEF S
<1>3. OneGoodToken
  BY <1>2 DEF OneGoodToken
<1> QED BY <1>1, <1>3 DEF SessionsRotate

LEMMA InvReviews == Inv => ReviewsAgree
<1> SUFFICES ASSUME Inv PROVE ReviewsAgree
  OBVIOUS
<1>1. LevelIsEarned
  BY DEF Inv, KycOK
<1>2. ASSUME NEW u \in UserIds, Submitting(u) \notin raced \cup hurt
      PROVE  Cardinality({s \in Submissions(u) : submissions[s].status = "pending"}) <= 1
  <2> DEFINE S == {s \in Submissions(u) : submissions[s].status = "pending"}
  <2>1. ASSUME NEW s \in S, NEW r \in S PROVE s = r
    <3>1. s <= r /\ r <= s
      BY <1>2 DEF Inv, KycOK
    <3>2. s \in Nat /\ r \in Nat
      BY SubmissionIdsAssumption DEF Submissions
    <3> QED BY <3>1, <3>2
  <2> HIDE DEF S
  <2>2. Cardinality(S) <= 1
    BY <2>1, AtMostOne
  <2> QED BY <2>2 DEF S
<1>3. OnePending
  BY <1>2 DEF OnePending, Undisturbed
<1> QED BY <1>1, <1>3 DEF ReviewsAgree

LEMMA InvCodes == Inv => CodesAreGoodOnce
BY DEF Inv, CodesOK, CodesAreGoodOnce, CodeAcceptedOnce

\* The users table keeps its types, and an e-mail address and a phone number
\* lead to one account, although Register looks them up before it inserts and a
\* Google login may insert in between.
THEOREM UsersAlwaysSound == Spec => []UsersAreSound
BY InvHolds, InvTypes, PTL

\* A sign-in that succeeds and a PIN that is accepted were right at some one
\* moment of the call, though a call reads its account once and answers later.
THEOREM AnswersAlwaysJustified == Spec => []AnswersJustified
<1>1. Inv => AnswersJustified
  BY DEF Inv
<1> QED BY <1>1, InvHolds, PTL

\* The second factor is on only with a secret the owner has shown a code of,
\* whatever setups, confirmations and removals overlap (UpdateTwoFA).
THEOREM EnabledAlwaysConfirmed == Spec => []EnabledIsConfirmed
<1>1. Inv => EnabledIsConfirmed
  BY DEF Inv, SessionsOK
<1> QED BY <1>1, InvHolds, PTL

\* A session has one good refresh token until a logout that came with the token,
\* or one of all sessions, ends it, and none afterwards, unless two calls worked
\* on it at once or one was cut off.
THEOREM SessionsAlwaysRotate == Spec => []SessionsRotate
BY InvHolds, InvRotates, PTL

\* A one-time code is accepted once, and a new code is not used up by a
\* verification of the one it replaced.
THEOREM CodesAlwaysGoodOnce == Spec => []CodesAreGoodOnce
BY InvHolds, InvCodes, PTL

\* A user has one pending submission, unless two were made at once or one after
\* a look for the latest that failed, and the level is what the reviews say.
THEOREM ReviewsAlwaysAgree == Spec => []ReviewsAgree
BY InvHolds, InvReviews, PTL

=============================================================================
