--------------------------- MODULE CustodyProofs ---------------------------
(***************************************************************************)
(* Proofs about the custody services, for all numbers of users, wallets,   *)
(* calls at a time, deposits, withdrawals and so on, and every workload.   *)
(***************************************************************************)
EXTENDS Custody, P2PEscrowProofs, Sums

-----------------------------------------------------------------------------
\* How calls move.

CallOf(op, pc, on, mem) == [op |-> op, pc |-> pc, on |-> on, mem |-> mem]

\* A call's record has its four fields.
Shape ==
    calls = [c \in Workers |-> [op |-> calls[c].op, pc |-> calls[c].pc, on |-> calls[c].on,
                                mem |-> calls[c].mem]]

\* Call c becomes what is given, and no other call moves.
Turns(c, op, pc, on, mem) ==
    /\ Shape'
    /\ calls'[c].op = op /\ calls'[c].pc = pc /\ calls'[c].on = on /\ calls'[c].mem = mem
    /\ \A d \in Workers : d # c => calls'[d] = calls[d]

LEMMA Replaces ==
  ASSUME Shape, NEW c \in Workers, NEW op, NEW pc, NEW on, NEW mem,
         calls' = [calls EXCEPT ![c] = [op |-> op, pc |-> pc, on |-> on, mem |-> mem]]
  PROVE  Turns(c, op, pc, on, mem)
<1> DEFINE r == [op |-> op, pc |-> pc, on |-> on, mem |-> mem]
<1>1. DOMAIN calls = Workers /\ \A d \in Workers :
         calls[d] = [op |-> calls[d].op, pc |-> calls[d].pc, on |-> calls[d].on,
                     mem |-> calls[d].mem]
  BY DEF Shape
<1>2. r.op = op /\ r.pc = pc /\ r.on = on /\ r.mem = mem
  OBVIOUS
<1>3. r = [op |-> r.op, pc |-> r.pc, on |-> r.on, mem |-> r.mem]
  BY <1>2
<1> HIDE DEF r
<1>4. calls' = [calls EXCEPT ![c] = r]
  BY DEF r
<1>5. calls'[c] = r /\ \A d \in Workers : d # c => calls'[d] = calls[d]
  BY <1>1, <1>4
<1>6. calls' = [d \in Workers |-> calls'[d]]
  BY <1>1, <1>4
<1>7. \A d \in Workers : calls'[d] =
         [op |-> calls'[d].op, pc |-> calls'[d].pc, on |-> calls'[d].on, mem |-> calls'[d].mem]
  BY <1>1, <1>3, <1>5
<1>8. Shape'
  BY <1>6, <1>7 DEF Shape
<1> QED BY <1>2, <1>5, <1>8 DEF Turns

LEMMA GotoTurns ==
  ASSUME Shape, NEW c \in Workers, NEW pc, Goto(c, pc)
  PROVE  /\ Turns(c, calls[c].op, pc, calls[c].on, calls[c].mem)
         /\ UNCHANGED <<work, faults, hurt>>
<1>1. calls[c] = [op |-> calls[c].op, pc |-> calls[c].pc, on |-> calls[c].on,
                  mem |-> calls[c].mem]
  BY DEF Shape
<1>2. [calls[c] EXCEPT !.pc = pc] = [op |-> calls[c].op, pc |-> pc, on |-> calls[c].on,
                                     mem |-> calls[c].mem]
  BY <1>1
<1>3. calls' = [calls EXCEPT ![c] = [calls[c] EXCEPT !.pc = pc]]
  BY DEF Goto
<1> QED BY <1>2, <1>3, Replaces DEF Goto

LEMMA GotoWithTurns ==
  ASSUME Shape, NEW c \in Workers, NEW pc, NEW mem, GotoWith(c, pc, mem)
  PROVE  /\ Turns(c, calls[c].op, pc, calls[c].on, mem)
         /\ UNCHANGED <<work, faults, hurt>>
<1>1. PICK r, op, on, old, m :
         /\ r = calls[c] /\ op = calls[c].op /\ m = calls[c].pc /\ on = calls[c].on
         /\ old = calls[c].mem
  OBVIOUS
<1>2. r = CallOf(op, m, on, old)
  BY <1>1 DEF Shape, CallOf
<1>3. [r EXCEPT !.pc = pc, !.mem = mem] = CallOf(op, pc, on, mem)
  <2>1. PICK s : s = [r EXCEPT !.pc = pc]
    OBVIOUS
  <2>2. s = [op |-> op, pc |-> pc, on |-> on, mem |-> old]
    BY ONLY <1>2, <2>1 DEF CallOf
  <2>3. [s EXCEPT !.mem = mem] = CallOf(op, pc, on, mem)
    BY ONLY <2>2 DEF CallOf
  <2> QED BY ONLY <2>1, <2>3
<1>4. calls' = [calls EXCEPT ![c] = [r EXCEPT !.pc = pc, !.mem = mem]]
  BY <1>1 DEF GotoWith, Shape
<1>5. Turns(c, op, pc, on, mem)
  BY <1>3, <1>4, Replaces DEF CallOf
<1> QED BY <1>1, <1>5 DEF GotoWith

LEMMA FinishTurns ==
  ASSUME Shape, NEW c \in Workers, Finish(c)
  PROVE  /\ Turns(c, "idle", "idle", Nothing, Nothing)
         /\ UNCHANGED <<work, faults, hurt>>
BY Replaces DEF Finish, Idle

LEMMA BeginTurns ==
  ASSUME Shape, NEW c \in Workers, NEW op, NEW pc, NEW on, NEW mem,
         Begin(c, op, pc, on, mem)
  PROVE  /\ Turns(c, op, pc, on, mem)
         /\ calls[c].op = "idle" /\ op \in DOMAIN work
         /\ UNCHANGED <<work, faults, hurt>>
BY Replaces DEF Begin, Busy

-----------------------------------------------------------------------------
\* The ledger.

\* What the transactions table may refer to.
Refs == {"deposit", "withdrawal", "admin", "tx", "send", "transfer", "ad", "refund", "order",
         "trade"}
        \X ({0} \cup DepositIds \cup WithdrawalIds \cup TxIds \cup SendIds
            \cup AdIds \cup OrderIds)
Entries == [ref : Refs, before : Int, after : Int]

LedgerOK ==
    /\ wallets \in [Wallets -> Wallet]
    /\ ledger \in [Wallets -> Seq(Entries)]
    /\ rowLock \in [Wallets -> Workers \cup {NoCall}]
    /\ AuditTrail

\* A wallet's part of the audit trail.
After(w, log, i) == IF i = 0 THEN OpeningOf(w) ELSE log[i].after
Trail(w, log, balance) ==
    /\ \A i \in DOMAIN log : GoesOn(w, After(w, log, i - 1), log[i].before)
    /\ GoesOn(w, After(w, log, Len(log)), balance)

LEMMA AuditTrailIs ==
  /\ AuditTrail <=> \A w \in Wallets : Trail(w, ledger[w], wallets[w].balance)
  /\ AuditTrail' <=> \A w \in Wallets : Trail(w, ledger'[w], wallets'[w].balance)
BY DEF AuditTrail, BalanceAfter, Trail, After, Wallets

\* Only rows that speak of things of these kinds are recorded, and none is lost.
Records(kinds) ==
    \A w \in Wallets :
        /\ \A i \in DOMAIN ledger[w] : i \in DOMAIN ledger'[w] /\ ledger'[w][i] = ledger[w][i]
        /\ \A i \in DOMAIN ledger'[w] : i \in DOMAIN ledger[w] \/ ledger'[w][i].ref[1] \in kinds

\* One row that speaks of ref is recorded, in wallet w, of a move by delta.
RecordsOne(w, ref, delta) ==
    /\ \A v \in Wallets : v # w => ledger'[v] = ledger[v]
    /\ \A r : EntriesOf(w, r)' = EntriesOf(w, r) \cup
                                 (IF r = ref THEN {Len(ledger[w]) + 1} ELSE {})
    /\ Len(ledger[w]) + 1 \notin DOMAIN ledger[w]
    /\ \A i \in DOMAIN ledger[w] : ledger'[w][i] = ledger[w][i]
    /\ ledger'[w][Len(ledger[w]) + 1].after - ledger'[w][Len(ledger[w]) + 1].before = delta

\* What a commit does to one wallet.
LEMMA TrailGoesOn ==
  ASSUME NEW w \in Wallets, NEW log \in Seq(Entries), NEW balance \in Int, NEW delta \in Int,
         NEW ref \in Refs, NEW e, Trail(w, log, balance),
         e = [ref |-> ref, before |-> balance, after |-> balance + delta]
  PROVE  /\ e \in Entries
         /\ Append(log, e) \in Seq(Entries)
         /\ Trail(w, Append(log, e), balance + delta)
         /\ Len(log) + 1 \notin DOMAIN log
         /\ DOMAIN Append(log, e) = DOMAIN log \cup {Len(log) + 1}
         /\ \A i \in DOMAIN log : Append(log, e)[i] = log[i]
         /\ Append(log, e)[Len(log) + 1] = e
<1>1. e \in Entries
  BY DEF Entries
<1>2. PICK n, t : n = Len(log) /\ t = Append(log, e)
  OBVIOUS
<1>3. /\ n \in Nat /\ DOMAIN log = 1..n /\ t \in Seq(Entries) /\ Len(t) = n + 1
      /\ DOMAIN t = 1..(n + 1) /\ t[n + 1] = e
      /\ \A i \in 1..n : t[i] = log[i]
  BY <1>1, <1>2, AppendProperties, LenProperties
<1>4. Trail(w, t, balance + delta)
  <2>1. \A i \in 0..n : After(w, t, i) = After(w, log, i)
    BY <1>3 DEF After
  <2>2. After(w, t, n + 1) = balance + delta
    BY <1>3 DEF After
  <2>3. \A i \in 1..n : GoesOn(w, After(w, t, i - 1), t[i].before)
    <3> SUFFICES ASSUME NEW i \in 1..n PROVE GoesOn(w, After(w, t, i - 1), t[i].before)
      OBVIOUS
    <3>1. i - 1 \in 0..n /\ t[i] = log[i]
      BY <1>3
    <3> QED BY <1>3, <2>1, <3>1 DEF Trail
  <2>4. GoesOn(w, After(w, t, n), t[n + 1].before)
    <3>1. GoesOn(w, After(w, log, n), balance) /\ n \in 0..n
      BY <1>2, <1>3 DEF Trail
    <3> QED BY <1>3, <2>1, <3>1
  <2>5. GoesOn(w, After(w, t, n + 1), balance + delta)
    BY <2>2 DEF GoesOn
  <2>6. \A i \in 1..(n + 1) : i \in 1..n \/ i = n + 1
    BY <1>3
  <2>7. (n + 1) - 1 = n
    BY <1>3
  <2> QED BY <1>3, <2>3, <2>4, <2>5, <2>6, <2>7 DEF Trail
<1>5. n + 1 \notin 1..n /\ 1..(n + 1) = (1..n) \cup {n + 1}
  BY <1>3
<1> QED BY <1>1, <1>2, <1>3, <1>4, <1>5

\* What one move does to its wallet, and that others are left alone.
Left(v) == wallets'[v] = wallets[v] /\ ledger'[v] = ledger[v]
Changed(w, delta, lock, ref) ==
    /\ wallets'[w].made = TRUE
    /\ wallets'[w].balance = wallets[w].balance + delta
    /\ wallets'[w].locked = wallets[w].locked + lock
    /\ ledger'[w] = Append(ledger[w], [ref |-> ref, before |-> wallets[w].balance,
                                       after |-> wallets[w].balance + delta])

\* Wallet w after move m.
Committed(w, m) ==
    /\ wallets'[w] = Moved(w, wallets[w], m)
    /\ ledger'[w] = Append(ledger[w], EntryOf(wallets[w], m))
Move(delta, lock, ref) == [delta |-> delta, lock |-> lock, ref |-> ref]

LEMMA MoveKeeps ==
  ASSUME LedgerOK, NEW w \in Wallets, NEW delta \in Int, NEW lock \in Int, NEW ref \in Refs,
         Committed(w, Move(delta, lock, ref))
  PROVE  /\ Changed(w, delta, lock, ref)
         /\ wallets'[w] \in Wallet /\ ledger'[w] \in Seq(Entries)
         /\ Trail(w, ledger'[w], wallets'[w].balance)
         /\ Len(ledger[w]) + 1 \notin DOMAIN ledger[w]
         /\ \A i \in DOMAIN ledger[w] : i \in DOMAIN ledger'[w] /\ ledger'[w][i] = ledger[w][i]
         /\ \A i \in DOMAIN ledger'[w] : i \in DOMAIN ledger[w] \/ ledger'[w][i].ref = ref
         /\ ledger'[w][Len(ledger[w]) + 1].after - ledger'[w][Len(ledger[w]) + 1].before = delta
<1>1. PICK balance, locked, log, e, n :
        /\ balance = wallets[w].balance /\ locked = wallets[w].locked /\ log = ledger[w]
        /\ e = [ref |-> ref, before |-> balance, after |-> balance + delta] /\ n = Len(log) + 1
  OBVIOUS
<1>2. balance \in Int /\ locked \in Int /\ log \in Seq(Entries) /\ Trail(w, log, balance)
  BY <1>1, AuditTrailIs DEF LedgerOK, Wallet
<1>3. PICK m : /\ m = Move(delta, lock, ref)
                /\ m.delta = delta /\ m.lock = lock /\ m.ref = ref
  BY DEF Move
<1>4. /\ wallets'[w] = [made |-> TRUE, balance |-> balance + delta, locked |-> locked + lock]
      /\ ledger'[w] = Append(log, e)
  BY <1>1, <1>3 DEF Moved, EntryOf, Committed
<1>5. /\ wallets'[w].balance = balance + delta /\ wallets'[w].locked = locked + lock
      /\ wallets'[w].made = TRUE /\ wallets'[w] \in Wallet
  <2>1. PICK b, l : b = balance + delta /\ l = locked + lock /\ b \in Int /\ l \in Int
    BY <1>2
  <2>2. wallets'[w] = [made |-> TRUE, balance |-> b, locked |-> l]
    BY <1>4, <2>1
  <2> QED BY ONLY <2>1, <2>2 DEF Wallet
<1>6. PICK t : t = Append(log, e)
  OBVIOUS
<1>7. /\ t \in Seq(Entries) /\ Trail(w, t, balance + delta) /\ n \notin DOMAIN log
      /\ DOMAIN t = DOMAIN log \cup {n} /\ t[n] = e /\ \A i \in DOMAIN log : t[i] = log[i]
  BY <1>1, <1>2, <1>6, TrailGoesOn
<1>8. e.ref = ref /\ e.after - e.before = delta
  BY <1>1, <1>2
<1>9. ledger'[w] = t
  BY <1>4, <1>6
<1> QED BY <1>1, <1>4, <1>5, <1>7, <1>8, <1>9 DEF Changed

\* A transaction that moves one wallet.
LEMMA PostOne ==
  ASSUME LedgerOK, NEW w \in Wallets, NEW delta \in Int, NEW lock \in Int, NEW ref \in Refs,
         Post(Moves(w, delta, lock, ref)), rowLock' \in [Wallets -> Workers \cup {NoCall}]
  PROVE  /\ LedgerOK' /\ Records({ref[1]}) /\ RecordsOne(w, ref, delta)
         /\ Changed(w, delta, lock, ref)
         /\ \A v \in Wallets : v # w => Left(v)
<1>1. PICK m, moves : /\ m = Move(delta, lock, ref)
                      /\ moves = Moves(w, delta, lock, ref)
  OBVIOUS
<1>2. DOMAIN moves = {w} /\ moves[w] = m
  BY <1>1 DEF Moves, Move
<1>3. /\ Committed(w, Move(delta, lock, ref))
      /\ \A v \in Wallets : v # w => Left(v)
  BY <1>1, <1>2 DEF Post, Commit, Left, Committed
<1>4. wallets' = [v \in Wallets |-> wallets'[v]] /\ ledger' = [v \in Wallets |-> ledger'[v]]
  BY <1>1 DEF Post, Commit
<1>5. /\ Changed(w, delta, lock, ref)
      /\ wallets'[w] \in Wallet /\ ledger'[w] \in Seq(Entries)
      /\ Trail(w, ledger'[w], wallets'[w].balance)
      /\ Len(ledger[w]) + 1 \notin DOMAIN ledger[w]
      /\ \A i \in DOMAIN ledger[w] : i \in DOMAIN ledger'[w] /\ ledger'[w][i] = ledger[w][i]
      /\ \A i \in DOMAIN ledger'[w] : i \in DOMAIN ledger[w] \/ ledger'[w][i].ref = ref
      /\ ledger'[w][Len(ledger[w]) + 1].after - ledger'[w][Len(ledger[w]) + 1].before = delta
  BY <1>1, <1>3, MoveKeeps
<1>6. \A v \in Wallets : /\ wallets'[v] \in Wallet /\ ledger'[v] \in Seq(Entries)
                         /\ Trail(v, ledger'[v], wallets'[v].balance)
  BY <1>3, <1>5, AuditTrailIs DEF LedgerOK, Left
<1>7. LedgerOK'
  BY <1>4, <1>6, AuditTrailIs DEF LedgerOK, Wallets
<1>8. ASSUME NEW r
      PROVE  EntriesOf(w, r)' = EntriesOf(w, r) \cup
                                (IF r = ref THEN {Len(ledger[w]) + 1} ELSE {})
  <2>1. PICK log, t, n : log = ledger[w] /\ t = ledger'[w] /\ n = Len(ledger[w]) + 1
    OBVIOUS
  <2>2. EntriesOf(w, r)' = {i \in DOMAIN t : t[i].ref = r}
    BY <2>1 DEF EntriesOf
  <2>3. EntriesOf(w, r) = {i \in DOMAIN log : log[i].ref = r}
    BY <2>1 DEF EntriesOf
  <2>4. DOMAIN t = DOMAIN log \cup {n} /\ t[n].ref = ref
    BY <1>5, <2>1 DEF Changed
  <2> QED BY <1>5, <2>1, <2>2, <2>3, <2>4
<1>9. Records({ref[1]}) /\ RecordsOne(w, ref, delta)
  BY <1>3, <1>5, <1>8 DEF Records, RecordsOne, Left
<1> QED BY <1>3, <1>5, <1>7, <1>9

\* A transfer moves two.
LEMMA PostTwo ==
  ASSUME LedgerOK, NEW w \in Wallets, NEW v \in Wallets, v # w, NEW amount \in Int,
         NEW ref \in Refs,
         Post(MovesBetween(w, v, amount, ref)),
         rowLock' \in [Wallets -> Workers \cup {NoCall}]
  PROVE  /\ LedgerOK' /\ Records({ref[1]})
         /\ Changed(w, -amount, 0, ref) /\ Changed(v, amount, 0, ref)
         /\ \A u \in Wallets : u \notin {v, w} => Left(u)
<1>1. PICK m, n, moves :
        /\ m = Move(-amount, 0, ref)
        /\ n = Move(amount, 0, ref)
        /\ moves = MovesBetween(w, v, amount, ref)
  OBVIOUS
<1>3. DOMAIN moves = {w, v} /\ moves[w] = m /\ moves[v] = n
  BY <1>1 DEF MovesBetween, Move
<1>4. /\ Committed(w, Move(-amount, 0, ref)) /\ Committed(v, Move(amount, 0, ref))
      /\ \A u \in Wallets : u \notin {v, w} => Left(u)
  BY <1>1, <1>3 DEF Post, Commit, Left, Committed
<1>5. wallets' = [u \in Wallets |-> wallets'[u]] /\ ledger' = [u \in Wallets |-> ledger'[u]]
  BY <1>1 DEF Post, Commit
<1>6. /\ Changed(w, -amount, 0, ref)
      /\ wallets'[w] \in Wallet /\ ledger'[w] \in Seq(Entries)
      /\ Trail(w, ledger'[w], wallets'[w].balance)
      /\ \A i \in DOMAIN ledger[w] : i \in DOMAIN ledger'[w] /\ ledger'[w][i] = ledger[w][i]
      /\ \A i \in DOMAIN ledger'[w] : i \in DOMAIN ledger[w] \/ ledger'[w][i].ref = ref
  <2>1. -amount \in Int /\ 0 \in Int
    OBVIOUS
  <2> QED BY <1>1, <1>4, <2>1, MoveKeeps
<1>7. /\ Changed(v, amount, 0, ref)
      /\ wallets'[v] \in Wallet /\ ledger'[v] \in Seq(Entries)
      /\ Trail(v, ledger'[v], wallets'[v].balance)
      /\ \A i \in DOMAIN ledger[v] : i \in DOMAIN ledger'[v] /\ ledger'[v][i] = ledger[v][i]
      /\ \A i \in DOMAIN ledger'[v] : i \in DOMAIN ledger[v] \/ ledger'[v][i].ref = ref
  <2>1. 0 \in Int /\ Committed(v, Move(amount, 0, ref))
    BY <1>4
  <2> QED BY <2>1, MoveKeeps
<1>8. \A u \in Wallets : /\ wallets'[u] \in Wallet /\ ledger'[u] \in Seq(Entries)
                         /\ Trail(u, ledger'[u], wallets'[u].balance)
  BY <1>4, <1>6, <1>7, AuditTrailIs DEF LedgerOK, Left
<1>9. LedgerOK'
  BY <1>5, <1>8, AuditTrailIs DEF LedgerOK, Wallets
<1>10. Records({ref[1]})
  BY <1>4, <1>6, <1>7 DEF Records, Left
<1> QED BY <1>4, <1>6, <1>7, <1>9, <1>10

\* A trade moves several.
LEMMA PostAll ==
  ASSUME LedgerOK, NEW moves, DOMAIN moves \subseteq Wallets, NEW ref \in Refs,
         \A w \in DOMAIN moves : /\ moves[w].delta \in Int /\ moves[w].lock \in Int
                                /\ moves[w] = Move(moves[w].delta, moves[w].lock, ref),
         Post(moves), rowLock' \in [Wallets -> Workers \cup {NoCall}]
  PROVE  /\ LedgerOK' /\ Records({ref[1]})
         /\ \A w \in DOMAIN moves : Changed(w, moves[w].delta, moves[w].lock, ref)
         /\ \A w \in Wallets : w \notin DOMAIN moves => Left(w)
<1>1. /\ \A w \in DOMAIN moves : Committed(w, moves[w])
      /\ \A w \in Wallets : w \notin DOMAIN moves => Left(w)
  BY DEF Post, Commit, Left, Committed
<1>2. wallets' = [u \in Wallets |-> wallets'[u]] /\ ledger' = [u \in Wallets |-> ledger'[u]]
  BY DEF Post, Commit
<1>3. \A w \in DOMAIN moves :
         /\ Changed(w, moves[w].delta, moves[w].lock, ref)
         /\ wallets'[w] \in Wallet /\ ledger'[w] \in Seq(Entries)
         /\ Trail(w, ledger'[w], wallets'[w].balance)
         /\ \A i \in DOMAIN ledger[w] : i \in DOMAIN ledger'[w] /\ ledger'[w][i] = ledger[w][i]
         /\ \A i \in DOMAIN ledger'[w] : i \in DOMAIN ledger[w] \/ ledger'[w][i].ref = ref
  <2> SUFFICES ASSUME NEW w \in DOMAIN moves
               PROVE  /\ Changed(w, moves[w].delta, moves[w].lock, ref)
                      /\ wallets'[w] \in Wallet /\ ledger'[w] \in Seq(Entries)
                      /\ Trail(w, ledger'[w], wallets'[w].balance)
                      /\ \A i \in DOMAIN ledger[w] :
                            i \in DOMAIN ledger'[w] /\ ledger'[w][i] = ledger[w][i]
                      /\ \A i \in DOMAIN ledger'[w] :
                            i \in DOMAIN ledger[w] \/ ledger'[w][i].ref = ref
    OBVIOUS
  <2>1. w \in Wallets
    OBVIOUS
  <2>2. PICK delta \in Int, lock \in Int :
           /\ delta = moves[w].delta /\ lock = moves[w].lock
           /\ Committed(w, Move(delta, lock, ref))
    BY <1>1
  <2> QED BY <2>1, <2>2, MoveKeeps
<1>4. \A u \in Wallets : /\ wallets'[u] \in Wallet /\ ledger'[u] \in Seq(Entries)
                         /\ Trail(u, ledger'[u], wallets'[u].balance)
  BY <1>1, <1>3, AuditTrailIs DEF LedgerOK, Left
<1>5. LedgerOK'
  BY <1>2, <1>4, AuditTrailIs DEF LedgerOK, Wallets
<1>6. Records({ref[1]})
  BY <1>1, <1>3 DEF Records, Left
<1> QED BY <1>1, <1>3, <1>5, <1>6

\* No balance moves and nothing is recorded.
LEMMA NothingRecorded ==
  ASSUME LedgerOK, wallets' \in [Wallets -> Wallet], ledger' = ledger,
         \A w \in Wallets : wallets'[w].balance = wallets[w].balance,
         rowLock' \in [Wallets -> Workers \cup {NoCall}]
  PROVE  LedgerOK' /\ Records({})
<1>1. \A w \in Wallets : Trail(w, ledger'[w], wallets'[w].balance)
  BY AuditTrailIs DEF LedgerOK
<1>2. AuditTrail'
  BY <1>1, AuditTrailIs
<1> QED BY <1>2 DEF LedgerOK, Records

LEMMA WalletMade ==
  ASSUME LedgerOK, NEW w \in Wallets, MakeWallet(w), rowLock' = rowLock
  PROVE  /\ LedgerOK' /\ Records({})
         /\ \A v \in Wallets : /\ wallets'[v].balance = wallets[v].balance
                               /\ wallets'[v].locked = wallets[v].locked
<1>1. PICK r : r = wallets[w]
  OBVIOUS
<1>2. /\ [r EXCEPT !.made = TRUE] \in Wallet
      /\ [r EXCEPT !.made = TRUE].balance = r.balance
      /\ [r EXCEPT !.made = TRUE].locked = r.locked
  BY <1>1 DEF LedgerOK, Wallet
<1>3. wallets' = [wallets EXCEPT ![w] = [r EXCEPT !.made = TRUE]] /\ ledger' = ledger
  BY <1>1 DEF MakeWallet
<1> QED BY <1>1, <1>2, <1>3, NothingRecorded DEF LedgerOK

LEMMA LockMoved ==
  ASSUME LedgerOK, NEW w \in Wallets, NEW lock \in Int, Relock(w, lock), rowLock' = rowLock
  PROVE  /\ LedgerOK' /\ Records({})
         /\ wallets'[w].locked = wallets[w].locked + lock
         /\ \A v \in Wallets : /\ wallets'[v].balance = wallets[v].balance
                               /\ v # w => wallets'[v].locked = wallets[v].locked
<1>1. PICK r, locked : r = wallets[w] /\ locked = wallets[w].locked + lock
  OBVIOUS
<1>2. /\ r \in Wallet /\ locked \in Int
  BY <1>1 DEF LedgerOK, Wallet
<1>3. /\ [r EXCEPT !.locked = locked] \in Wallet
      /\ [r EXCEPT !.locked = locked].balance = r.balance
      /\ [r EXCEPT !.locked = locked].locked = locked
  BY <1>2 DEF Wallet
<1>4. wallets' = [wallets EXCEPT ![w] = [r EXCEPT !.locked = locked]] /\ ledger' = ledger
  BY <1>1 DEF Relock
<1> QED BY <1>1, <1>3, <1>4, NothingRecorded DEF LedgerOK

LEMMA MoneyKept ==
  ASSUME LedgerOK, UNCHANGED <<wallets, ledger>>, rowLock' \in [Wallets -> Workers \cup {NoCall}]
  PROVE  LedgerOK' /\ Records({}) /\ \A v \in Wallets : Left(v)
BY NothingRecorded DEF LedgerOK, Left

-----------------------------------------------------------------------------
\* The invariant.

DepositOps == {"session", "intent", "confirm"}
WithdrawalOps == {"withdraw", "approve", "reject", "credit", "debit"}
CryptoOps == {"address", "webhook", "transfer", "send"}
MarketOps == {"ad", "status", "order"}

Openers == {"session", "intent"}
AdRows == [status : AdStatuses, type : {"buy", "sell"}, maker : Users,
           price : Prices, remaining : Nat]
IsRef(on, kind, ids) == on = <<kind, on[2]>> /\ on[2] \in ids
Fiat(mem) == mem.wallet \in Wallets /\ mem.amount \in Amounts

\* What a call of operation op is about and remembers at pc.
DepositTyped(op, pc, on, mem) ==
    /\ op \in DepositOps => IsRef(on, "deposit", DepositIds)
    /\ op \in Openers => pc \in {"wallet", "open", "save"} /\ Fiat(mem)
    /\ op = "confirm" => pc \in {"ask", "read", "credit"}
WithdrawalTyped(op, pc, on, mem) ==
    /\ op \in {"withdraw", "approve", "reject"} => IsRef(on, "withdrawal", WithdrawalIds)
    /\ op = "withdraw" => pc \in {"reserve", "payout", "settle", "release"} /\ Fiat(mem)
    /\ op = "approve" => pc \in {"payout", "settle"}
    /\ op = "reject" => pc = "release"
    /\ op \in {"credit", "debit"} => pc = op /\ on = AdminRef /\ Fiat(mem)
CryptoTyped(op, pc, on, mem) ==
    /\ op = "address" =>
          /\ pc \in {"derive", "save"}
          /\ pc = "derive" => mem \in Wallets /\ on = ChainRef(ChainFor(CurrencyOf(mem)))
          /\ pc = "save" => /\ mem.wallet \in Wallets /\ mem.address # NoAddress
                            /\ mem.address \in [chain : Chains, index : Nat]
                            /\ on = ChainRef(mem.address.chain)
    /\ op = "webhook" =>
          /\ IsRef(on, "tx", TxIds) /\ pc \in {"seen", "find", "credit"}
          /\ pc # "credit" => mem \in Wallets
          /\ pc = "credit" => mem.wallet \in Wallets
    /\ op = "transfer" =>
          /\ on = TransferRef /\ pc \in {"first", "second"} /\ mem.amount \in Amounts
          /\ mem.from \in Wallets /\ mem.to \in Wallets /\ mem.from # mem.to
          /\ mem.row \in Wallet
          /\ mem = [from |-> mem.from, to |-> mem.to, amount |-> mem.amount, row |-> mem.row]
    /\ op = "send" => IsRef(on, "send", SendIds) /\ pc \in {"debit", "provider"} /\ Fiat(mem)
Sold(m) == m.ad \in AdRows /\ m.ad.maker # m.taker /\ m.amount <= m.ad.remaining
MarketTyped(op, pc, on, mem) ==
    /\ op \in MarketOps => IsRef(on, "ad", AdIds)
    /\ op = "ad" => pc \in {"debit", "insert", "undo"} /\ mem \in AdRows
    /\ op = "status" => pc \in {"look", "write", "refund"} /\ (pc = "refund" => mem \in AdRows)
    /\ op = "order" =>
          /\ pc \in {"look", "debit", "taker", "maker", "update", "insert"}
          /\ mem = [id |-> mem.id, ad |-> mem.ad, taker |-> mem.taker, amount |-> mem.amount]
          /\ mem.id \in OrderIds /\ mem.taker \in Users /\ mem.amount \in Amounts
          /\ pc # "look" => Sold(mem)
CallTyped(op, pc, on, mem) ==
    /\ op = "idle" => on = Nothing
    /\ DepositTyped(op, pc, on, mem) /\ WithdrawalTyped(op, pc, on, mem)
    /\ CryptoTyped(op, pc, on, mem) /\ MarketTyped(op, pc, on, mem)

CallsOK ==
    /\ Shape /\ work \in Workloads /\ faults \in 0..MaxFaults
    /\ \A c \in Workers : /\ calls[c].op \in DOMAIN work \cup {"idle"}
                          /\ CallTyped(calls[c].op, calls[c].pc, calls[c].on, calls[c].mem)

\* Things two calls work on at once are known to have been raced for.
RacesOK ==
    \A c, d \in Workers :
        c # d /\ calls[c].on = calls[d].on /\ calls[c].on # Nothing => calls[c].on \in raced

\* A call that opens a deposit is the only one on it; a confirmation that has
\* found the deposit pending still does, if it is alone.
DepositRow(d) ==
    /\ deposits[d] # NoDeposit => provider[d] # "unknown"
    /\ provider[d] = "paid" \/ d \in handed => deposits[d] # NoDeposit
    /\ deposits[d].status = "completed" <=> Recorded(DepositRef(d))
    /\ Recorded(DepositRef(d)) => provider[d] = "paid"
    /\ DepositRef(d) \notin raced => ~RecordedTwice(DepositRef(d))
DepositCall(c) ==
    /\ calls[c].op \in Openers =>
          /\ deposits[TheDeposit(c)] = NoDeposit
          /\ provider[TheDeposit(c)] = IF calls[c].pc = "save" THEN calls[c].op ELSE "unknown"
    /\ calls[c].op = "confirm" =>
          /\ deposits[TheDeposit(c)] # NoDeposit
          /\ calls[c].pc # "ask" => provider[TheDeposit(c)] = "paid"
          /\ calls[c].pc = "credit" /\ calls[c].on \notin raced => Pending(TheDeposit(c))
OpenersDiffer ==
    \A b, c \in Workers :
        b # c /\ calls[b].op \in Openers /\ calls[c].op \in Openers => calls[b].on # calls[c].on
DepositOK ==
    /\ DepositsTypeOK /\ OpenersDiffer
    /\ \A d \in DepositIds : DepositRow(d)
    /\ \A c \in Workers : DepositCall(c)

\* Every payout that was answered with success and is not yet settled has its
\* call, and one that was settled its row.
Settling(x) ==
    {c \in Workers : calls[c].op \in {"withdraw", "approve"} /\ calls[c].pc = "settle"
                     /\ calls[c].on = WithdrawalRef(x)}
Answered(x) == paid[x] - lost[x]
WithdrawalRow(x) ==
    /\ \A w \in Wallets :
          Cardinality(EntriesOf(w, WithdrawalRef(x))) + Cardinality(Settling(x)) <= Answered(x)
    /\ Undisturbed(WithdrawalRef(x)) =>
          /\ Answered(x) = IF withdrawals[x].status = "completed" \/ Settling(x) # {} THEN 1 ELSE 0
          /\ \A w \in Wallets :
                Cardinality(EntriesOf(w, WithdrawalRef(x))) =
                    IF withdrawals[x].status = "completed" /\ withdrawals[x].wallet = w
                    THEN 1 ELSE 0
WithdrawalCall(c) ==
    /\ At(c, "withdraw", "reserve") => withdrawals[TheWithdrawal(c)] = NoWithdrawal
    /\ calls[c].op \in {"withdraw", "approve", "reject"} /\ calls[c].pc # "reserve" =>
          /\ withdrawals[TheWithdrawal(c)] # NoWithdrawal
          /\ calls[c].on \notin raced => withdrawals[TheWithdrawal(c)].status = "pending"
ReserversDiffer ==
    \A b, c \in Workers :
        b # c /\ At(b, "withdraw", "reserve") /\ At(c, "withdraw", "reserve") =>
            calls[b].on # calls[c].on
OnePending ==
    \A x, y \in WithdrawalIds :
        /\ withdrawals[x].status = "pending" /\ withdrawals[y].status = "pending"
        /\ withdrawals[x].wallet = withdrawals[y].wallet
        => x = y
WithdrawalOK ==
    /\ WithdrawalsTypeOK /\ ReserversDiffer /\ OnePending
    /\ \A x \in WithdrawalIds : WithdrawalRow(x)
    /\ \A c \in Workers : WithdrawalCall(c)

\* What a wallet has locked, where LocksArePending says what: what the order
\* service holds and the amount of its one pending withdrawal, if it has one.
Alone(w) ==
    \A x \in WithdrawalIds : withdrawals[x].wallet = w => WithdrawalRef(x) \notin raced
LockRight(w) ==
    /\ PendingOn(w) = {} => wallets[w].locked = held[w]
    /\ \A x \in PendingOn(w) : wallets[w].locked = withdrawals[x].amount + held[w]
    /\ MarketTook(w) \/ wallets[w].locked <= wallets[w].balance
LocksOK == \A w \in Wallets : Alone(w) /\ w \notin excess => LockRight(w)

CryptoCall(c) ==
    /\ At(c, "address", "save") /\ calls[c].on \notin raced =>
          \/ calls[c].mem.address.chain = "solana"
          \/ \A v \in Wallets : addresses[v].chain = calls[c].mem.address.chain =>
                addresses[v].index < calls[c].mem.address.index
    /\ calls[c].op = "webhook" =>
          LET t == calls[c].on[2]
              w == IF calls[c].pc = "credit" THEN calls[c].mem.wallet ELSE calls[c].mem IN
          /\ onchain[t] # NoTx /\ addresses[w] = onchain[t].to
          /\ calls[c].pc # "seen" /\ calls[c].on \notin raced => ~Recorded(calls[c].on)
    /\ calls[c].op = "send" =>
          /\ sent[calls[c].on[2]] = 0
          /\ calls[c].pc = "provider" <=> Recorded(calls[c].on)
\* A transfer that has read its first row holds it, and the copy is good.
CopyOK(c) ==
    At(c, "transfer", "second") =>
        LET w == LowFirst(calls[c].mem)[1] IN
        /\ rowLock[w] = c
        /\ calls[c].mem.row.balance = wallets[w].balance
        /\ calls[c].mem.row.locked = wallets[w].locked
CopiesOK == \A c \in Workers : CopyOK(c)
SendersDiffer ==
    \A b, c \in Workers :
        b # c /\ calls[b].op = "send" /\ calls[c].op = "send" => calls[b].on # calls[c].on
TxRow(t) ==
    /\ onchain[t] # NoTx => onchain[t].to # NoAddress
    /\ Recorded(TxRef(t)) => onchain[t] # NoTx
    /\ TxRef(t) \notin raced => ~RecordedTwice(TxRef(t))
    /\ \A w \in Wallets : EntriesOf(w, TxRef(t)) # {} => addresses[w] = onchain[t].to
SendRow(x) ==
    /\ sent[x] > 0 => Recorded(SendRef(x))
    /\ ~RecordedTwice(SendRef(x))
CryptoOK ==
    /\ CryptoTypeOK /\ SendersDiffer /\ AddressesDiffer
    /\ \A t \in TxIds : TxRow(t)
    /\ \A x \in SendIds : SendRow(x)
    /\ \A c \in Workers : CryptoCall(c)

\* What an advertisement keeps of what it was made with, and the moves of an
\* order's swap that were made.
SameDeal(ad, row) == ad.type = row.type /\ ad.maker = row.maker /\ ad.price = row.price
Gave(m) == WasMoved(TakerGives(m), OrderRef(m.id), -Given(m))
Got(m) == WasMoved(TakerGets(m), OrderRef(m.id), Gotten(m))
MakerGot(m) == WasMoved(MakerGets(m), OrderRef(m.id), Given(m))
OrderCall(pc, a, m) ==
    /\ pc # "look" => ads[a] # NoAd /\ SameDeal(m.ad, ads[a])
    /\ pc \in {"taker", "maker", "update", "insert"} => Gave(m)
    /\ pc \in {"maker", "update", "insert"} => Got(m)
    /\ pc \in {"update", "insert"} => MakerGot(m)
MarketCall(c) ==
    /\ calls[c].op = "ad" =>
          /\ ads[TheAd(c)] = NoAd
          /\ ~RecordedTwice(AdRef(TheAd(c)))
          /\ calls[c].pc # "debit" <=> Recorded(AdRef(TheAd(c)))
    /\ calls[c].op = "status" => ads[TheAd(c)] # NoAd
    /\ calls[c].op = "order" => OrderCall(calls[c].pc, TheAd(c), calls[c].mem)
MakersDiffer ==
    \A b, c \in Workers :
        b # c /\ calls[b].op = "ad" /\ calls[c].op = "ad" => calls[b].on # calls[c].on
AdRow(a) == ads[a] # NoAd => Recorded(AdRef(a)) /\ ~RecordedTwice(AdRef(a))
OrderPaid(o, order, ad) ==
    /\ WasMoved(<<order.taker, Base>>, OrderRef(o),
                IF ad.type = "buy" THEN -order.amount ELSE order.amount)
    /\ WasMoved(<<order.taker, Quote>>, OrderRef(o),
                IF ad.type = "buy" THEN order.total ELSE -order.total)
    /\ IF ad.type = "buy" THEN WasMoved(<<ad.maker, Base>>, OrderRef(o), order.amount)
                          ELSE WasMoved(<<ad.maker, Quote>>, OrderRef(o), order.total)
OrderRow(o) ==
    p2pOrders[o] # NoOrder =>
        /\ ads[p2pOrders[o].ad] # NoAd
        /\ OrderPaid(o, p2pOrders[o], ads[p2pOrders[o].ad])
MarketOK ==
    /\ P2PTypeOK /\ MakersDiffer
    /\ \A a \in AdIds : AdRow(a)
    /\ \A o \in OrderIds : OrderRow(o)
    /\ \A c \in Workers : MarketCall(c)

Inv ==
    /\ CallsOK /\ LedgerOK /\ RacesOK
    /\ DepositOK /\ WithdrawalOK /\ CryptoOK /\ MarketOK
    /\ TradingTypeOK /\ LocksOK /\ CopiesOK

-----------------------------------------------------------------------------
\* What a step may do to the calls and to what is recorded.

LEMMA CallTurns ==
  ASSUME CallsOK, work' = work, faults' \in 0..MaxFaults,
         NEW c \in Workers, NEW op, NEW pc, NEW on, NEW mem,
         Turns(c, op, pc, on, mem),
         op \in DOMAIN work \cup {"idle"}, CallTyped(op, pc, on, mem)
  PROVE  CallsOK'
<1>1. \A d \in Workers : d # c => calls'[d] = calls[d]
  BY DEF Turns
<1>2. /\ calls'[c].op = op /\ calls'[c].pc = pc /\ calls'[c].on = on /\ calls'[c].mem = mem
      /\ Shape'
  BY DEF Turns
<1>3. \A d \in Workers :
         /\ calls'[d].op \in DOMAIN work \cup {"idle"}
         /\ CallTyped(calls'[d].op, calls'[d].pc, calls'[d].on, calls'[d].mem)
  BY <1>1, <1>2 DEF CallsOK
<1> QED BY <1>2, <1>3 DEF CallsOK

\* Calls of operations ops stay as they are, or are cut off.
Spares(ops) ==
    \A c \in Workers :
        \/ calls'[c] = calls[c]
        \/ calls'[c].op \notin ops /\ (calls[c].op \in ops => calls[c].on \in hurt')

LEMMA TurnsSpare ==
  ASSUME NEW c \in Workers, NEW op, NEW pc, NEW on, NEW mem, Turns(c, op, pc, on, mem),
         NEW ops, op \notin ops, calls[c].op \notin ops
  PROVE  Spares(ops)
BY DEF Turns, Spares

\* History only grows.
Grows == raced \subseteq raced' /\ hurt \subseteq hurt'

LEMMA RecordsKeep ==
  ASSUME NEW kinds, Records(kinds), NEW ref
  PROVE  /\ \A w \in Wallets : \A i \in EntriesOf(w, ref) :
               i \in EntriesOf(w, ref)' /\ ledger'[w][i] = ledger[w][i]
         /\ Recorded(ref) => Recorded(ref)'
         /\ \A w \in Wallets : \A delta : WasMoved(w, ref, delta) => WasMoved(w, ref, delta)'
         /\ ref[1] \notin kinds =>
               /\ \A w \in Wallets : EntriesOf(w, ref)' = EntriesOf(w, ref)
               /\ Recorded(ref)' <=> Recorded(ref)
               /\ RecordedTwice(ref)' <=> RecordedTwice(ref)
<1>1. \A w \in Wallets : \A i \in EntriesOf(w, ref) :
         i \in EntriesOf(w, ref)' /\ ledger'[w][i] = ledger[w][i]
  BY DEF Records, EntriesOf
<1>2. Recorded(ref) => Recorded(ref)'
  BY <1>1 DEF Recorded
<1>3. \A w \in Wallets : \A delta : WasMoved(w, ref, delta) => WasMoved(w, ref, delta)'
  BY <1>1 DEF WasMoved
<1>4. ASSUME ref[1] \notin kinds
      PROVE  /\ \A w \in Wallets : EntriesOf(w, ref)' = EntriesOf(w, ref)
             /\ Recorded(ref)' <=> Recorded(ref)
             /\ RecordedTwice(ref)' <=> RecordedTwice(ref)
  <2>1. \A w \in Wallets : EntriesOf(w, ref)' \subseteq EntriesOf(w, ref)
    BY <1>4 DEF Records, EntriesOf
  <2>2. \A w \in Wallets : EntriesOf(w, ref)' = EntriesOf(w, ref)
    BY <1>1, <2>1
  <2>3. Recorded(ref)' <=> Recorded(ref)
    BY <2>2 DEF Recorded
  <2>4. RecordedTwice(ref)' <=> RecordedTwice(ref)
    BY <2>2 DEF RecordedTwice
  <2> QED BY <2>2, <2>3, <2>4
<1> QED BY <1>1, <1>2, <1>3, <1>4

LEMMA OneRecorded ==
  ASSUME LedgerOK, NEW w \in Wallets, NEW ref, NEW delta, RecordsOne(w, ref, delta)
  PROVE  /\ Recorded(ref)'
         /\ RecordedTwice(ref)' => Recorded(ref)
         /\ WasMoved(w, ref, delta)'
         /\ \A v \in Wallets : v # w => EntriesOf(v, ref)' = EntriesOf(v, ref)
         /\ Cardinality(EntriesOf(w, ref)) \in Nat
         /\ Cardinality(EntriesOf(w, ref))' = Cardinality(EntriesOf(w, ref)) + 1
<1>1. PICK n : n = Len(ledger[w]) + 1
  OBVIOUS
<1>2. /\ n \notin DOMAIN ledger[w]
      /\ EntriesOf(w, ref)' = EntriesOf(w, ref) \cup {n}
      /\ ledger'[w][n].after - ledger'[w][n].before = delta
  BY <1>1 DEF RecordsOne
<1>3. n \notin EntriesOf(w, ref)
  BY <1>2 DEF EntriesOf
<1>4. \A v \in Wallets : v # w => EntriesOf(v, ref)' = EntriesOf(v, ref)
  BY DEF RecordsOne, EntriesOf
<1>5. IsFiniteSet(EntriesOf(w, ref))
  <2>1. ledger[w] \in Seq(Entries)
    BY DEF LedgerOK
  <2>2. DOMAIN ledger[w] = 1..Len(ledger[w]) /\ Len(ledger[w]) \in Nat
    BY <2>1, LenProperties
  <2>3. IsFiniteSet(1..Len(ledger[w]))
    BY <2>2, FS_Interval
  <2>4. EntriesOf(w, ref) \subseteq 1..Len(ledger[w])
    BY <2>2 DEF EntriesOf
  <2> QED BY <2>3, <2>4, FS_Subset
<1>6. PICK S : S = EntriesOf(w, ref)
  OBVIOUS
<1>7. /\ Cardinality(S) \in Nat
      /\ Cardinality(S \cup {n}) = Cardinality(S) + 1
  BY <1>3, <1>5, <1>6, FS_CardinalityType, FS_AddElement
<1>8. Cardinality(EntriesOf(w, ref))' = Cardinality(S \cup {n})
  BY <1>2, <1>6
<1>9. Recorded(ref)' /\ WasMoved(w, ref, delta)'
  BY <1>2 DEF Recorded, WasMoved
<1>10. RecordedTwice(ref)' => Recorded(ref)
  <2> SUFFICES ASSUME NEW u \in Wallets, NEW v \in Wallets,
                      NEW i \in EntriesOf(u, ref)', NEW j \in EntriesOf(v, ref)',
                      <<u, i>> # <<v, j>>
               PROVE  Recorded(ref)
    BY DEF RecordedTwice
  <2>1. <<u, i>> # <<w, n>> \/ <<v, j>> # <<w, n>>
    OBVIOUS
  <2>2. i \in EntriesOf(u, ref) \/ j \in EntriesOf(v, ref)
    BY <1>2, <1>4, <2>1
  <2> QED BY <2>2 DEF Recorded
<1> QED BY <1>4, <1>6, <1>7, <1>8, <1>9, <1>10

LEMMA OthersRecorded ==
  ASSUME NEW w \in Wallets, NEW ref, NEW delta, RecordsOne(w, ref, delta), NEW r, r # ref
  PROVE  /\ \A v \in Wallets : EntriesOf(v, r)' = EntriesOf(v, r)
         /\ Recorded(r)' <=> Recorded(r)
         /\ RecordedTwice(r)' <=> RecordedTwice(r)
<1>1. EntriesOf(w, r)' = EntriesOf(w, r)
  BY DEF RecordsOne
<1>2. \A v \in Wallets : EntriesOf(v, r)' = EntriesOf(v, r)
  BY <1>1 DEF RecordsOne, EntriesOf
<1> QED BY <1>2 DEF Recorded, RecordedTwice

LEMMA NotRecordedNone ==
  ASSUME NEW ref, ~Recorded(ref)
  PROVE  ~RecordedTwice(ref) /\ \A w \in Wallets : EntriesOf(w, ref) = {}
BY DEF Recorded, RecordedTwice

-----------------------------------------------------------------------------
\* Races.

SharedIsOverlapping ==
    \A c, d \in Workers :
        c # d /\ calls[c].on = calls[d].on /\ calls[c].on # Nothing => calls[c].on \in Overlapping

LEMMA Shared == SharedIsOverlapping
BY DEF SharedIsOverlapping, Overlapping

LEMMA RacesAreKnown ==
  ASSUME raced' = raced \cup Overlapping'
  PROVE  RacesOK' /\ raced \subseteq raced'
<1>1. SharedIsOverlapping'
  BY Shared, PTL
<1> QED BY <1>1 DEF SharedIsOverlapping, RacesOK

-----------------------------------------------------------------------------
\* Deposits.

LEMMA DepositKeeps ==
  ASSUME DepositOK, CallsOK, UNCHANGED depositVars, Grows, Spares(DepositOps),
         NEW kinds, Records(kinds), "deposit" \notin kinds
  PROVE  DepositOK'
<1>1. \A d \in DepositIds : /\ Recorded(DepositRef(d))' <=> Recorded(DepositRef(d))
                            /\ RecordedTwice(DepositRef(d))' <=> RecordedTwice(DepositRef(d))
  <2> SUFFICES ASSUME NEW d \in DepositIds
               PROVE  /\ Recorded(DepositRef(d))' <=> Recorded(DepositRef(d))
                      /\ RecordedTwice(DepositRef(d))' <=> RecordedTwice(DepositRef(d))
    OBVIOUS
  <2>1. DepositRef(d)[1] \notin kinds
    BY DEF DepositRef
  <2> QED BY <2>1, RecordsKeep
<1>2. deposits' = deposits /\ provider' = provider /\ handed' = handed
  BY DEF depositVars
<1>3. \A d \in DepositIds : DepositRow(d)'
  BY <1>1, <1>2 DEF DepositOK, DepositRow, Grows
<1>4. \A c \in Workers : calls'[c].op \in DepositOps => calls'[c] = calls[c]
  BY DEF Spares
<1>5. \A c \in Workers : DepositCall(c)'
  BY <1>2, <1>4 DEF DepositOK, DepositCall, TheDeposit, Pending, DepositOps, Openers, Grows
<1>6. OpenersDiffer'
  BY <1>4 DEF DepositOK, OpenersDiffer, DepositOps, Openers
<1>7. DepositsTypeOK'
  BY <1>2 DEF DepositOK, DepositsTypeOK
<1> QED BY <1>3, <1>5, <1>6, <1>7 DEF DepositOK

\* A step of call c that is about deposit d alone.
LEMMA DepositMoves ==
  ASSUME DepositOK, CallsOK, Grows, NEW c \in Workers, NEW d \in DepositIds,
         NEW op, NEW pc, NEW on, NEW mem, Turns(c, op, pc, on, mem),
         DepositsTypeOK', DepositRow(d)', DepositCall(c)',
         \A e \in DepositIds : e # d => /\ deposits'[e] = deposits[e]
                                        /\ provider'[e] = provider[e]
                                        /\ e \in handed' <=> e \in handed,
         \A e \in DepositIds : e # d =>
             /\ Recorded(DepositRef(e))' <=> Recorded(DepositRef(e))
             /\ RecordedTwice(DepositRef(e))' <=> RecordedTwice(DepositRef(e)),
         \A b \in Workers : b # c /\ calls[b].op \in DepositOps /\ TheDeposit(b) = d =>
             DepositCall(b)',
         op \in Openers => \/ calls[c].op = op /\ calls[c].on = on
                           \/ \A b \in Workers : calls[b].on # on
  PROVE  DepositOK'
<1>1. /\ \A b \in Workers : b # c => calls'[b] = calls[b]
      /\ calls'[c].op = op /\ calls'[c].on = on
  BY DEF Turns
<1>2. \A e \in DepositIds : DepositRow(e)'
  BY DEF DepositOK, DepositRow, Grows
<1>3. ASSUME NEW b \in Workers, b # c PROVE DepositCall(b)'
  <2>1. CASE calls[b].op \in DepositOps /\ TheDeposit(b) # d
    <3>1. TheDeposit(b) \in DepositIds
      BY <2>1 DEF CallsOK, CallTyped, DepositTyped, IsRef, TheDeposit
    <3> QED BY <1>1, <1>3, <2>1, <3>1
          DEF DepositOK, DepositCall, TheDeposit, Pending, DepositOps, Openers, Grows
  <2>2. CASE calls[b].op \notin DepositOps
    BY <1>1, <1>3, <2>2 DEF DepositCall, DepositOps, Openers
  <2> QED BY <1>3, <2>1, <2>2
<1>4. OpenersDiffer'
  BY <1>1 DEF DepositOK, OpenersDiffer
<1> QED BY <1>2, <1>3, <1>4 DEF DepositOK

\* A call that works on a deposit and does nothing to it.
LEMMA DepositCallTurns ==
  ASSUME DepositOK, CallsOK, Grows, UNCHANGED depositVars, NEW kinds, Records(kinds),
         "deposit" \notin kinds, NEW c \in Workers,
         NEW op, NEW pc, NEW on, NEW mem, Turns(c, op, pc, on, mem), DepositCall(c)',
         op \in Openers => \/ calls[c].op = op /\ calls[c].on = on
                           \/ \A b \in Workers : calls[b].on # on
  PROVE  DepositOK'
<1>1. /\ \A b \in Workers : b # c => calls'[b] = calls[b]
      /\ calls'[c].op = op /\ calls'[c].on = on
  BY DEF Turns
<1>2. deposits' = deposits /\ provider' = provider /\ handed' = handed
  BY DEF depositVars
<1>3. \A d \in DepositIds : /\ Recorded(DepositRef(d))' <=> Recorded(DepositRef(d))
                            /\ RecordedTwice(DepositRef(d))' <=> RecordedTwice(DepositRef(d))
  <2> SUFFICES ASSUME NEW d \in DepositIds
               PROVE  /\ Recorded(DepositRef(d))' <=> Recorded(DepositRef(d))
                      /\ RecordedTwice(DepositRef(d))' <=> RecordedTwice(DepositRef(d))
    OBVIOUS
  <2>1. DepositRef(d)[1] \notin kinds
    BY DEF DepositRef
  <2> QED BY <2>1, RecordsKeep
<1>4. \A d \in DepositIds : DepositRow(d)'
  BY <1>2, <1>3 DEF DepositOK, DepositRow, Grows
<1>5. \A b \in Workers : b # c => DepositCall(b)'
  BY <1>1, <1>2 DEF DepositOK, DepositCall, TheDeposit, Pending, Grows
<1>6. OpenersDiffer'
  BY <1>1 DEF DepositOK, OpenersDiffer
<1>7. DepositsTypeOK'
  BY <1>2 DEF DepositOK, DepositsTypeOK
<1> QED BY <1>4, <1>5, <1>6, <1>7 DEF DepositOK

\* Whatever changes, what is locked is kept, and what covers it: a balance that
\* falls still covers what is locked, unless the marketplace took from it.
Covered ==
    \A w \in Wallets :
        /\ wallets'[w].locked = wallets[w].locked
        /\ \/ wallets'[w].balance >= wallets[w].balance
           \/ wallets'[w].locked <= wallets'[w].balance
           \/ MarketTook(w)'

LEMMA MoneyCovered ==
  ASSUME LedgerOK, UNCHANGED money
  PROVE  LedgerOK' /\ Records({}) /\ Covered
<1>1. rowLock' \in [Wallets -> Workers \cup {NoCall}] /\ UNCHANGED <<wallets, ledger>>
  BY DEF LedgerOK, money
<1>2. LedgerOK' /\ Records({})
  BY <1>1, MoneyKept
<1>3. Covered
  BY <1>1 DEF Covered, LedgerOK, Wallet
<1> QED BY <1>2, <1>3

LEMMA RecordsMore ==
  ASSUME NEW kinds, NEW more, kinds \subseteq more, Records(kinds)
  PROVE  Records(more)
BY DEF Records

\* One move that credits a wallet, or takes what is available of it.
LEMMA MoveCovered ==
  ASSUME LedgerOK, NEW w \in Wallets, NEW delta \in Int, NEW ref,
         Changed(w, delta, 0, ref), \A v \in Wallets : v # w => Left(v),
         delta >= 0 \/ Available(w) >= -delta
  PROVE  Covered
<1>1. \A v \in Wallets : wallets[v].balance \in Int /\ wallets[v].locked \in Int
  BY DEF LedgerOK, Wallet
<1>2. \A v \in Wallets : v # w => wallets'[v] = wallets[v]
  BY DEF Left
<1>3. wallets'[w].balance = wallets[w].balance + delta /\ wallets'[w].locked = wallets[w].locked + 0
  BY DEF Changed
<1> QED BY <1>1, <1>2, <1>3 DEF Covered, Available

\* Where a call of the deposits may go.
LEMMA DepositTurn ==
  ASSUME CallsOK, NEW c \in Workers, NEW op, NEW pc, NEW on, NEW mem,
         Turns(c, op, pc, on, mem), UNCHANGED <<work, faults, hurt>>,
         op \in DOMAIN work \cup {"idle"}, {op, calls[c].op} \subseteq DepositOps \cup {"idle"},
         op = "idle" => on = Nothing, DepositTyped(op, pc, on, mem)
  PROVE  /\ CallsOK' /\ hurt' = hurt
         /\ Spares(WithdrawalOps) /\ Spares(CryptoOps) /\ Spares(MarketOps)
<1>1. CallTyped(op, pc, on, mem)
  BY DEF CallTyped, DepositOps, WithdrawalTyped, CryptoTyped, MarketTyped, MarketOps
<1>2. faults' \in 0..MaxFaults
  BY DEF CallsOK
<1>3. CallsOK'
  BY <1>1, <1>2, CallTurns
<1>4. /\ op \notin WithdrawalOps \cup CryptoOps \cup MarketOps
      /\ calls[c].op \notin WithdrawalOps \cup CryptoOps \cup MarketOps
  BY DEF DepositOps, WithdrawalOps, CryptoOps, MarketOps
<1> QED BY <1>3, <1>4, TurnsSpare

\* What every step of the deposits does.
DepositStepped ==
    /\ CallsOK' /\ LedgerOK' /\ DepositOK' /\ Covered /\ Records({"deposit"}) /\ hurt' = hurt
    /\ Spares(WithdrawalOps) /\ Spares(CryptoOps) /\ Spares(MarketOps)

LEMMA DepositOpened ==
  ASSUME CallsOK, LedgerOK, DepositOK, raced \subseteq raced', NEW c \in Workers,
         NEW d \in DepositIds, NEW w \in Wallets, NEW amount \in Amounts,
         InitiateDeposit(c, d, w, amount) \/ CreateDepositIntent(c, d, w, amount)
  PROVE  DepositStepped
<1>1. PICK op, on, mem : /\ op \in Openers /\ on = DepositRef(d)
                         /\ mem = [wallet |-> w, amount |-> amount]
                         /\ Begin(c, op, "wallet", on, mem)
  BY DEF InitiateDeposit, CreateDepositIntent, Openers
<1>2. UNCHANGED money /\ UNCHANGED depositVars /\ NewDeposit(d)
  BY DEF InitiateDeposit, CreateDepositIntent
<1>3. /\ Turns(c, op, "wallet", on, mem) /\ calls[c].op = "idle" /\ op \in DOMAIN work
      /\ UNCHANGED <<work, faults, hurt>>
  BY <1>1, BeginTurns DEF CallsOK
<1>4. on = <<"deposit", d>> /\ on[1] = "deposit" /\ on[2] = d
  BY <1>1 DEF DepositRef
<1>5. DepositTyped(op, "wallet", on, mem)
  BY <1>1, <1>4 DEF DepositTyped, DepositOps, Openers, IsRef, Fiat
<1>6. /\ CallsOK' /\ hurt' = hurt
      /\ Spares(WithdrawalOps) /\ Spares(CryptoOps) /\ Spares(MarketOps)
  BY <1>1, <1>3, <1>5, DepositTurn DEF DepositOps, Openers
<1>7. LedgerOK' /\ Covered /\ Records({}) /\ Records({"deposit"})
  BY <1>2, MoneyCovered, RecordsMore
<1>8. provider[d] = "unknown" /\ deposits[d] = NoDeposit
  BY <1>2 DEF NewDeposit, DepositOK, DepositRow
<1>9. DepositCall(c)'
  BY <1>1, <1>2, <1>3, <1>4, <1>8 DEF Turns, DepositCall, TheDeposit, depositVars, Openers
<1>10. \A b \in Workers : calls[b].on # on
  BY <1>1, <1>2 DEF NewDeposit
<1>11. DepositOK'
  BY <1>2, <1>3, <1>6, <1>7, <1>9, <1>10, DepositCallTurns DEF Grows
<1> QED BY <1>6, <1>7, <1>11 DEF DepositStepped

\* The wallet is found or made, and the payment opened.
LEMMA DepositGoesOn ==
  ASSUME CallsOK, LedgerOK, DepositOK, raced \subseteq raced', NEW c \in Workers,
         OpenWallet(c)
  PROVE  DepositStepped
<1>1. PICK op, on, mem : op = calls[c].op /\ on = calls[c].on /\ mem = calls[c].mem
  OBVIOUS
<1>2. op \in Openers /\ calls[c].pc = "wallet" /\ UNCHANGED depositVars /\ UNCHANGED rowLock
  BY <1>1 DEF OpenWallet, Openers, depositVars
<1>3. /\ IsRef(on, "deposit", DepositIds) /\ Fiat(mem) /\ op \in DOMAIN work
  BY <1>1, <1>2 DEF CallsOK, CallTyped, DepositTyped, Openers, DepositOps
<1>4. Turns(c, op, "open", on, mem) /\ UNCHANGED <<work, faults, hurt>>
  BY <1>1, GotoTurns DEF OpenWallet, CallsOK
<1>5. DepositTyped(op, "open", on, mem)
  BY <1>2, <1>3 DEF DepositTyped, Openers, DepositOps
<1>6. /\ CallsOK' /\ hurt' = hurt
      /\ Spares(WithdrawalOps) /\ Spares(CryptoOps) /\ Spares(MarketOps)
  BY <1>1, <1>2, <1>3, <1>4, <1>5, DepositTurn DEF DepositOps, Openers
<1>7. mem.wallet \in Wallets /\ MakeWallet(mem.wallet)
  BY <1>1, <1>3 DEF OpenWallet, Fiat
<1>8. /\ LedgerOK' /\ Records({})
      /\ \A v \in Wallets : /\ wallets'[v].balance = wallets[v].balance
                            /\ wallets'[v].locked = wallets[v].locked
  BY <1>2, <1>7, WalletMade
<1>9. Records({"deposit"}) /\ Covered
  BY <1>8, RecordsMore DEF Covered, LedgerOK, Wallet
<1>10. DepositCall(c)'
  BY <1>1, <1>2, <1>4 DEF Turns, DepositCall, DepositOK, TheDeposit, depositVars, Openers
<1>11. DepositOK'
  BY <1>1, <1>2, <1>4, <1>6, <1>8, <1>10, DepositCallTurns DEF Grows
<1> QED BY <1>6, <1>8, <1>9, <1>11 DEF DepositStepped

\* A confirmation that goes on, or ends, and changes nothing.
LEMMA DepositLooks ==
  ASSUME CallsOK, LedgerOK, DepositOK, raced \subseteq raced', NEW c \in Workers,
         NEW op, NEW pc, NEW on, NEW mem, Turns(c, op, pc, on, mem),
         UNCHANGED <<work, faults, hurt>>, UNCHANGED money, UNCHANGED depositVars,
         calls[c].op \in {"confirm", "idle"},
         \/ op = "idle" /\ on = Nothing
         \/ /\ op = "confirm" /\ op \in DOMAIN work /\ IsRef(on, "deposit", DepositIds)
            /\ pc \in {"ask", "read", "credit"} /\ deposits[on[2]] # NoDeposit
            /\ pc # "ask" => provider[on[2]] = "paid"
            /\ pc = "credit" => Pending(on[2])
  PROVE  DepositStepped
<1>1. DepositTyped(op, pc, on, mem)
  BY DEF DepositTyped, DepositOps, Openers
<1>2. op = "idle" => on = Nothing
  OBVIOUS
<1>3. /\ CallsOK' /\ hurt' = hurt
      /\ Spares(WithdrawalOps) /\ Spares(CryptoOps) /\ Spares(MarketOps)
  BY <1>1, <1>2, DepositTurn DEF DepositOps
<1>4. LedgerOK' /\ Covered /\ Records({}) /\ Records({"deposit"})
  BY MoneyCovered, RecordsMore
<1>5. DepositCall(c)'
  BY DEF Turns, DepositCall, TheDeposit, depositVars, Openers, Pending
<1>6. op \notin Openers
  BY DEF Openers
<1>7. DepositOK'
  BY <1>3, <1>4, <1>5, <1>6, DepositCallTurns DEF Grows
<1> QED BY <1>3, <1>4, <1>7 DEF DepositStepped

LEMMA ConfirmationStarts ==
  ASSUME CallsOK, LedgerOK, DepositOK, raced \subseteq raced', NEW c \in Workers,
         NEW d \in DepositIds, DepositWebhook(c, d) \/ VerifyDeposit(c, d)
  PROVE  DepositStepped
<1>1. PICK pc, on : /\ on = DepositRef(d) /\ Begin(c, "confirm", pc, on, Nothing)
                    /\ \/ pc = "read" /\ provider[d] = "paid"
                       \/ pc = "ask" /\ Pending(d)
  BY DEF DepositWebhook, VerifyDeposit
<1>2. UNCHANGED money /\ UNCHANGED depositVars
  BY DEF DepositWebhook, VerifyDeposit
<1>3. /\ Turns(c, "confirm", pc, on, Nothing) /\ calls[c].op = "idle" /\ "confirm" \in DOMAIN work
      /\ UNCHANGED <<work, faults, hurt>>
  BY <1>1, BeginTurns DEF CallsOK
<1>4. on = <<"deposit", d>> /\ on[2] = d
  BY <1>1 DEF DepositRef
<1>5. deposits[d] # NoDeposit
  <2>1. NoDeposit.status = "none"
    BY DEF NoDeposit
  <2>2. provider[d] = "paid" => deposits[d] # NoDeposit
    BY DEF DepositOK, DepositRow
  <2> QED BY <1>1, <2>1, <2>2 DEF Pending
<1> QED BY <1>1, <1>2, <1>3, <1>4, <1>5, DepositLooks DEF IsRef

LEMMA ConfirmationGoesOn ==
  ASSUME CallsOK, LedgerOK, DepositOK, raced \subseteq raced', NEW c \in Workers,
         VerifyPayment(c) \/ ReadDeposit(c)
  PROVE  DepositStepped
<1>1. PICK on, mem : on = calls[c].on /\ mem = calls[c].mem
  OBVIOUS
<1>2. /\ calls[c].op = "confirm" /\ UNCHANGED money /\ UNCHANGED depositVars
  BY DEF VerifyPayment, ReadDeposit, At
<1>3. /\ IsRef(on, "deposit", DepositIds) /\ "confirm" \in DOMAIN work
      /\ deposits[on[2]] # NoDeposit
  BY <1>1, <1>2 DEF CallsOK, CallTyped, DepositTyped, DepositOps, DepositOK, DepositCall,
                    TheDeposit
<1>4. CASE Finish(c)
  <2>1. Turns(c, "idle", "idle", Nothing, Nothing) /\ UNCHANGED <<work, faults, hurt>>
    BY <1>4, FinishTurns DEF CallsOK
  <2> QED BY <1>2, <2>1, DepositLooks
<1>5. CASE VerifyPayment(c) /\ Goto(c, "read") /\ provider[on[2]] = "paid"
  <2>1. Turns(c, "confirm", "read", on, mem) /\ UNCHANGED <<work, faults, hurt>>
    BY <1>1, <1>2, <1>5, GotoTurns DEF CallsOK
  <2> QED BY <1>2, <1>3, <1>5, <2>1, DepositLooks
<1>6. CASE ReadDeposit(c) /\ Goto(c, "credit") /\ Pending(on[2])
  <2>1. Turns(c, "confirm", "credit", on, mem) /\ UNCHANGED <<work, faults, hurt>>
    BY <1>1, <1>2, <1>6, GotoTurns DEF CallsOK
  <2>2. provider[on[2]] = "paid"
    BY <1>1, <1>2, <1>6 DEF ReadDeposit, At, DepositOK, DepositCall, TheDeposit
  <2> QED BY <1>2, <1>3, <1>6, <2>1, <2>2, DepositLooks
<1> QED BY <1>1, <1>4, <1>5, <1>6 DEF VerifyPayment, ReadDeposit, TheDeposit

LEMMA PaymentOpened ==
  ASSUME CallsOK, LedgerOK, DepositOK, raced \subseteq raced', NEW c \in Workers,
         OpenPayment(c) \/ SaveDeposit(c)
  PROVE  DepositStepped
<1>1. PICK op, on, mem, d : /\ op = calls[c].op /\ on = calls[c].on /\ mem = calls[c].mem
                            /\ d = calls[c].on[2]
  OBVIOUS
<1>2. op \in Openers /\ UNCHANGED money
  BY <1>1 DEF OpenPayment, SaveDeposit, Openers
<1>3. /\ IsRef(on, "deposit", DepositIds) /\ Fiat(mem) /\ op \in DOMAIN work /\ d \in DepositIds
      /\ on = DepositRef(d)
  BY <1>1, <1>2 DEF CallsOK, CallTyped, DepositTyped, Openers, DepositOps, IsRef, DepositRef
<1>4. deposits[d] = NoDeposit /\ ~Recorded(DepositRef(d)) /\ provider[d] # "paid"
  BY <1>1, <1>2, <1>3 DEF DepositOK, DepositCall, DepositRow, TheDeposit, NoDeposit
<1>5. LedgerOK' /\ Covered /\ Records({}) /\ Records({"deposit"})
  BY <1>2, MoneyCovered, RecordsMore
<1>6. \A e \in DepositIds :
         /\ Recorded(DepositRef(e))' <=> Recorded(DepositRef(e))
         /\ RecordedTwice(DepositRef(e))' <=> RecordedTwice(DepositRef(e))
  <2> SUFFICES ASSUME NEW e \in DepositIds
               PROVE  /\ Recorded(DepositRef(e))' <=> Recorded(DepositRef(e))
                      /\ RecordedTwice(DepositRef(e))' <=> RecordedTwice(DepositRef(e))
    OBVIOUS
  <2>1. DepositRef(e)[1] \notin {}
    OBVIOUS
  <2> QED BY <1>5, <2>1, RecordsKeep
<1>7. \A b \in Workers : b # c /\ calls[b].op \in DepositOps /\ calls[b].on[2] = d => FALSE
  <2> SUFFICES ASSUME NEW b \in Workers, b # c, calls[b].op \in DepositOps, calls[b].on[2] = d
               PROVE  FALSE
    OBVIOUS
  <2>1. calls[b].on = DepositRef(d)
    BY DEF CallsOK, CallTyped, DepositTyped, IsRef, DepositRef
  <2>2. CASE calls[b].op \in Openers
    BY <1>1, <1>2, <1>3, <2>1, <2>2 DEF DepositOK, OpenersDiffer
  <2>3. CASE calls[b].op = "confirm"
    BY <1>4, <2>3 DEF DepositOK, DepositCall, TheDeposit
  <2> QED BY <2>2, <2>3 DEF DepositOps, Openers
<1>8. CASE OpenPayment(c)
  <2>1. /\ provider' = [provider EXCEPT ![d] = op] /\ deposits' = deposits /\ handed' = handed
        /\ Goto(c, "save")
    BY <1>1, <1>8 DEF OpenPayment, TheDeposit
  <2>2. Turns(c, op, "save", on, mem) /\ UNCHANGED <<work, faults, hurt>>
    BY <1>1, <2>1, GotoTurns DEF CallsOK
  <2>3. DepositTyped(op, "save", on, mem)
    BY <1>2, <1>3 DEF DepositTyped, Openers, DepositOps
  <2>4. /\ CallsOK' /\ hurt' = hurt
        /\ Spares(WithdrawalOps) /\ Spares(CryptoOps) /\ Spares(MarketOps)
    BY <1>1, <1>2, <1>3, <2>2, <2>3, DepositTurn DEF DepositOps, Openers
  <2>5. /\ provider'[d] = op /\ \A e \in DepositIds : e # d => provider'[e] = provider[e]
        /\ DepositsTypeOK'
    BY <1>2, <1>3, <2>1 DEF DepositOK, DepositsTypeOK, Openers
  <2>6. DepositRow(d)'
    BY <1>2, <1>3, <1>4, <1>6, <2>1, <2>5 DEF DepositOK, DepositRow, Openers
  <2>7. DepositCall(c)'
    BY <1>1, <1>2, <1>4, <2>1, <2>2, <2>5 DEF Turns, DepositCall, TheDeposit, Openers
  <2>8. DepositOK'
    BY ZenonT(40), <1>1, <1>2, <1>3, <1>6, <1>7, <2>1, <2>2, <2>4, <2>5, <2>6, <2>7, DepositMoves
       DEF Grows, TheDeposit
  <2> QED BY <1>5, <2>4, <2>8 DEF DepositStepped
<1>9. CASE SaveDeposit(c)
  <2>1. PICK row : row = [status |-> "pending", wallet |-> mem.wallet,
                          amount |-> mem.amount, expired |-> FALSE]
    OBVIOUS
  <2>2. /\ deposits' = [deposits EXCEPT ![d] = row] /\ provider' = provider
        /\ Finish(c) /\ calls[c].pc = "save" /\ handed' \in {handed, handed \cup {d}}
    BY <1>1, <1>9, <2>1 DEF SaveDeposit, TheDeposit
  <2>3. Turns(c, "idle", "idle", Nothing, Nothing) /\ UNCHANGED <<work, faults, hurt>>
    BY <2>2, FinishTurns DEF CallsOK
  <2>4. DepositTyped("idle", "idle", Nothing, Nothing)
    BY DEF DepositTyped, Openers, DepositOps
  <2>5. /\ CallsOK' /\ hurt' = hurt
        /\ Spares(WithdrawalOps) /\ Spares(CryptoOps) /\ Spares(MarketOps)
    BY <1>1, <1>2, <2>3, <2>4, DepositTurn DEF DepositOps, Openers
  <2>6. row # NoDeposit /\ row.status = "pending"
    BY <2>1 DEF NoDeposit
  <2>7. /\ deposits'[d] = row /\ \A e \in DepositIds : e # d => deposits'[e] = deposits[e]
        /\ DepositsTypeOK'
    BY <1>3, <2>1, <2>2 DEF DepositOK, DepositsTypeOK, Fiat
  <2>8. provider[d] = op
    BY <1>1, <1>2, <2>2 DEF DepositOK, DepositCall, TheDeposit
  <2>9. DepositRow(d)'
    BY <1>2, <1>3, <1>4, <1>6, <2>2, <2>6, <2>7, <2>8, NotRecordedNone
       DEF DepositOK, DepositRow, Openers
  <2>10. DepositCall(c)'
    BY <2>3 DEF Turns, DepositCall, Openers
  <2>11. "idle" \notin Openers
    BY DEF Openers
  <2>12. DepositOK'
    BY <1>3, <1>6, <1>7, <2>2, <2>3, <2>5, <2>7, <2>9, <2>10, <2>11, DepositMoves
       DEF Grows, TheDeposit
  <2> QED BY <1>5, <2>5, <2>12 DEF DepositStepped
<1> QED BY <1>8, <1>9

LEMMA DepositCredited ==
  ASSUME CallsOK, LedgerOK, DepositOK, RacesOK, raced \subseteq raced', NEW c \in Workers,
         CreditDeposit(c)
  PROVE  DepositStepped
<1>1. PICK on, d, ref, row, w, amount :
        /\ on = calls[c].on /\ d = calls[c].on[2] /\ ref = DepositRef(d)
        /\ row = deposits[d] /\ w = deposits[d].wallet /\ amount = deposits[d].amount
  OBVIOUS
<1>2. /\ calls[c].op = "confirm" /\ calls[c].pc = "credit" /\ Finish(c)
      /\ Post(Moves(w, amount, 0, ref)) /\ rowLock' = rowLock /\ provider' = provider
      /\ handed' = handed
      /\ deposits' = [deposits EXCEPT ![d].status = "completed"]
  BY <1>1 DEF CreditDeposit, At, TheDeposit
<1>3. d \in DepositIds /\ on = ref
  BY SMTT(30), <1>1, <1>2 DEF CallsOK, CallTyped, DepositTyped, DepositOps, IsRef, DepositRef
<1>4. /\ row # NoDeposit /\ provider[d] = "paid"
      /\ on \notin raced => row.status = "pending"
  BY ZenonT(40), <1>1, <1>2, <1>3 DEF DepositOK, DepositCall, TheDeposit, Pending
<1>5. row \in [status : {"pending", "completed"}, wallet : Wallets, amount : Amounts,
               expired : BOOLEAN]
  BY <1>1, <1>3, <1>4 DEF DepositOK, DepositsTypeOK
<1>6. w \in Wallets /\ amount \in Amounts /\ amount \in Int /\ amount >= 0
  <2>1. w = row.wallet /\ amount = row.amount
    BY ONLY <1>1
  <2>2. row.wallet \in Wallets /\ row.amount \in Amounts
    BY ONLY <1>5
  <2>3. amount \in Amounts /\ w \in Wallets
    BY ONLY <2>1, <2>2
  <2>4. amount \in Nat \ {0}
    BY ONLY <2>3, AmountsAssumption
  <2> QED BY ONLY <2>3, <2>4
<1>7. ref \in Refs /\ ref[1] = "deposit"
  BY <1>1, <1>3 DEF DepositRef, Refs
<1>8. rowLock' \in [Wallets -> Workers \cup {NoCall}] /\ 0 \in Int
  BY <1>2 DEF LedgerOK
<1>9. /\ LedgerOK' /\ Records({"deposit"}) /\ RecordsOne(w, ref, amount)
      /\ Changed(w, amount, 0, ref) /\ \A v \in Wallets : v # w => Left(v)
  BY <1>2, <1>6, <1>7, <1>8, PostOne
<1>10. Covered
  BY <1>6, <1>9, MoveCovered
<1>11. Turns(c, "idle", "idle", Nothing, Nothing) /\ UNCHANGED <<work, faults, hurt>>
  BY <1>2, FinishTurns DEF CallsOK
<1>12. /\ CallsOK' /\ hurt' = hurt
       /\ Spares(WithdrawalOps) /\ Spares(CryptoOps) /\ Spares(MarketOps)
  <2>1. DepositTyped("idle", "idle", Nothing, Nothing)
    BY DEF DepositTyped, Openers, DepositOps
  <2> QED BY <1>2, <1>11, <2>1, DepositTurn DEF DepositOps
<1>13. PICK new : /\ new = [row EXCEPT !.status = "completed"]
                  /\ new \in [status : {"pending", "completed"}, wallet : Wallets,
                              amount : Amounts, expired : BOOLEAN]
                  /\ new.status = "completed"
  <2>1. PICK new : new = [row EXCEPT !.status = "completed"]
    OBVIOUS
  <2>2. /\ new.status = "completed"
        /\ new \in [status : {"pending", "completed"}, wallet : Wallets,
                    amount : Amounts, expired : BOOLEAN]
    BY ONLY <1>5, <2>1
  <2> QED BY <2>1, <2>2
<1>14. new # NoDeposit
  <2>1. NoDeposit.status = "none"
    BY DEF NoDeposit
  <2> QED BY <1>13, <2>1
<1>15. /\ deposits'[d] = new /\ \A e \in DepositIds : e # d => deposits'[e] = deposits[e]
       /\ DepositsTypeOK'
  <2>1. deposits' = [deposits EXCEPT ![d] = new]
    BY <1>1, <1>2, <1>13
  <2> QED BY ZenonT(40), <1>2, <1>3, <1>13, <2>1 DEF DepositOK, DepositsTypeOK
<1>16. Recorded(ref)' /\ (RecordedTwice(ref)' => Recorded(ref))
  BY <1>6, <1>9, OneRecorded
<1>17. \A e \in DepositIds : e # d =>
          /\ Recorded(DepositRef(e))' <=> Recorded(DepositRef(e))
          /\ RecordedTwice(DepositRef(e))' <=> RecordedTwice(DepositRef(e))
  <2> SUFFICES ASSUME NEW e \in DepositIds, e # d
               PROVE  /\ Recorded(DepositRef(e))' <=> Recorded(DepositRef(e))
                      /\ RecordedTwice(DepositRef(e))' <=> RecordedTwice(DepositRef(e))
    OBVIOUS
  <2>1. DepositRef(e) # ref
    BY <1>1 DEF DepositRef
  <2> QED BY <1>6, <1>9, <2>1, OthersRecorded
<1>18. DepositRow(d)'
  <2>1. ref \notin raced => ~Recorded(ref)
    <3>1. (row.status = "completed") <=> Recorded(DepositRef(d))
      BY <1>1, <1>3 DEF DepositOK, DepositRow
    <3> QED BY <1>1, <1>3, <1>4, <3>1
  <2> QED BY <1>1, <1>2, <1>4, <1>13, <1>14, <1>15, <1>16, <2>1 DEF DepositRow
<1>19. ASSUME NEW b \in Workers, b # c, calls[b].op \in DepositOps, TheDeposit(b) = d
       PROVE  DepositCall(b)'
  <2>1. calls[b].on = ref
    BY <1>1, <1>19 DEF CallsOK, CallTyped, DepositTyped, IsRef, DepositRef, TheDeposit
  <2>2. calls[b].op = "confirm"
    BY <1>1, <1>4, <1>19 DEF DepositOK, DepositCall, DepositOps, Openers
  <2>3. ref \in raced'
    <3>1. calls[b].on # Nothing
      BY <1>1, <2>1 DEF DepositRef, Nothing
    <3> QED BY <1>1, <1>3, <1>19, <2>1, <3>1 DEF RacesOK
  <2>4. calls'[b] = calls[b]
    BY <1>11, <1>19 DEF Turns
  <2> QED BY <1>2, <1>4, <1>14, <1>15, <1>19, <2>1, <2>2, <2>3, <2>4
       DEF DepositCall, TheDeposit, Openers, DepositOK
<1>20. DepositCall(c)' /\ "idle" \notin Openers
  BY <1>11 DEF Turns, DepositCall, Openers
<1>21. DepositOK'
  BY <1>2, <1>3, <1>11, <1>12, <1>15, <1>17, <1>18, <1>19, <1>20, DepositMoves DEF Grows
<1> QED BY <1>9, <1>10, <1>12, <1>21 DEF DepositStepped

\* The client pays, or the deposit expires.
LEMMA DepositAges ==
  ASSUME CallsOK, LedgerOK, DepositOK, raced \subseteq raced', NEW d \in DepositIds,
         Pay(d) \/ Expire(d)
  PROVE  DepositStepped
<1>1. UNCHANGED money /\ UNCHANGED control
  BY DEF Pay, Expire
<1>2. LedgerOK' /\ Covered /\ Records({}) /\ Records({"deposit"})
  BY <1>1, MoneyCovered, RecordsMore
<1>3. calls' = calls /\ work' = work /\ faults' = faults /\ hurt' = hurt
  BY <1>1 DEF control
<1>4. CallsOK' /\ Spares(WithdrawalOps) /\ Spares(CryptoOps) /\ Spares(MarketOps)
  BY <1>3 DEF CallsOK, Shape, Spares
<1>5. \A e \in DepositIds :
         /\ Recorded(DepositRef(e))' <=> Recorded(DepositRef(e))
         /\ RecordedTwice(DepositRef(e))' <=> RecordedTwice(DepositRef(e))
  <2> SUFFICES ASSUME NEW e \in DepositIds
               PROVE  /\ Recorded(DepositRef(e))' <=> Recorded(DepositRef(e))
                      /\ RecordedTwice(DepositRef(e))' <=> RecordedTwice(DepositRef(e))
    OBVIOUS
  <2>1. DepositRef(e)[1] \notin {}
    OBVIOUS
  <2> QED BY <1>2, <2>1, RecordsKeep
<1>6. NoDeposit.status = "none"
  BY DEF NoDeposit
<1>7. /\ DepositsTypeOK'
      /\ \A e \in DepositIds :
            /\ deposits'[e].status = deposits[e].status
            /\ deposits[e] = NoDeposit <=> deposits'[e] = NoDeposit
            /\ e \in handed' <=> e \in handed
            /\ provider'[e] = provider[e] \/ (provider[e] = "intent" /\ provider'[e] = "paid"
                                              /\ deposits[e] # NoDeposit)
  <2>1. CASE Pay(d)
    <3>1. /\ provider[d] = "intent" /\ deposits[d] # NoDeposit /\ deposits' = deposits
          /\ provider' = [provider EXCEPT ![d] = "paid"] /\ handed' = handed
      BY <2>1 DEF Pay, DepositOK, DepositRow
    <3> QED BY <3>1 DEF DepositOK, DepositsTypeOK
  <2>2. CASE Expire(d)
    <3>1. PICK row, new : row = deposits[d] /\ new = [row EXCEPT !.expired = TRUE]
      OBVIOUS
    <3>2. row # NoDeposit
      BY <1>6, <2>2, <3>1 DEF Expire, Pending
    <3>3. row \in [status : {"pending", "completed"}, wallet : Wallets, amount : Amounts,
                   expired : BOOLEAN]
      BY <3>1, <3>2 DEF DepositOK, DepositsTypeOK
    <3>4. /\ new \in [status : {"pending", "completed"}, wallet : Wallets, amount : Amounts,
                      expired : BOOLEAN]
          /\ new.status = row.status
      BY <3>1, <3>3
    <3>5. new # NoDeposit
      BY <1>6, <3>3, <3>4
    <3>6. deposits' = [deposits EXCEPT ![d] = new] /\ provider' = provider /\ handed' = handed
      BY <2>2, <3>1 DEF Expire
    <3> QED BY <3>1, <3>2, <3>4, <3>5, <3>6 DEF DepositOK, DepositsTypeOK
  <2> QED BY <2>1, <2>2
<1>8. \A e \in DepositIds : DepositRow(e)'
  BY <1>5, <1>7 DEF DepositOK, DepositRow
<1>9. ASSUME NEW c \in Workers PROVE DepositCall(c)'
  <2>1. CASE calls[c].op \in DepositOps
    <3>1. TheDeposit(c) \in DepositIds
      BY <2>1 DEF CallsOK, CallTyped, DepositTyped, IsRef, TheDeposit
    <3> QED BY <1>3, <1>7, <2>1, <3>1
          DEF DepositOK, DepositCall, TheDeposit, Pending, DepositOps, Openers
  <2>2. CASE calls[c].op \notin DepositOps
    BY <1>3, <2>2 DEF DepositCall, DepositOps, Openers
  <2> QED BY <2>1, <2>2
<1>10. DepositOK'
  BY <1>3, <1>7, <1>8, <1>9 DEF DepositOK, OpenersDiffer
<1> QED BY <1>2, <1>3, <1>4, <1>10 DEF DepositStepped

LEMMA DepositSteps ==
  ASSUME CallsOK, LedgerOK, DepositOK, RacesOK, raced \subseteq raced', DepositNext
  PROVE  DepositStepped
BY DepositOpened, DepositGoesOn, PaymentOpened, ConfirmationStarts, ConfirmationGoesOn,
   DepositCredited, DepositAges DEF DepositNext, DepositStep

-----------------------------------------------------------------------------
\* Withdrawals.

\* The operations that work on a withdrawal.
Payers == {"withdraw", "approve", "reject"}

LEMMA SparesFewer ==
  ASSUME NEW ops, NEW fewer, fewer \subseteq ops, Spares(ops)
  PROVE  Spares(fewer)
BY DEF Spares

LEMMA EntriesFinite ==
  ASSUME LedgerOK, NEW w \in Wallets, NEW ref
  PROVE  IsFiniteSet(EntriesOf(w, ref)) /\ Cardinality(EntriesOf(w, ref)) \in Nat
<1>1. ledger[w] \in Seq(Entries)
  BY DEF LedgerOK
<1>2. DOMAIN ledger[w] = 1..Len(ledger[w]) /\ Len(ledger[w]) \in Nat
  BY <1>1, LenProperties
<1>3. IsFiniteSet(1..Len(ledger[w]))
  BY <1>2, FS_Interval
<1>4. EntriesOf(w, ref) \subseteq 1..Len(ledger[w])
  BY <1>2 DEF EntriesOf
<1>5. IsFiniteSet(EntriesOf(w, ref))
  BY <1>3, <1>4, FS_Subset
<1> QED BY <1>5, FS_CardinalityType

LEMMA SettlingFinite ==
  ASSUME NEW x
  PROVE  IsFiniteSet(Settling(x)) /\ Cardinality(Settling(x)) \in Nat
<1>1. Settling(x) \subseteq Workers
  BY DEF Settling
<1>2. IsFiniteSet(Settling(x))
  BY <1>1, WorkersAssumption, FS_Subset
<1> QED BY <1>2, FS_CardinalityType

LEMMA SettlingTurns ==
  ASSUME NEW c \in Workers, NEW op, NEW pc, NEW on, NEW mem, Turns(c, op, pc, on, mem), NEW x
  PROVE  Settling(x)' = (Settling(x) \ {c}) \cup
            (IF op \in {"withdraw", "approve"} /\ pc = "settle" /\ on = WithdrawalRef(x)
             THEN {c} ELSE {})
BY DEF Settling, Turns

LEMMA SettlingSpared ==
  ASSUME Spares(Payers), NEW x
  PROVE  /\ Settling(x)' \subseteq Settling(x)
         /\ Cardinality(Settling(x)') \in Nat
         /\ Cardinality(Settling(x)') <= Cardinality(Settling(x))
         /\ WithdrawalRef(x) \notin hurt' => Settling(x)' = Settling(x)
<1>1. Settling(x)' \subseteq Settling(x)
  BY DEF Settling, Spares, Payers
<1>2. WithdrawalRef(x) \notin hurt' => Settling(x) \subseteq Settling(x)'
  BY DEF Settling, Spares, Payers
<1>3. PICK S, T : S = Settling(x) /\ T = Settling(x)' /\ T \subseteq S /\ IsFiniteSet(S)
  BY <1>1, SettlingFinite
<1>4. IsFiniteSet(T) /\ Cardinality(T) <= Cardinality(S) /\ Cardinality(T) \in Nat
  BY <1>3, FS_Subset, FS_CardinalityType
<1> QED BY <1>1, <1>2, <1>3, <1>4

\* What is recorded of a withdrawal is the same.
SameDebits(x) == \A w \in Wallets : EntriesOf(w, WithdrawalRef(x))' = EntriesOf(w, WithdrawalRef(x))

LEMMA DebitsKept ==
  ASSUME NEW kinds, Records(kinds), "withdrawal" \notin kinds, NEW x
  PROVE  SameDebits(x)
<1>1. WithdrawalRef(x)[1] \notin kinds
  BY DEF WithdrawalRef
<1> QED BY <1>1, RecordsKeep DEF SameDebits

LEMMA RowKept ==
  ASSUME LedgerOK, NEW x \in WithdrawalIds, WithdrawalsTypeOK, WithdrawalRow(x), SameDebits(x),
         withdrawals'[x] = withdrawals[x], Answered(x)' = Answered(x), Grows,
         Settling(x)' \subseteq Settling(x),
         WithdrawalRef(x) \notin hurt' => Settling(x)' = Settling(x)
  PROVE  WithdrawalRow(x)'
<1>1. PICK S, T, ref : /\ S = Settling(x) /\ T = Settling(x)' /\ ref = WithdrawalRef(x)
                       /\ T \subseteq S /\ IsFiniteSet(S)
  BY SettlingFinite
<1>2. Cardinality(S) \in Nat /\ Cardinality(T) \in Nat /\ Cardinality(T) <= Cardinality(S)
  BY <1>1, FS_Subset, FS_CardinalityType
<1>3. \A w \in Wallets : /\ Cardinality(EntriesOf(w, ref)') = Cardinality(EntriesOf(w, ref))
                         /\ Cardinality(EntriesOf(w, ref)) \in Nat
  BY <1>1, EntriesFinite DEF SameDebits
<1>4. Answered(x) \in Int
  BY DEF WithdrawalsTypeOK, Answered
<1>5. \A w \in Wallets : Cardinality(EntriesOf(w, ref)) + Cardinality(S) <= Answered(x)
  BY <1>1 DEF WithdrawalRow
<1>6. \A w \in Wallets : Cardinality(EntriesOf(w, ref)') + Cardinality(T) <= Answered(x)
  BY <1>2, <1>3, <1>4, <1>5
<1>7. Undisturbed(ref)' => Undisturbed(ref) /\ T = S
  BY <1>1 DEF Undisturbed, Grows
<1>8. WithdrawalRef(x)' = ref
  BY <1>1 DEF WithdrawalRef
<1> QED BY <1>1, <1>3, <1>6, <1>7 DEF WithdrawalRow

LEMMA WithdrawalKeeps ==
  ASSUME WithdrawalOK, CallsOK, LedgerOK, UNCHANGED withdrawalVars, Grows, Spares(Payers),
         NEW kinds, Records(kinds), "withdrawal" \notin kinds
  PROVE  WithdrawalOK'
<1>1. withdrawals' = withdrawals /\ paid' = paid /\ lost' = lost
  BY DEF withdrawalVars
<1>2. \A x \in WithdrawalIds : WithdrawalRow(x)'
  <2> SUFFICES ASSUME NEW x \in WithdrawalIds PROVE WithdrawalRow(x)'
    OBVIOUS
  <2>1. Answered(x)' = Answered(x)
    BY <1>1 DEF Answered
  <2> QED BY <1>1, <2>1, DebitsKept, RowKept, SettlingSpared DEF WithdrawalOK
<1>3. \A c \in Workers : calls'[c].op \in Payers => calls'[c] = calls[c]
  BY DEF Spares
<1>4. \A c \in Workers : WithdrawalCall(c)'
  BY <1>1, <1>3 DEF WithdrawalOK, WithdrawalCall, TheWithdrawal, At, Payers, Grows
<1>5. ReserversDiffer'
  BY <1>3 DEF WithdrawalOK, ReserversDiffer, At, Payers
<1>6. WithdrawalsTypeOK' /\ OnePending'
  BY <1>1 DEF WithdrawalOK, WithdrawalsTypeOK, OnePending
<1> QED BY <1>2, <1>4, <1>5, <1>6 DEF WithdrawalOK

\* What is locked stays right when what is locked is kept and covered.
LocksStay == LocksOK /\ TradingTypeOK /\ UNCHANGED tradingVars => LocksOK'

LEMMA MarketTookStays ==
  ASSUME NEW kinds, Records(kinds), NEW w \in Wallets, MarketTook(w)
  PROVE  MarketTook(w)'
BY DEF Records, MarketTook

LEMMA LocksKeep ==
  ASSUME LedgerOK, LedgerOK', UNCHANGED withdrawals, Grows, Covered, NEW kinds, Records(kinds)
  PROVE  LocksStay
<1> SUFFICES ASSUME LocksOK, UNCHANGED tradingVars, NEW w \in Wallets, Alone(w)', w \notin excess'
             PROVE  LockRight(w)'
  BY DEF LocksStay, LocksOK
<1>1. /\ Alone(w) /\ PendingOn(w)' = PendingOn(w)
      /\ held'[w] = held[w] /\ w \notin excess
  BY DEF Alone, Grows, PendingOn, tradingVars
<1>2. LockRight(w)
  BY <1>1 DEF LocksOK
<1>3. wallets'[w].locked = wallets[w].locked
  BY DEF Covered
<1>4. /\ wallets[w].locked \in Int /\ wallets[w].balance \in Int
      /\ wallets'[w].balance \in Int
  BY DEF LedgerOK, Wallet
<1>5. MarketTook(w)' \/ wallets'[w].locked <= wallets'[w].balance
  <2>1. CASE MarketTook(w)
    BY <2>1, MarketTookStays
  <2>2. CASE wallets[w].locked <= wallets[w].balance
    BY <1>3, <1>4, <2>2 DEF Covered
  <2> QED BY <1>2, <2>1, <2>2 DEF LockRight
<1> QED BY <1>1, <1>2, <1>3, <1>5 DEF LockRight

\* Where a call of the withdrawals may go.
LEMMA WithdrawalTurn ==
  ASSUME CallsOK, NEW c \in Workers, NEW op, NEW pc, NEW on, NEW mem,
         Turns(c, op, pc, on, mem), work' = work, hurt' = hurt,
         faults' = faults \/ faults' \in 0..MaxFaults,
         op \in DOMAIN work \cup {"idle"}, {op, calls[c].op} \subseteq WithdrawalOps \cup {"idle"},
         op = "idle" => on = Nothing, WithdrawalTyped(op, pc, on, mem)
  PROVE  /\ CallsOK' /\ hurt' = hurt
         /\ Spares(DepositOps) /\ Spares(CryptoOps) /\ Spares(MarketOps)
<1>1. CallTyped(op, pc, on, mem)
  BY DEF CallTyped, WithdrawalOps, DepositTyped, DepositOps, Openers, CryptoTyped,
         MarketTyped, MarketOps
<1>2. faults' \in 0..MaxFaults
  BY DEF CallsOK
<1>3. CallsOK'
  BY <1>1, <1>2, CallTurns
<1>4. /\ op \notin DepositOps \cup CryptoOps \cup MarketOps
      /\ calls[c].op \notin DepositOps \cup CryptoOps \cup MarketOps
  BY DEF DepositOps, WithdrawalOps, CryptoOps, MarketOps
<1> QED BY <1>3, <1>4, TurnsSpare

\* What every step of the withdrawals does.
WithdrawalStepped ==
    /\ CallsOK' /\ LedgerOK' /\ WithdrawalOK' /\ LocksStay
    /\ Records({"withdrawal", "admin"}) /\ hurt' = hurt
    /\ Spares(DepositOps) /\ Spares(CryptoOps) /\ Spares(MarketOps)

\* A step of call c that is about withdrawal x alone.
LEMMA WithdrawalMoves ==
  ASSUME WithdrawalOK, CallsOK, LedgerOK, Grows, NEW c \in Workers, NEW x \in WithdrawalIds,
         NEW op, NEW pc, NEW on, NEW mem, Turns(c, op, pc, on, mem),
         WithdrawalsTypeOK', OnePending', WithdrawalRow(x)', WithdrawalCall(c)',
         \A y \in WithdrawalIds : y # x => /\ withdrawals'[y] = withdrawals[y]
                                           /\ Answered(y)' = Answered(y),
         \A y \in WithdrawalIds : y # x => SameDebits(y),
         calls[c].op \in Payers => calls[c].on = WithdrawalRef(x),
         op \in Payers => on = WithdrawalRef(x),
         \A b \in Workers : b # c /\ calls[b].op \in Payers /\ calls[b].on = WithdrawalRef(x) =>
             WithdrawalCall(b)',
         op = "withdraw" /\ pc = "reserve" => \A b \in Workers : calls[b].on # on
  PROVE  WithdrawalOK'
<1>1. /\ \A b \in Workers : b # c => calls'[b] = calls[b]
      /\ calls'[c].op = op /\ calls'[c].pc = pc /\ calls'[c].on = on
  BY DEF Turns
<1>2. ASSUME NEW y \in WithdrawalIds, y # x PROVE WithdrawalRow(y)'
  <2>1. WithdrawalRef(y) # WithdrawalRef(x)
    BY <1>2 DEF WithdrawalRef
  <2>2. Settling(y)' = Settling(y)
    BY <1>1, <2>1 DEF Settling, Payers
  <2> QED BY <1>2, <2>2, RowKept DEF WithdrawalOK
<1>3. ASSUME NEW b \in Workers, b # c PROVE WithdrawalCall(b)'
  <2>1. CASE calls[b].op \in Payers /\ calls[b].on # WithdrawalRef(x)
    <3>1. TheWithdrawal(b) \in WithdrawalIds /\ TheWithdrawal(b) # x
      BY <2>1 DEF CallsOK, CallTyped, WithdrawalTyped, IsRef, TheWithdrawal, Payers, WithdrawalRef
    <3> QED BY <1>1, <1>3, <2>1, <3>1
          DEF WithdrawalOK, WithdrawalCall, TheWithdrawal, At, Grows
  <2>2. CASE calls[b].op \notin Payers
    BY <1>1, <1>3, <2>2 DEF WithdrawalCall, Payers, At
  <2> QED BY <1>3, <2>1, <2>2
<1>4. ReserversDiffer'
  BY <1>1 DEF WithdrawalOK, ReserversDiffer, At
<1> QED BY <1>2, <1>3, <1>4 DEF WithdrawalOK

\* A request arrives.
LEMMA WithdrawalBegins ==
  ASSUME CallsOK, LedgerOK, WithdrawalOK, raced \subseteq raced', NEW c \in Workers,
         NEW x \in WithdrawalIds,
         \/ ApproveWithdrawal(c, x) \/ RejectWithdrawal(c, x)
         \/ \E w \in Wallets, amount \in Amounts : InitiateWithdrawal(c, x, w, amount)
  PROVE  WithdrawalStepped
<1>1. PICK op, pc, mem : 
        /\ Begin(c, op, pc, WithdrawalRef(x), mem)
        /\ \/ /\ op = "withdraw" /\ pc = "reserve" /\ Fiat(mem)
              /\ withdrawals[x].status = "none" /\ \A d \in Workers : calls[d].on # WithdrawalRef(x)
           \/ op = "approve" /\ pc = "payout" /\ withdrawals[x].status = "pending"
           \/ op = "reject" /\ pc = "release" /\ withdrawals[x].status = "pending"
  <2>1. CASE ApproveWithdrawal(c, x)
    BY <2>1 DEF ApproveWithdrawal
  <2>2. CASE RejectWithdrawal(c, x)
    BY <2>2 DEF RejectWithdrawal
  <2>3. ASSUME NEW w \in Wallets, NEW amount \in Amounts, InitiateWithdrawal(c, x, w, amount)
        PROVE  \E mem : /\ Begin(c, "withdraw", "reserve", WithdrawalRef(x), mem) /\ Fiat(mem)
                        /\ withdrawals[x].status = "none"
                        /\ \A d \in Workers : calls[d].on # WithdrawalRef(x)
    <3>1. PICK mem : mem = [wallet |-> w, amount |-> amount]
      OBVIOUS
    <3> QED BY <2>3, <3>1 DEF InitiateWithdrawal, Fiat
  <2> QED BY <2>1, <2>2, <2>3
<1>2. UNCHANGED money /\ UNCHANGED withdrawalVars
  BY DEF ApproveWithdrawal, RejectWithdrawal, InitiateWithdrawal
<1>3. PICK on : on = WithdrawalRef(x)
  OBVIOUS
<1>4. /\ Turns(c, op, pc, on, mem) /\ calls[c].op = "idle" /\ op \in DOMAIN work
      /\ UNCHANGED <<work, faults, hurt>>
  BY <1>1, <1>3, BeginTurns DEF CallsOK
<1>5. on = <<"withdrawal", x>> /\ on[2] = x
  BY <1>3 DEF WithdrawalRef
<1>6. WithdrawalTyped(op, pc, on, mem)
  BY <1>1, <1>5 DEF WithdrawalTyped, IsRef
<1>7. /\ CallsOK' /\ hurt' = hurt
      /\ Spares(DepositOps) /\ Spares(CryptoOps) /\ Spares(MarketOps)
  BY <1>1, <1>4, <1>6, WithdrawalTurn DEF WithdrawalOps
<1>8. LedgerOK' /\ Covered /\ Records({}) /\ Records({"withdrawal", "admin"})
  BY <1>2, MoneyCovered, RecordsMore
<1>9. /\ withdrawals' = withdrawals /\ paid' = paid /\ lost' = lost
      /\ \A y \in WithdrawalIds : Answered(y)' = Answered(y)
  BY <1>2 DEF withdrawalVars, Answered
<1>10. Grows
  BY <1>7 DEF Grows
<1>11. \A y \in WithdrawalIds : SameDebits(y)
  BY <1>8, DebitsKept
<1>12. WithdrawalRow(x)'
  <2>1. Settling(x)' = Settling(x)
    BY <1>1, <1>4 DEF Turns, Settling
  <2> QED BY <1>9, <1>10, <1>11, <2>1, RowKept DEF WithdrawalOK
<1>13. ASSUME NEW b \in Workers, b # c PROVE WithdrawalCall(b)'
  <2>1. calls'[b] = calls[b]
    BY <1>4, <1>13 DEF Turns
  <2> QED BY <1>9, <2>1 DEF WithdrawalOK, WithdrawalCall, TheWithdrawal, At, Grows
<1>14. WithdrawalCall(c)'
  <2>1. NoWithdrawal.status = "none"
    BY DEF NoWithdrawal
  <2>2. op = "withdraw" => withdrawals[x] = NoWithdrawal
    BY <1>1 DEF WithdrawalOK, WithdrawalsTypeOK
  <2>3. op # "withdraw" => withdrawals[x] # NoWithdrawal /\ withdrawals[x].status = "pending"
    BY <1>1, <2>1
  <2>4. calls'[c].op = op /\ calls'[c].pc = pc /\ calls'[c].on = on
    BY <1>4 DEF Turns
  <2> QED BY <1>1, <1>5, <1>9, <2>2, <2>3, <2>4 DEF WithdrawalCall, TheWithdrawal, At
<1>15. WithdrawalsTypeOK' /\ OnePending'
  BY <1>9 DEF WithdrawalOK, WithdrawalsTypeOK, OnePending
<1>16. WithdrawalOK'
  BY <1>1, <1>3, <1>4, <1>9, <1>10, <1>11, <1>12, <1>13, <1>14, <1>15, WithdrawalMoves
     DEF Payers
<1>17. LocksStay
  BY <1>8, <1>9, <1>10, LocksKeep
<1> QED BY <1>7, <1>8, <1>16, <1>17 DEF WithdrawalStepped

\* A call that works on a withdrawal and does nothing to it, nor pays it out.
LEMMA WithdrawalCallTurns ==
  ASSUME WithdrawalOK, CallsOK, LedgerOK, Grows, UNCHANGED withdrawalVars,
         NEW kinds, Records(kinds), "withdrawal" \notin kinds, NEW c \in Workers,
         NEW op, NEW pc, NEW on, NEW mem, Turns(c, op, pc, on, mem), WithdrawalCall(c)',
         calls[c].op \in {"withdraw", "approve"} => calls[c].pc # "settle",
         op \in {"withdraw", "approve"} => pc # "settle",
         ~ (op = "withdraw" /\ pc = "reserve")
  PROVE  WithdrawalOK'
<1>1. /\ \A b \in Workers : b # c => calls'[b] = calls[b]
      /\ calls'[c].op = op /\ calls'[c].pc = pc /\ calls'[c].on = on
  BY DEF Turns
<1>2. /\ withdrawals' = withdrawals /\ paid' = paid /\ lost' = lost
      /\ \A y \in WithdrawalIds : Answered(y)' = Answered(y)
  BY DEF withdrawalVars, Answered
<1>3. \A x \in WithdrawalIds : WithdrawalRow(x)'
  <2> SUFFICES ASSUME NEW x \in WithdrawalIds PROVE WithdrawalRow(x)'
    OBVIOUS
  <2>1. Settling(x)' = Settling(x)
    BY <1>1 DEF Settling
  <2> QED BY <1>2, <2>1, DebitsKept, RowKept DEF WithdrawalOK
<1>4. ASSUME NEW b \in Workers, b # c PROVE WithdrawalCall(b)'
  BY <1>1, <1>2, <1>4 DEF WithdrawalOK, WithdrawalCall, TheWithdrawal, At, Grows
<1>5. ReserversDiffer'
  BY <1>1 DEF WithdrawalOK, ReserversDiffer, At
<1>6. WithdrawalsTypeOK' /\ OnePending'
  BY <1>2 DEF WithdrawalOK, WithdrawalsTypeOK, OnePending
<1> QED BY <1>3, <1>4, <1>5, <1>6 DEF WithdrawalOK

\* A call ends, or goes on to release the lock, and nothing else.
LEMMA WithdrawalLeaves ==
  ASSUME CallsOK, LedgerOK, WithdrawalOK, raced \subseteq raced', NEW c \in Workers,
         calls[c].op \in Payers, calls[c].pc # "settle", UNCHANGED money,
         UNCHANGED withdrawalVars,
         Finish(c) \/ (Goto(c, "release") /\ calls[c].op = "withdraw" /\ calls[c].pc = "payout")
  PROVE  WithdrawalStepped
<1>1. LedgerOK' /\ Covered /\ Records({}) /\ Records({"withdrawal", "admin"})
  BY MoneyCovered, RecordsMore
<1>2. UNCHANGED withdrawals /\ UNCHANGED withdrawalVars
  BY DEF withdrawalVars
<1>3. CASE Finish(c)
  <2>1. Turns(c, "idle", "idle", Nothing, Nothing) /\ UNCHANGED <<work, faults, hurt>>
    BY <1>3, FinishTurns DEF CallsOK
  <2>2. WithdrawalTyped("idle", "idle", Nothing, Nothing)
    BY DEF WithdrawalTyped
  <2>3. /\ CallsOK' /\ hurt' = hurt
        /\ Spares(DepositOps) /\ Spares(CryptoOps) /\ Spares(MarketOps)
    BY <2>1, <2>2, WithdrawalTurn DEF WithdrawalOps, Payers
  <2>4. WithdrawalCall(c)'
    BY <2>1 DEF Turns, WithdrawalCall, At
  <2>5. Grows
    BY <2>3 DEF Grows
  <2>6. WithdrawalOK'
    BY <1>1, <2>1, <2>4, <2>5, WithdrawalCallTurns
  <2>7. LocksStay
    BY <1>1, <1>2, <2>5, LocksKeep
  <2> QED BY <1>1, <2>3, <2>6, <2>7 DEF WithdrawalStepped
<1>4. CASE Goto(c, "release") /\ calls[c].op = "withdraw" /\ calls[c].pc = "payout"
  <2>1. PICK on, mem : on = calls[c].on /\ mem = calls[c].mem
    OBVIOUS
  <2>2. Turns(c, "withdraw", "release", on, mem) /\ UNCHANGED <<work, faults, hurt>>
    BY <1>4, <2>1, GotoTurns DEF CallsOK
  <2>3. /\ WithdrawalTyped("withdraw", "release", on, mem) /\ "withdraw" \in DOMAIN work
    BY <1>4, <2>1 DEF CallsOK, CallTyped, WithdrawalTyped
  <2>4. /\ CallsOK' /\ hurt' = hurt
        /\ Spares(DepositOps) /\ Spares(CryptoOps) /\ Spares(MarketOps)
    BY <1>4, <2>2, <2>3, WithdrawalTurn DEF WithdrawalOps, Payers
  <2>5. Grows
    BY <2>4 DEF Grows
  <2>6. WithdrawalCall(c)'
    BY <1>2, <1>4, <2>1, <2>2, <2>5
       DEF Turns, WithdrawalCall, At, WithdrawalOK, TheWithdrawal, Grows
  <2>7. WithdrawalOK'
    BY <1>1, <1>4, <2>2, <2>5, <2>6, WithdrawalCallTurns
  <2>8. LocksStay
    BY <1>1, <1>2, <2>5, LocksKeep
  <2> QED BY <1>1, <2>4, <2>7, <2>8 DEF WithdrawalStepped
<1> QED BY <1>3, <1>4

LEMMA Reserved ==
  ASSUME CallsOK, LedgerOK, WithdrawalOK, raced \subseteq raced', NEW c \in Workers, Reserve(c)
  PROVE  WithdrawalStepped
<1>1. PICK w, amount, x, on, mem :
        /\ w = calls[c].mem.wallet /\ amount = calls[c].mem.amount /\ x = calls[c].on[2]
        /\ on = calls[c].on /\ mem = calls[c].mem
  OBVIOUS
<1>2. /\ calls[c].op = "withdraw" /\ calls[c].pc = "reserve" /\ rowLock' = rowLock
      /\ paid' = paid /\ lost' = lost /\ \A y \in WithdrawalIds : Answered(y)' = Answered(y)
  BY DEF Reserve, At, Answered
<1>3. /\ x \in WithdrawalIds /\ on = WithdrawalRef(x) /\ on = <<"withdrawal", x>>
      /\ w \in Wallets /\ amount \in Amounts /\ "withdraw" \in DOMAIN work
  BY <1>1, <1>2 DEF CallsOK, CallTyped, WithdrawalTyped, IsRef, WithdrawalRef, Fiat
<1>4. withdrawals[x] = NoWithdrawal
  BY <1>1, <1>2 DEF WithdrawalOK, WithdrawalCall, At, TheWithdrawal
<1>5. CASE Finish(c) /\ UNCHANGED <<wallets, ledger, withdrawals>>
  BY <1>2, <1>5, WithdrawalLeaves DEF money, withdrawalVars, Payers
<1>6. CASE /\ PendingOn(w) = {} /\ Available(w) >= amount /\ Relock(w, amount)
           /\ withdrawals' = [withdrawals EXCEPT ![TheWithdrawal(c)] =
                [status |-> "pending", wallet |-> w, amount |-> amount]]
           /\ Goto(c, "payout")
  <2>1. PICK row : row = [status |-> "pending", wallet |-> w, amount |-> amount]
    OBVIOUS
  <2>2. withdrawals' = [withdrawals EXCEPT ![x] = row]
    BY <1>1, <1>6, <2>1 DEF TheWithdrawal
  <2>3. row.status = "pending" /\ row.wallet = w /\ row.amount = amount
    BY <2>1
  <2>4. row # NoWithdrawal
    BY <2>1 DEF NoWithdrawal
  <2>5. /\ withdrawals'[x] = row /\ WithdrawalsTypeOK'
        /\ \A y \in WithdrawalIds : y # x => withdrawals'[y] = withdrawals[y]
    BY <1>2, <1>3, <2>1, <2>2 DEF WithdrawalOK, WithdrawalsTypeOK
  <2>6. amount \in Nat /\ amount \in Int
    BY <1>3, AmountsAssumption
  <2>7. /\ LedgerOK' /\ Records({})
        /\ wallets'[w].locked = wallets[w].locked + amount
        /\ \A v \in Wallets : /\ wallets'[v].balance = wallets[v].balance
                              /\ v # w => wallets'[v].locked = wallets[v].locked
    BY <1>2, <1>3, <1>6, <2>6, LockMoved
  <2>8. Turns(c, "withdraw", "payout", on, mem) /\ UNCHANGED <<work, faults, hurt>>
    BY <1>1, <1>2, <1>6, GotoTurns DEF CallsOK
  <2>9. WithdrawalTyped("withdraw", "payout", on, mem)
    BY <1>1, <1>2 DEF CallsOK, CallTyped, WithdrawalTyped
  <2>10. /\ CallsOK' /\ hurt' = hurt
         /\ Spares(DepositOps) /\ Spares(CryptoOps) /\ Spares(MarketOps)
    BY <1>2, <1>3, <2>8, <2>9, WithdrawalTurn DEF WithdrawalOps
  <2>11. Grows
    BY <2>10 DEF Grows
  <2>12. Records({"withdrawal", "admin"}) /\ \A y \in WithdrawalIds : SameDebits(y)
    BY <2>7, RecordsMore, DebitsKept
  <2>13. Settling(x)' = Settling(x)
    BY <1>2, <2>8 DEF Turns, Settling
  <2>14. NoWithdrawal.status = "none" /\ NoWithdrawal.wallet = NoWallet
    BY DEF NoWithdrawal
  <2>15. WithdrawalRow(x)'
    <3>1. PICK ref : ref = WithdrawalRef(x)
      OBVIOUS
    <3>2. \A v \in Wallets : EntriesOf(v, ref)' = EntriesOf(v, ref)
      BY <1>3, <2>12, <3>1 DEF SameDebits
    <3>3. Undisturbed(ref)' => Undisturbed(ref)
      BY <2>11 DEF Undisturbed, Grows
    <3>4. WithdrawalRow(x)
      BY <1>3 DEF WithdrawalOK
    <3>5. Answered(x)' = Answered(x)
      BY <1>2, <1>3
    <3> QED BY <1>4, <2>3, <2>5, <2>13, <2>14, <3>1, <3>2, <3>3, <3>4, <3>5 DEF WithdrawalRow
  <2>16. WithdrawalCall(c)'
    BY <1>1, <2>3, <2>4, <2>5, <2>8 DEF Turns, WithdrawalCall, At, TheWithdrawal
  <2>17. ASSUME NEW b \in Workers, b # c, calls[b].op \in Payers, calls[b].on = WithdrawalRef(x)
         PROVE  FALSE
    <3>1. calls[b].on[2] = x
      BY <2>17 DEF WithdrawalRef
    <3>2. At(b, "withdraw", "reserve")
      <4>1. calls[b].pc = "reserve"
        BY <1>4, <2>17, <3>1 DEF WithdrawalOK, WithdrawalCall, TheWithdrawal, Payers
      <4>2. calls[b].op = "withdraw"
        BY <2>17, <4>1 DEF CallsOK, CallTyped, WithdrawalTyped, Payers
      <4> QED BY <4>1, <4>2 DEF At
    <3> QED BY <1>1, <1>2, <1>3, <2>17, <3>2 DEF WithdrawalOK, ReserversDiffer, At
  <2>18. OnePending'
    <3>1. \A y \in WithdrawalIds : ~ (withdrawals[y].wallet = w /\ withdrawals[y].status = "pending")
      BY <1>6 DEF PendingOn
    <3> QED BY <2>3, <2>5, <3>1 DEF OnePending, WithdrawalOK
  <2>19. WithdrawalOK'
    BY ZenonT(40), <1>1, <1>2, <1>3, <2>5, <2>8, <2>11, <2>12, <2>15, <2>16, <2>17, <2>18, WithdrawalMoves
  <2>20. ASSUME LocksOK, TradingTypeOK, UNCHANGED tradingVars PROVE LocksOK'
    <3>1. NoWallet \notin Wallets
      BY UsersAssumption DEF NoWallet, Wallets
    <3>2. ASSUME NEW v \in Wallets, Alone(v)', v \notin excess'
          PROVE  LockRight(v)'
      <4>1. Alone(v)
        BY <1>4, <2>5, <2>11, <2>14, <3>1, <3>2 DEF Alone, Grows
      <4>2. LockRight(v) /\ held'[v] = held[v]
        BY <2>20, <3>2, <4>1 DEF LocksOK, tradingVars
      <4>3. MarketTook(v) => MarketTook(v)'
        BY <2>7, MarketTookStays
      <4>4. CASE v = w
        <5>1. PendingOn(w)' = {x}
          BY <1>3, <1>6, <2>3, <2>5 DEF PendingOn
        <5>2. wallets[w].locked = held[w]
          BY <1>6, <4>2, <4>4 DEF LockRight
        <5>3. wallets[w].balance \in Int /\ wallets[w].locked \in Int
          BY <1>3 DEF LedgerOK, Wallet
        <5>4. wallets'[w].locked = amount + held'[w]
          BY <2>6, <2>7, <4>2, <4>4, <5>2, <5>3
        <5>5. wallets'[w].locked <= wallets'[w].balance
          BY <1>3, <1>6, <2>6, <2>7, <5>3 DEF Available
        <5> QED BY <2>3, <2>5, <4>4, <5>1, <5>4, <5>5 DEF LockRight
      <4>5. CASE v # w
        <5>1. PendingOn(v)' = PendingOn(v) /\ x \notin PendingOn(v)
          BY <1>3, <1>4, <2>3, <2>5, <2>14, <4>5 DEF PendingOn
        <5>2. \A y \in PendingOn(v) : withdrawals'[y] = withdrawals[y]
          BY <2>5, <5>1 DEF PendingOn
        <5> QED BY <2>7, <4>2, <4>3, <4>5, <5>1, <5>2 DEF LockRight
      <4> QED BY <4>4, <4>5
    <3> QED BY <3>2 DEF LocksOK
  <2> QED BY <2>7, <2>10, <2>12, <2>19, <2>20 DEF WithdrawalStepped, LocksStay
<1> QED BY <1>1, <1>5, <1>6 DEF Reserve

\* A call whose withdrawal no other call has worked on.
LEMMA OnlyOne ==
  ASSUME RacesOK, NEW c \in Workers, NEW x, calls[c].on = WithdrawalRef(x),
         WithdrawalRef(x) \notin raced
  PROVE  \A b \in Workers : b # c => calls[b].on # WithdrawalRef(x)
<1>1. WithdrawalRef(x) # Nothing
  BY DEF WithdrawalRef, Nothing
<1> QED BY <1>1 DEF RacesOK

LEMMA PaidOut ==
  ASSUME CallsOK, LedgerOK, WithdrawalOK, RacesOK, raced \subseteq raced', NEW c \in Workers,
         Payout(c)
  PROVE  WithdrawalStepped
<1>1. PICK op, x, on, mem :
        op = calls[c].op /\ x = calls[c].on[2] /\ on = calls[c].on /\ mem = calls[c].mem
  OBVIOUS
<1>2. /\ op \in {"withdraw", "approve"} /\ calls[c].pc = "payout" /\ UNCHANGED money
      /\ paid' = [paid EXCEPT ![x] = paid[x] + 1] /\ withdrawals' = withdrawals
      /\ lost' = lost /\ Goto(c, "settle")
  BY <1>1 DEF Payout, AtPayout, TheWithdrawal
<1>3. /\ x \in WithdrawalIds /\ on = WithdrawalRef(x) /\ on = <<"withdrawal", x>>
      /\ op \in DOMAIN work
  BY <1>1, <1>2 DEF CallsOK, CallTyped, WithdrawalTyped, IsRef, WithdrawalRef
<1>4. Turns(c, op, "settle", on, mem) /\ UNCHANGED <<work, faults, hurt>>
  BY <1>1, <1>2, GotoTurns DEF CallsOK
<1>5. WithdrawalTyped(op, "settle", on, mem)
  BY <1>1, <1>2 DEF CallsOK, CallTyped, WithdrawalTyped
<1>6. /\ CallsOK' /\ hurt' = hurt
      /\ Spares(DepositOps) /\ Spares(CryptoOps) /\ Spares(MarketOps)
  BY <1>1, <1>2, <1>3, <1>4, <1>5, WithdrawalTurn DEF WithdrawalOps
<1>7. LedgerOK' /\ Covered /\ Records({}) /\ Records({"withdrawal", "admin"})
  BY <1>2, MoneyCovered, RecordsMore
<1>8. Grows /\ \A y \in WithdrawalIds : SameDebits(y)
  BY <1>6, <1>7, DebitsKept DEF Grows
<1>9. LocksStay
  BY <1>2, <1>7, <1>8, LocksKeep
<1>10. /\ Answered(x) \in Int /\ Answered(x)' = Answered(x) + 1
       /\ \A y \in WithdrawalIds : y # x => Answered(y)' = Answered(y)
       /\ WithdrawalsTypeOK' /\ OnePending'
  BY <1>2, <1>3 DEF WithdrawalOK, WithdrawalsTypeOK, OnePending, Answered
<1>11. PICK S, ref : S = Settling(x) /\ ref = WithdrawalRef(x)
  OBVIOUS
<1>12. Settling(x)' = S \cup {c} /\ c \notin S
  <2>1. Settling(x)' = (Settling(x) \ {c}) \cup {c}
    BY <1>2, <1>3, <1>4 DEF Settling, Turns
  <2>2. c \notin Settling(x)
    BY <1>2 DEF Settling
  <2> QED BY <1>11, <2>1, <2>2
<1>13. Cardinality(S) \in Nat /\ Cardinality(S \cup {c}) = Cardinality(S) + 1
  BY <1>11, <1>12, SettlingFinite, FS_AddElement
<1>14. \A w \in Wallets : /\ EntriesOf(w, ref)' = EntriesOf(w, ref)
                          /\ Cardinality(EntriesOf(w, ref)) \in Nat
  BY <1>3, <1>8, <1>11, EntriesFinite DEF SameDebits
<1>15. WithdrawalRow(x)'
  <2>1. ASSUME NEW w \in Wallets
        PROVE  Cardinality(EntriesOf(w, ref)') + Cardinality(S \cup {c}) <= Answered(x)'
    <3>1. PICK n, k, p : n = Cardinality(EntriesOf(w, ref)) /\ k = Cardinality(S) /\ p = Answered(x)
      OBVIOUS
    <3>2. n + k <= p
      BY <1>3, <1>11, <2>1, <3>1 DEF WithdrawalOK, WithdrawalRow
    <3>3. n \in Nat /\ k \in Nat /\ p \in Int /\ n + (k + 1) <= p + 1
      BY <1>10, <1>13, <1>14, <2>1, <3>1, <3>2
    <3> QED BY <1>10, <1>13, <1>14, <2>1, <3>1, <3>3
  <2>2. ASSUME Undisturbed(ref)'
        PROVE  /\ Answered(x)' = 1
               /\ \A w \in Wallets : Cardinality(EntriesOf(w, ref)') =
                     IF withdrawals'[x].status = "completed" /\ withdrawals'[x].wallet = w
                     THEN 1 ELSE 0
    <3>1. Undisturbed(ref) /\ ref \notin raced
      BY <1>8, <2>2 DEF Undisturbed, Grows
    <3>2. withdrawals[x].status = "pending"
      BY <1>1, <1>2, <1>3, <1>11, <3>1 DEF WithdrawalOK, WithdrawalCall, TheWithdrawal
    <3>3. S = {}
      <4>1. \A b \in Workers : b # c => calls[b].on # WithdrawalRef(x)
        BY <1>1, <1>3, <1>11, <3>1, OnlyOne
      <4> QED BY <1>11, <1>12, <4>1 DEF Settling
    <3>4. Answered(x) = 0
      BY <1>3, <1>11, <3>1, <3>2, <3>3 DEF WithdrawalOK, WithdrawalRow
    <3> QED BY <1>2, <1>3, <1>10, <1>11, <1>14, <3>1, <3>2, <3>4 DEF WithdrawalOK, WithdrawalRow
  <2>3. WithdrawalRef(x)' = ref
    BY <1>11 DEF WithdrawalRef
  <2> QED BY <1>11, <1>12, <2>1, <2>2, <2>3 DEF WithdrawalRow
<1>16. ASSUME NEW b \in Workers PROVE WithdrawalCall(b)'
  <2>1. CASE b = c
    BY <1>1, <1>2, <1>4, <1>8, <2>1
       DEF Turns, WithdrawalOK, WithdrawalCall, At, TheWithdrawal, Grows
  <2>2. CASE b # c
    BY <1>2, <1>4, <1>8, <2>2 DEF Turns, WithdrawalOK, WithdrawalCall, At, TheWithdrawal, Grows
  <2> QED BY <2>1, <2>2
<1>17. WithdrawalOK'
  BY <1>1, <1>2, <1>3, <1>4, <1>8, <1>10, <1>15, <1>16, WithdrawalMoves DEF Payers
<1> QED BY <1>6, <1>7, <1>9, <1>17 DEF WithdrawalStepped

\* The provider paid, and its answer was an error.
LEMMA PaidAndLost ==
  ASSUME CallsOK, LedgerOK, WithdrawalOK, RacesOK, raced \subseteq raced', NEW c \in Workers,
         PayoutLost(c)
  PROVE  WithdrawalStepped
<1>1. PICK op, x, on, mem :
        op = calls[c].op /\ x = calls[c].on[2] /\ on = calls[c].on /\ mem = calls[c].mem
  OBVIOUS
<1>2. /\ op \in {"withdraw", "approve"} /\ calls[c].pc = "payout" /\ UNCHANGED money
      /\ paid' = [paid EXCEPT ![x] = paid[x] + 1] /\ lost' = [lost EXCEPT ![x] = lost[x] + 1]
      /\ withdrawals' = withdrawals /\ faults < MaxFaults /\ faults' = faults + 1
      /\ work' = work /\ hurt' = hurt
      /\ calls' = [calls EXCEPT ![c] = IF op = "withdraw"
                                      THEN [calls[c] EXCEPT !.pc = "release"] ELSE Idle]
  BY <1>1 DEF PayoutLost, AtPayout, TheWithdrawal
<1>3. /\ x \in WithdrawalIds /\ on = WithdrawalRef(x) /\ on = <<"withdrawal", x>>
      /\ op \in DOMAIN work /\ Shape
  BY <1>1, <1>2 DEF CallsOK, CallTyped, WithdrawalTyped, IsRef, WithdrawalRef
<1>4. PICK new, pc, thing, m :
        /\ Turns(c, new, pc, thing, m)
        /\ \/ new = "withdraw" /\ op = new /\ pc = "release" /\ thing = on /\ m = mem
           \/ new = "idle" /\ pc = "idle" /\ thing = Nothing
  <2>1. CASE op = "withdraw"
    <3>1. calls[c] = [op |-> op, pc |-> calls[c].pc, on |-> on, mem |-> mem]
      BY <1>1, <1>3 DEF Shape
    <3>2. [calls[c] EXCEPT !.pc = "release"] =
             [op |-> op, pc |-> "release", on |-> on, mem |-> mem]
      BY <3>1
    <3>3. Turns(c, op, "release", on, mem)
      BY <1>2, <1>3, <2>1, <3>2, Replaces
    <3> QED BY <2>1, <3>3
  <2>2. CASE op # "withdraw"
    <3>1. Turns(c, "idle", "idle", Nothing, Nothing)
      BY <1>2, <1>3, <2>2, Replaces DEF Idle
    <3> QED BY <3>1
  <2> QED BY <2>1, <2>2
<1>5. WithdrawalTyped(new, pc, thing, m) /\ new \in DOMAIN work \cup {"idle"}
  BY <1>1, <1>2, <1>3, <1>4 DEF CallsOK, CallTyped, WithdrawalTyped
<1>6. /\ CallsOK' /\ hurt' = hurt
      /\ Spares(DepositOps) /\ Spares(CryptoOps) /\ Spares(MarketOps)
  <2>1. faults' \in 0..MaxFaults
    BY <1>2, LedgerBoundsAssumption DEF CallsOK
  <2>2. {new, calls[c].op} \subseteq WithdrawalOps \cup {"idle"} /\ (new = "idle" => thing = Nothing)
    BY <1>1, <1>2, <1>4 DEF WithdrawalOps
  <2> QED BY <1>2, <1>4, <1>5, <2>1, <2>2, WithdrawalTurn
<1>7. LedgerOK' /\ Covered /\ Records({}) /\ Records({"withdrawal", "admin"})
  BY <1>2, MoneyCovered, RecordsMore
<1>8. Grows /\ \A y \in WithdrawalIds : SameDebits(y)
  BY <1>6, <1>7, DebitsKept DEF Grows
<1>9. LocksStay
  BY <1>2, <1>7, <1>8, LocksKeep
<1>10. /\ \A y \in WithdrawalIds : Answered(y)' = Answered(y)
       /\ WithdrawalsTypeOK' /\ OnePending'
  BY <1>2, <1>3 DEF WithdrawalOK, WithdrawalsTypeOK, OnePending, Answered
<1>11. Settling(x)' = Settling(x)
  BY <1>1, <1>2, <1>4 DEF Turns, Settling
<1>12. WithdrawalRow(x)'
  BY <1>2, <1>3, <1>8, <1>10, <1>11, RowKept DEF WithdrawalOK
<1>13. ASSUME NEW b \in Workers PROVE WithdrawalCall(b)'
  <2>1. CASE b = c
    BY <1>1, <1>2, <1>4, <1>8, <2>1
       DEF Turns, WithdrawalOK, WithdrawalCall, At, TheWithdrawal, Grows
  <2>2. CASE b # c
    BY <1>2, <1>4, <1>8, <2>2 DEF Turns, WithdrawalOK, WithdrawalCall, At, TheWithdrawal, Grows
  <2> QED BY <2>1, <2>2
<1>14. WithdrawalOK'
  BY <1>1, <1>2, <1>3, <1>4, <1>8, <1>10, <1>12, <1>13, WithdrawalMoves DEF Payers
<1> QED BY <1>6, <1>7, <1>9, <1>14 DEF WithdrawalStepped

\* The row of a withdrawal is closed: it has been settled or its lock released.
LEMMA LocksReleased ==
  ASSUME LocksOK, UNCHANGED tradingVars, WithdrawalsTypeOK, OnePending, LedgerOK, LedgerOK', Grows,
         RacesOK, NEW kinds, Records(kinds), TradingTypeOK,
         NEW x \in WithdrawalIds, NEW w, w = withdrawals[x].wallet, w \in Wallets,
         NEW amount \in Nat, amount = withdrawals[x].amount,
         WithdrawalRef(x) \notin raced => withdrawals[x].status = "pending",
         withdrawals'[x].status # "pending", withdrawals'[x].wallet = w,
         \A y \in WithdrawalIds : y # x => withdrawals'[y] = withdrawals[y],
         wallets'[w].locked = wallets[w].locked - amount,
         wallets'[w].balance >= wallets[w].balance - amount,
         \A v \in Wallets : v # w => wallets'[v].locked = wallets[v].locked
                                     /\ wallets'[v].balance = wallets[v].balance
  PROVE  LocksOK'
<1>1. ASSUME NEW v \in Wallets, Alone(v)', v \notin excess' PROVE LockRight(v)'
  <2>1. Alone(v)
    BY <1>1 DEF Alone, Grows
  <2>2. LockRight(v) /\ held'[v] = held[v] /\ held[v] \in Int
    BY <1>1, <2>1 DEF LocksOK, tradingVars, TradingTypeOK
  <2>3. MarketTook(v) => MarketTook(v)'
    BY MarketTookStays
  <2>4. CASE v = w
    <3>1. WithdrawalRef(x) \notin raced
      BY <2>1, <2>4 DEF Alone
    <3>2. x \in PendingOn(w) /\ \A y \in WithdrawalIds : y # x => y \notin PendingOn(w)
      BY <3>1 DEF PendingOn, OnePending
    <3>3. PendingOn(w)' = {}
      BY <3>2 DEF PendingOn
    <3>4. /\ wallets[w].locked = amount + held[w]
          /\ MarketTook(w) \/ wallets[w].locked <= wallets[w].balance
      BY <2>2, <2>4, <3>2 DEF LockRight
    <3>5. /\ wallets[w].balance \in Int /\ wallets'[w].balance \in Int
          /\ wallets'[w].locked \in Int /\ wallets[w].locked \in Int
      BY DEF LedgerOK, Wallet
    <3>6. /\ wallets'[w].locked = held[w]
          /\ MarketTook(w) \/ wallets'[w].locked <= wallets'[w].balance
      BY <2>2, <2>4, <3>4, <3>5
    <3> QED BY <2>2, <2>3, <2>4, <3>3, <3>6 DEF LockRight
  <2>5. CASE v # w
    <3>1. PendingOn(v)' = PendingOn(v) /\ x \notin PendingOn(v)
      BY <2>5 DEF PendingOn
    <3>2. \A y \in PendingOn(v) : withdrawals'[y] = withdrawals[y]
      BY <3>1 DEF PendingOn
    <3> QED BY <2>2, <2>3, <2>5, <3>1, <3>2 DEF LockRight
  <2> QED BY <2>4, <2>5
<1> QED BY <1>1 DEF LocksOK

\* Where a closing call is, and what it works on.
LEMMA ClosingRow ==
  ASSUME CallsOK, WithdrawalOK, NEW c \in Workers,
         calls[c].op \in Payers, calls[c].pc # "reserve"
  PROVE  /\ TheWithdrawal(c) \in WithdrawalIds /\ calls[c].on = WithdrawalRef(TheWithdrawal(c))
         /\ RowOf(c) \in [status : {"pending", "completed", "failed"}, wallet : Wallets,
                          amount : Amounts]
         /\ calls[c].on \notin raced => RowOf(c).status = "pending"
<1>1. /\ TheWithdrawal(c) \in WithdrawalIds /\ calls[c].on = WithdrawalRef(TheWithdrawal(c))
  BY DEF CallsOK, CallTyped, WithdrawalTyped, IsRef, WithdrawalRef, Payers, TheWithdrawal
<1>2. RowOf(c) # NoWithdrawal
  BY <1>1 DEF WithdrawalOK, WithdrawalCall, Payers, RowOf
<1> QED BY <1>1, <1>2
       DEF WithdrawalOK, WithdrawalsTypeOK, WithdrawalCall, Payers, RowOf

LEMMA Released ==
  ASSUME CallsOK, LedgerOK, WithdrawalOK, RacesOK, raced \subseteq raced', NEW c \in Workers,
         ReleaseLock(c)
  PROVE  WithdrawalStepped
<1>1. PICK x, on, row, w, amount :
        /\ x = TheWithdrawal(c) /\ on = calls[c].on /\ row = withdrawals[TheWithdrawal(c)]
        /\ w = RowOf(c).wallet /\ amount = RowOf(c).amount
  OBVIOUS
<1>2. /\ calls[c].op \in {"withdraw", "reject"} /\ calls[c].pc = "release" /\ rowLock' = rowLock
      /\ paid' = paid /\ lost' = lost /\ Relock(w, -amount) /\ Finish(c)
      /\ withdrawals' = [withdrawals EXCEPT ![x].status = "failed"]
      /\ \A y \in WithdrawalIds : Answered(y)' = Answered(y)
  BY <1>1 DEF ReleaseLock, Answered
<1>3. /\ x \in WithdrawalIds /\ on = WithdrawalRef(x)
      /\ row \in [status : {"pending", "completed", "failed"}, wallet : Wallets,
                  amount : Amounts]
      /\ on \notin raced => row.status = "pending"
  BY <1>1, <1>2, ClosingRow DEF Payers, RowOf
<1>4. row.wallet = w /\ row.amount = amount /\ w \in Wallets /\ amount \in Amounts
  BY <1>1, <1>3 DEF RowOf
<1>5. amount \in Nat /\ amount \in Int /\ -amount \in Int
  BY <1>4, AmountsAssumption
<1>6. PICK new : new = [row EXCEPT !.status = "failed"]
  OBVIOUS
<1>7. /\ new.status = "failed" /\ new.wallet = w /\ new.amount = amount
      /\ new \in [status : {"pending", "completed", "failed"}, wallet : Wallets,
                  amount : Amounts]
  BY ONLY <1>3, <1>4, <1>6
<1>8. withdrawals' = [withdrawals EXCEPT ![x] = new]
  BY <1>1, <1>2, <1>6
<1>9. /\ withdrawals'[x] = new /\ WithdrawalsTypeOK'
      /\ \A y \in WithdrawalIds : y # x => withdrawals'[y] = withdrawals[y]
  BY ZenonT(40), <1>2, <1>3, <1>7, <1>8 DEF WithdrawalOK, WithdrawalsTypeOK
<1>10. /\ LedgerOK' /\ Records({})
       /\ wallets'[w].locked = wallets[w].locked + (-amount)
       /\ \A v \in Wallets : /\ wallets'[v].balance = wallets[v].balance
                             /\ v # w => wallets'[v].locked = wallets[v].locked
  BY <1>2, <1>4, <1>5, LockMoved
<1>11. Turns(c, "idle", "idle", Nothing, Nothing) /\ UNCHANGED <<work, faults, hurt>>
  BY <1>2, FinishTurns DEF CallsOK
<1>12. /\ CallsOK' /\ hurt' = hurt
       /\ Spares(DepositOps) /\ Spares(CryptoOps) /\ Spares(MarketOps)
  <2>1. WithdrawalTyped("idle", "idle", Nothing, Nothing)
    BY DEF WithdrawalTyped
  <2> QED BY <1>2, <1>11, <2>1, WithdrawalTurn DEF WithdrawalOps
<1>13. /\ Grows /\ Records({"withdrawal", "admin"}) /\ \A y \in WithdrawalIds : SameDebits(y)
  BY <1>10, <1>12, RecordsMore, DebitsKept DEF Grows
<1>14. Settling(x)' = Settling(x)
  BY <1>2, <1>11 DEF Turns, Settling
<1>15. WithdrawalRow(x)'
  <2>1. PICK ref : ref = WithdrawalRef(x)
    OBVIOUS
  <2>2. \A v \in Wallets : EntriesOf(v, ref)' = EntriesOf(v, ref)
    BY <1>3, <1>13, <2>1 DEF SameDebits
  <2>3. Undisturbed(ref)' => Undisturbed(ref)
    BY <1>13 DEF Undisturbed, Grows
  <2>4. WithdrawalRow(x) /\ (Undisturbed(ref) => row.status = "pending")
    BY <1>3, <2>1 DEF WithdrawalOK, Undisturbed
  <2>5. Answered(x)' = Answered(x)
    BY <1>2, <1>3
  <2> QED BY <1>1, <1>7, <1>9, <1>14, <2>1, <2>2, <2>3, <2>4, <2>5 DEF WithdrawalRow
<1>16. WithdrawalCall(c)'
  BY <1>11 DEF Turns, WithdrawalCall, At
<1>17. ASSUME NEW b \in Workers, b # c, calls[b].op \in Payers, calls[b].on = WithdrawalRef(x)
       PROVE  WithdrawalCall(b)'
  <2>1. WithdrawalRef(x) # Nothing /\ TheWithdrawal(b) = x
    BY <1>17 DEF WithdrawalRef, Nothing, TheWithdrawal
  <2>2. WithdrawalRef(x) \in raced'
    BY <1>1, <1>3, <1>17, <2>1 DEF RacesOK
  <2>3. calls'[b] = calls[b]
    BY <1>11, <1>17 DEF Turns
  <2>4. NoWithdrawal.status = "none"
    BY DEF NoWithdrawal
  <2>5. row # NoWithdrawal /\ new # NoWithdrawal
    BY <1>3, <1>7, <2>4
  <2> QED BY <1>1, <1>9, <1>17, <2>1, <2>2, <2>3, <2>5
       DEF WithdrawalCall, TheWithdrawal, At, WithdrawalOK
<1>18. OnePending'
  BY <1>7, <1>9 DEF WithdrawalOK, OnePending
<1>19. WithdrawalOK'
  BY <1>1, <1>2, <1>3, <1>9, <1>11, <1>13, <1>15, <1>16, <1>17, <1>18, WithdrawalMoves
     DEF Payers
<1>20. ASSUME LocksOK, TradingTypeOK, UNCHANGED tradingVars PROVE LocksOK'
  <2>1. wallets[w].locked \in Int /\ wallets[w].balance \in Int
    BY <1>4 DEF LedgerOK, Wallet
  <2>2. /\ wallets'[w].locked = wallets[w].locked - amount
        /\ wallets'[w].balance >= wallets[w].balance - amount
    <3>1. wallets'[w].balance = wallets[w].balance
      BY <1>4, <1>10
    <3> QED BY <1>5, <1>10, <2>1, <3>1
  <2>3. WithdrawalRef(x) \notin raced => withdrawals[x].status = "pending"
    BY <1>1, <1>3
  <2> QED BY <1>1, <1>3, <1>4, <1>5, <1>7, <1>9, <1>10, <1>13, <1>20, <2>2, <2>3, LocksReleased
          DEF WithdrawalOK
<1> QED BY <1>10, <1>12, <1>13, <1>19, <1>20 DEF WithdrawalStepped, LocksStay

LEMMA Settled ==
  ASSUME CallsOK, LedgerOK, WithdrawalOK, RacesOK, raced \subseteq raced', NEW c \in Workers,
         Settle(c)
  PROVE  WithdrawalStepped
<1>1. PICK x, on, row, w, amount :
        /\ x = TheWithdrawal(c) /\ on = calls[c].on /\ row = withdrawals[TheWithdrawal(c)]
        /\ w = RowOf(c).wallet /\ amount = RowOf(c).amount
  OBVIOUS
<1>2. /\ calls[c].op \in {"withdraw", "approve"} /\ calls[c].pc = "settle" /\ rowLock' = rowLock
      /\ paid' = paid /\ lost' = lost /\ Finish(c)
      /\ Post(Moves(w, -amount, -amount, WithdrawalRef(x)))
      /\ withdrawals' = [withdrawals EXCEPT ![x].status = "completed"]
      /\ \A y \in WithdrawalIds : Answered(y)' = Answered(y)
  BY <1>1 DEF Settle, Answered
<1>3. /\ x \in WithdrawalIds /\ on = WithdrawalRef(x)
      /\ row \in [status : {"pending", "completed", "failed"}, wallet : Wallets,
                  amount : Amounts]
      /\ on \notin raced => row.status = "pending"
  BY <1>1, <1>2, ClosingRow DEF Payers, RowOf
<1>4. row.wallet = w /\ row.amount = amount /\ w \in Wallets /\ amount \in Amounts
  BY <1>1, <1>3 DEF RowOf
<1>5. amount \in Nat /\ amount \in Int /\ -amount \in Int
  BY <1>4, AmountsAssumption
<1>6. PICK new : new = [row EXCEPT !.status = "completed"]
  OBVIOUS
<1>7. /\ new.status = "completed" /\ new.wallet = w /\ new.amount = amount
      /\ new \in [status : {"pending", "completed", "failed"}, wallet : Wallets,
                  amount : Amounts]
  BY ONLY <1>3, <1>4, <1>6
<1>8. withdrawals' = [withdrawals EXCEPT ![x] = new]
  BY <1>1, <1>2, <1>6
<1>9. /\ withdrawals'[x] = new /\ WithdrawalsTypeOK'
      /\ \A y \in WithdrawalIds : y # x => withdrawals'[y] = withdrawals[y]
  BY <1>2, <1>3, <1>7, <1>8 DEF WithdrawalOK, WithdrawalsTypeOK
<1>10. PICK ref : ref = WithdrawalRef(x) /\ ref[1] = "withdrawal"
  <2>1. WithdrawalRef(x)[1] = "withdrawal"
    BY DEF WithdrawalRef
  <2> QED BY <2>1
<1>11. ref \in Refs /\ rowLock' \in [Wallets -> Workers \cup {NoCall}]
  BY <1>2, <1>3, <1>10 DEF WithdrawalRef, Refs, LedgerOK
<1>12. /\ LedgerOK' /\ Records({"withdrawal"}) /\ RecordsOne(w, ref, -amount)
       /\ Changed(w, -amount, -amount, ref) /\ \A v \in Wallets : v # w => Left(v)
  BY <1>2, <1>4, <1>5, <1>10, <1>11, PostOne
<1>13. Turns(c, "idle", "idle", Nothing, Nothing) /\ UNCHANGED <<work, faults, hurt>>
  BY <1>2, FinishTurns DEF CallsOK
<1>14. /\ CallsOK' /\ hurt' = hurt
       /\ Spares(DepositOps) /\ Spares(CryptoOps) /\ Spares(MarketOps)
  <2>1. WithdrawalTyped("idle", "idle", Nothing, Nothing)
    BY DEF WithdrawalTyped
  <2> QED BY <1>2, <1>13, <2>1, WithdrawalTurn DEF WithdrawalOps
<1>15. Grows /\ Records({"withdrawal", "admin"})
  BY <1>12, <1>14, RecordsMore DEF Grows
<1>16. ASSUME NEW y \in WithdrawalIds, y # x PROVE SameDebits(y)
  <2>1. WithdrawalRef(y) # ref
    BY <1>10, <1>16 DEF WithdrawalRef
  <2> QED BY <1>4, <1>12, <2>1, OthersRecorded DEF SameDebits
<1>17. PICK S : S = Settling(x) /\ IsFiniteSet(S) /\ c \in S
  <2>1. c \in Settling(x)
    BY <1>1, <1>2, <1>3 DEF Settling
  <2> QED BY <2>1, SettlingFinite
<1>18. Settling(x)' = S \ {c}
  BY <1>13, <1>17 DEF Settling, Turns
<1>19. /\ Cardinality(S) \in Nat /\ Cardinality(S \ {c}) = Cardinality(S) - 1
  BY <1>17, FS_RemoveElement, FS_CardinalityType
<1>20. /\ \A v \in Wallets : v # w => EntriesOf(v, ref)' = EntriesOf(v, ref)
       /\ Cardinality(EntriesOf(w, ref))' = Cardinality(EntriesOf(w, ref)) + 1
       /\ \A v \in Wallets : Cardinality(EntriesOf(v, ref)) \in Nat
  BY <1>4, <1>12, OneRecorded, EntriesFinite
<1>21. WithdrawalRow(x)'
  <2>1. Answered(x)' = Answered(x) /\ Answered(x) \in Int
    BY <1>2, <1>3 DEF WithdrawalOK, WithdrawalsTypeOK, Answered
  <2>2. ASSUME NEW v \in Wallets
        PROVE  Cardinality(EntriesOf(v, ref))' + Cardinality(S \ {c}) <= Answered(x)'
    <3>1. PICK n, k, p, m : /\ n = Cardinality(EntriesOf(v, ref)) /\ k = Cardinality(S)
                            /\ p = Answered(x) /\ m = Cardinality(EntriesOf(v, ref))'
      OBVIOUS
    <3>2. n + k <= p
      BY <1>3, <1>10, <1>17, <2>2, <3>1 DEF WithdrawalOK, WithdrawalRow
    <3>3. m = n \/ m = n + 1
      BY <1>20, <2>2, <3>1
    <3>4. n \in Nat /\ k \in Nat /\ p \in Int /\ m + (k - 1) <= p
      BY <1>19, <1>20, <2>1, <2>2, <3>1, <3>2, <3>3
    <3> QED BY <1>19, <2>1, <3>1, <3>4
  <2>3. ASSUME Undisturbed(ref)'
        PROVE  /\ Answered(x)' = 1
               /\ \A v \in Wallets :
                     Cardinality(EntriesOf(v, ref))' = IF w = v THEN 1 ELSE 0
    <3>1. Undisturbed(ref) /\ ref \notin raced
      BY <1>15, <2>3 DEF Undisturbed, Grows
    <3>2. row.status = "pending"
      BY <1>3, <1>10, <3>1
    <3>3. Answered(x) = 1 /\ \A v \in Wallets : Cardinality(EntriesOf(v, ref)) = 0
      BY <1>1, <1>3, <1>10, <1>17, <3>1, <3>2 DEF WithdrawalOK, WithdrawalRow
    <3> QED BY <1>4, <1>20, <2>1, <3>3
  <2>4. WithdrawalRef(x)' = ref
    BY <1>10 DEF WithdrawalRef
  <2> QED BY <1>7, <1>9, <1>10, <1>18, <2>2, <2>3, <2>4 DEF WithdrawalRow
<1>22. WithdrawalCall(c)'
  BY <1>13 DEF Turns, WithdrawalCall, At
<1>23. ASSUME NEW b \in Workers, b # c, calls[b].op \in Payers, calls[b].on = WithdrawalRef(x)
       PROVE  WithdrawalCall(b)'
  <2>1. WithdrawalRef(x) # Nothing /\ TheWithdrawal(b) = x
    BY <1>23 DEF WithdrawalRef, Nothing, TheWithdrawal
  <2>2. WithdrawalRef(x) \in raced'
    BY <1>1, <1>3, <1>23, <2>1 DEF RacesOK
  <2>3. calls'[b] = calls[b]
    BY <1>13, <1>23 DEF Turns
  <2>4. NoWithdrawal.status = "none"
    BY DEF NoWithdrawal
  <2>5. row # NoWithdrawal /\ new # NoWithdrawal
    BY <1>3, <1>7, <2>4
  <2> QED BY <1>1, <1>9, <1>23, <2>1, <2>2, <2>3, <2>5
       DEF WithdrawalCall, TheWithdrawal, At, WithdrawalOK
<1>24. OnePending'
  BY <1>7, <1>9 DEF WithdrawalOK, OnePending
<1>25. WithdrawalOK'
  BY <1>1, <1>2, <1>3, <1>9, <1>13, <1>15, <1>16, <1>21, <1>22, <1>23, <1>24, WithdrawalMoves
     DEF Payers
<1>26. ASSUME LocksOK, TradingTypeOK, UNCHANGED tradingVars PROVE LocksOK'
  <2>1. wallets[w].locked \in Int /\ wallets[w].balance \in Int
    BY <1>4 DEF LedgerOK, Wallet
  <2>2. /\ wallets'[w].locked = wallets[w].locked - amount
        /\ wallets'[w].balance >= wallets[w].balance - amount
    BY SMTT(30), <1>5, <1>12, <2>1 DEF Changed
  <2>3. WithdrawalRef(x) \notin raced => withdrawals[x].status = "pending"
    BY <1>1, <1>3
  <2>4. \A v \in Wallets : v # w => wallets'[v].locked = wallets[v].locked
                                     /\ wallets'[v].balance = wallets[v].balance
    BY <1>12 DEF Left
  <2> QED BY <1>1, <1>3, <1>4, <1>5, <1>7, <1>9, <1>12, <1>15, <1>26, <2>2, <2>3, <2>4,
             LocksReleased
          DEF WithdrawalOK
<1> QED BY <1>12, <1>14, <1>15, <1>25, <1>26 DEF WithdrawalStepped, LocksStay

\* The admin's adjustments.
LEMMA AdminBegins ==
  ASSUME CallsOK, LedgerOK, WithdrawalOK, raced \subseteq raced', NEW c \in Workers,
         NEW w \in Wallets, NEW amount \in Amounts,
         AdminCredit(c, w, amount) \/ AdminDebit(c, w, amount)
  PROVE  WithdrawalStepped
<1>1. PICK op, mem : /\ op \in {"credit", "debit"} /\ mem = [wallet |-> w, amount |-> amount]
                     /\ Begin(c, op, op, AdminRef, mem)
  BY DEF AdminCredit, AdminDebit
<1>2. UNCHANGED money /\ UNCHANGED withdrawalVars /\ UNCHANGED withdrawals
  BY DEF AdminCredit, AdminDebit, withdrawalVars
<1>3. /\ Turns(c, op, op, AdminRef, mem) /\ calls[c].op = "idle" /\ op \in DOMAIN work
      /\ UNCHANGED <<work, faults, hurt>>
  BY <1>1, BeginTurns DEF CallsOK
<1>4. WithdrawalTyped(op, op, AdminRef, mem)
  BY <1>1 DEF WithdrawalTyped, Fiat
<1>5. /\ CallsOK' /\ hurt' = hurt
      /\ Spares(DepositOps) /\ Spares(CryptoOps) /\ Spares(MarketOps)
  BY <1>1, <1>3, <1>4, WithdrawalTurn DEF WithdrawalOps
<1>6. LedgerOK' /\ Covered /\ Records({}) /\ Records({"withdrawal", "admin"})
  BY <1>2, MoneyCovered, RecordsMore
<1>7. Grows /\ Spares(Payers)
  BY <1>1, <1>3, <1>5, TurnsSpare DEF Grows, Payers
<1>8. WithdrawalOK' /\ LocksStay
  BY <1>2, <1>6, <1>7, WithdrawalKeeps, LocksKeep
<1> QED BY <1>5, <1>6, <1>8 DEF WithdrawalStepped

LEMMA Adjusted ==
  ASSUME CallsOK, LedgerOK, WithdrawalOK, raced \subseteq raced', NEW c \in Workers,
         Credit(c) \/ Debit(c)
  PROVE  WithdrawalStepped
<1>1. PICK op, w, amount : /\ op = calls[c].op /\ w = calls[c].mem.wallet
                           /\ amount = calls[c].mem.amount
  OBVIOUS
<1>2. /\ op \in {"credit", "debit"} /\ rowLock' = rowLock /\ Finish(c)
      /\ withdrawals' = withdrawals /\ UNCHANGED withdrawalVars
      /\ \/ UNCHANGED <<wallets, ledger>>
         \/ Post(Moves(w, amount, 0, AdminRef))
         \/ Available(w) >= amount /\ Post(Moves(w, -amount, 0, AdminRef))
  BY <1>1 DEF Credit, Debit, At, withdrawalVars
<1>3. w \in Wallets /\ amount \in Amounts
  BY <1>1, <1>2 DEF CallsOK, CallTyped, WithdrawalTyped, Fiat
<1>4. amount \in Nat /\ amount \in Int /\ -amount \in Int /\ 0 \in Int /\ amount >= 0
  BY <1>3, AmountsAssumption
<1>5. PICK ref : ref = AdminRef /\ ref \in Refs /\ ref[1] = "admin"
  <2>1. AdminRef \in Refs /\ AdminRef[1] = "admin"
    BY DEF AdminRef, Refs
  <2> QED BY <2>1
<1>6. rowLock' \in [Wallets -> Workers \cup {NoCall}]
  BY <1>2 DEF LedgerOK
<1>7. LedgerOK' /\ Covered /\ Records({"admin"})
  <2>1. CASE UNCHANGED <<wallets, ledger>>
    <3>1. UNCHANGED money
      BY <1>2, <2>1 DEF money
    <3> QED BY <3>1, MoneyCovered, RecordsMore
  <2>2. CASE Post(Moves(w, amount, 0, AdminRef))
    <3>1. /\ LedgerOK' /\ Records({"admin"}) /\ Changed(w, amount, 0, ref)
          /\ \A v \in Wallets : v # w => Left(v)
      BY <1>3, <1>4, <1>5, <1>6, <2>2, PostOne
    <3> QED BY <1>3, <1>4, <3>1, MoveCovered
  <2>3. CASE Available(w) >= amount /\ Post(Moves(w, -amount, 0, AdminRef))
    <3>1. PICK delta : delta = -amount /\ delta \in Int /\ -delta = amount
      BY <1>4
    <3>2. /\ LedgerOK' /\ Records({"admin"}) /\ Changed(w, delta, 0, ref)
          /\ \A v \in Wallets : v # w => Left(v)
      BY <1>3, <1>4, <1>5, <1>6, <2>3, <3>1, PostOne
    <3>3. Available(w) >= -delta
      BY <2>3, <3>1
    <3> QED BY <1>3, <3>1, <3>2, <3>3, MoveCovered
  <2> QED BY <1>2, <2>1, <2>2, <2>3
<1>8. Turns(c, "idle", "idle", Nothing, Nothing) /\ UNCHANGED <<work, faults, hurt>>
  BY <1>2, FinishTurns DEF CallsOK
<1>9. /\ CallsOK' /\ hurt' = hurt
      /\ Spares(DepositOps) /\ Spares(CryptoOps) /\ Spares(MarketOps)
  <2>1. WithdrawalTyped("idle", "idle", Nothing, Nothing)
    BY DEF WithdrawalTyped
  <2> QED BY <1>1, <1>2, <1>8, <2>1, WithdrawalTurn DEF WithdrawalOps
<1>10. Grows /\ Spares(Payers) /\ Records({"withdrawal", "admin"})
  BY <1>1, <1>2, <1>7, <1>8, <1>9, TurnsSpare, RecordsMore DEF Grows, Payers
<1>11. WithdrawalOK' /\ LocksStay
  <2>1. "withdrawal" \notin {"admin"}
    OBVIOUS
  <2> QED BY <1>2, <1>7, <1>10, <2>1, WithdrawalKeeps, LocksKeep
<1> QED BY <1>7, <1>9, <1>10, <1>11 DEF WithdrawalStepped

LEMMA WithdrawalSteps ==
  ASSUME CallsOK, LedgerOK, WithdrawalOK, RacesOK, raced \subseteq raced', WithdrawalNext
  PROVE  WithdrawalStepped
<1>1. PICK c \in Workers :
        \/ WithdrawalStep(c)
        \/ \E w \in Wallets, amount \in Amounts :
              \/ \E x \in WithdrawalIds : InitiateWithdrawal(c, x, w, amount)
              \/ AdminCredit(c, w, amount)
              \/ AdminDebit(c, w, amount)
        \/ \E x \in WithdrawalIds : ApproveWithdrawal(c, x) \/ RejectWithdrawal(c, x)
  BY DEF WithdrawalNext
<1>2. CASE PayoutRefused(c)
  <2>1. /\ calls[c].op \in Payers /\ calls[c].pc = "payout" /\ UNCHANGED money
        /\ UNCHANGED withdrawalVars
        /\ Finish(c) \/ (Goto(c, "release") /\ calls[c].op = "withdraw")
    BY <1>2 DEF PayoutRefused, AtPayout, TakenAsRefused, Payers
  <2> QED BY <2>1, WithdrawalLeaves
<1> QED BY <1>1, <1>2, WithdrawalBegins, Reserved, PaidOut, PaidAndLost, Settled, Released,
           AdminBegins, Adjusted DEF WithdrawalStep

-----------------------------------------------------------------------------
\* On-chain wallets.

\* What is recorded of a thing is the same.
SameEntries(ref) ==
    /\ \A w \in Wallets : EntriesOf(w, ref)' = EntriesOf(w, ref)
    /\ Recorded(ref)' <=> Recorded(ref)
    /\ RecordedTwice(ref)' <=> RecordedTwice(ref)

LEMMA ChainEntriesKept ==
  ASSUME NEW kinds, Records(kinds), "tx" \notin kinds, "send" \notin kinds
  PROVE  /\ \A t : SameEntries(TxRef(t))
         /\ \A x : SameEntries(SendRef(x))
<1>1. ASSUME NEW t PROVE SameEntries(TxRef(t))
  <2>1. TxRef(t)[1] \notin kinds
    BY DEF TxRef
  <2> QED BY <2>1, RecordsKeep DEF SameEntries
<1>2. ASSUME NEW x PROVE SameEntries(SendRef(x))
  <2>1. SendRef(x)[1] \notin kinds
    BY DEF SendRef
  <2> QED BY <2>1, RecordsKeep DEF SameEntries
<1> QED BY <1>1, <1>2

\* Another call keeps what it knows when what it is about is the same, or the
\* two have raced.
LEMMA CryptoCallKept ==
  ASSUME CryptoOK, CallsOK, Grows, NEW b \in Workers, calls'[b] = calls[b],
         NEW on, on = calls[b].on,
         \A v \in Wallets : addresses'[v] = addresses[v] \/ addresses[v] = NoAddress,
         \A v \in Wallets : on \in raced' \/ on # ChainRef(addresses'[v].chain)
                            \/ addresses'[v] = addresses[v],
         \A t \in TxIds : onchain'[t] = onchain[t] \/ onchain[t] = NoTx,
         calls[b].op = "webhook" => on \in raced' \/ (Recorded(on)' <=> Recorded(on)),
         calls[b].op = "send" => /\ sent'[on[2]] = sent[on[2]]
                                 /\ Recorded(on)' <=> Recorded(on)
  PROVE  CryptoCall(b)'
<1>1. CryptoCall(b) /\ CryptoTyped(calls[b].op, calls[b].pc, on, calls[b].mem)
  BY DEF CryptoOK, CallsOK, CallTyped
<1>2. At(b, "address", "save")' /\ on \notin raced' =>
          \/ calls[b].mem.address.chain = "solana"
          \/ \A v \in Wallets : addresses'[v].chain = calls[b].mem.address.chain =>
                addresses'[v].index < calls[b].mem.address.index
  <2> SUFFICES ASSUME At(b, "address", "save"), on \notin raced',
                      calls[b].mem.address.chain # "solana",
                      NEW v \in Wallets, addresses'[v].chain = calls[b].mem.address.chain
               PROVE  addresses'[v].index < calls[b].mem.address.index
    BY DEF At
  <2>1. on = ChainRef(calls[b].mem.address.chain)
    BY <1>1 DEF CryptoTyped, At
  <2>2. addresses'[v] = addresses[v]
    BY <2>1
  <2> QED BY <1>1, <2>2 DEF CryptoCall, Grows
<1>3. calls[b].op = "webhook" =>
          LET t == on[2]
              w == IF calls[b].pc = "credit" THEN calls[b].mem.wallet ELSE calls[b].mem IN
          /\ onchain'[t] # NoTx /\ addresses'[w] = onchain'[t].to
          /\ calls[b].pc # "seen" /\ on \notin raced' => ~Recorded(on)'
  <2> SUFFICES ASSUME calls[b].op = "webhook"
               PROVE  LET t == on[2]
                          w == IF calls[b].pc = "credit" THEN calls[b].mem.wallet
                               ELSE calls[b].mem IN
                      /\ onchain'[t] # NoTx /\ addresses'[w] = onchain'[t].to
                      /\ calls[b].pc # "seen" /\ on \notin raced' => ~Recorded(on)'
    OBVIOUS
  <2>1. PICK t, w : t = on[2] /\ w = IF calls[b].pc = "credit" THEN calls[b].mem.wallet
                                     ELSE calls[b].mem
    OBVIOUS
  <2>2. t \in TxIds /\ w \in Wallets
    BY <1>1, <2>1 DEF CryptoTyped, IsRef
  <2>3. /\ onchain[t] # NoTx /\ addresses[w] = onchain[t].to
        /\ calls[b].pc # "seen" /\ on \notin raced => ~Recorded(on)
    BY <1>1, <2>1 DEF CryptoCall
  <2>4. onchain'[t] = onchain[t] /\ onchain[t].to # NoAddress
    BY <2>2, <2>3 DEF CryptoOK, TxRow
  <2>5. addresses'[w] = addresses[w]
    BY <2>2, <2>3, <2>4
  <2> QED BY <2>1, <2>3, <2>4, <2>5 DEF Grows
<1>4. calls[b].op = "send" => /\ sent'[on[2]] = 0
                              /\ calls[b].pc = "provider" <=> Recorded(on)'
  BY <1>1 DEF CryptoCall
<1>5. calls'[b].on = on
  OBVIOUS
<1> QED BY <1>2, <1>3, <1>4, <1>5 DEF CryptoCall, At

LEMMA SendersTurn ==
  ASSUME SendersDiffer, NEW c \in Workers,
         NEW op, NEW pc, NEW on, NEW mem, Turns(c, op, pc, on, mem),
         op = "send" => \/ calls[c].op = "send" /\ calls[c].on = on
                        \/ \A b \in Workers : calls[b].on # on
  PROVE  SendersDiffer'
BY DEF Turns, SendersDiffer

LEMMA TxRowKept ==
  ASSUME NEW t \in TxIds, TxRow(t), Grows, SameEntries(TxRef(t)), onchain'[t] = onchain[t],
         \A v \in Wallets : addresses'[v] = addresses[v] \/ addresses[v] = NoAddress
  PROVE  TxRow(t)'
<1>1. PICK ref : ref = TxRef(t)
  OBVIOUS
<1>2. /\ \A w \in Wallets : EntriesOf(w, ref)' = EntriesOf(w, ref)
      /\ Recorded(ref)' <=> Recorded(ref)
      /\ RecordedTwice(ref)' <=> RecordedTwice(ref)
  BY <1>1 DEF SameEntries
<1>3. TxRef(t)' = ref
  BY <1>1 DEF TxRef
<1>4. \A w \in Wallets : EntriesOf(w, ref)' # {} => addresses'[w] = onchain'[t].to
  <2> SUFFICES ASSUME NEW w \in Wallets, EntriesOf(w, ref)' # {}
               PROVE  addresses'[w] = onchain'[t].to
    OBVIOUS
  <2>1. EntriesOf(w, ref) # {}
    BY <1>2
  <2>2. addresses[w] = onchain[t].to /\ Recorded(ref)
    BY <1>1, <2>1 DEF TxRow, Recorded
  <2>3. addresses[w] # NoAddress
    BY <1>1, <2>2 DEF TxRow
  <2> QED BY <2>2, <2>3
<1> QED BY <1>1, <1>2, <1>3, <1>4 DEF TxRow, Grows

LEMMA SendRowKept ==
  ASSUME NEW x \in SendIds, SendRow(x), SameEntries(SendRef(x)), sent'[x] = sent[x]
  PROVE  SendRow(x)'
<1>1. PICK ref : ref = SendRef(x)
  OBVIOUS
<1>2. SendRef(x)' = ref
  BY <1>1 DEF SendRef
<1> QED BY <1>1, <1>2 DEF SameEntries, SendRow

\* What a call of the chains is about.
LEMMA ChainThing ==
  ASSUME CallsOK, NEW b \in Workers, NEW on, on = calls[b].on
  PROVE  /\ calls[b].op = "webhook" => on[2] \in TxIds /\ on = TxRef(on[2])
         /\ calls[b].op = "send" => on[2] \in SendIds /\ on = SendRef(on[2])
BY DEF CallsOK, CallTyped, CryptoTyped, IsRef, TxRef, SendRef

\* Nothing of the chains changes but at most one call.
LEMMA CryptoCallTurns ==
  ASSUME CryptoOK, CallsOK, Grows, UNCHANGED cryptoVars, NEW kinds, Records(kinds),
         "tx" \notin kinds, "send" \notin kinds, NEW c \in Workers,
         NEW op, NEW pc, NEW on, NEW mem, Turns(c, op, pc, on, mem), CryptoCall(c)',
         op = "send" => \/ calls[c].op = "send" /\ calls[c].on = on
                        \/ \A b \in Workers : calls[b].on # on
  PROVE  CryptoOK'
<1>1. addresses' = addresses /\ onchain' = onchain /\ sent' = sent
  BY DEF cryptoVars
<1>2. (\A t : SameEntries(TxRef(t))) /\ \A x : SameEntries(SendRef(x))
  BY ChainEntriesKept
<1>3. ASSUME NEW b \in Workers, b # c PROVE CryptoCall(b)'
  <2>1. PICK k : k = calls[b].on
    OBVIOUS
  <2>2. /\ calls[b].op = "webhook" => (Recorded(k)' <=> Recorded(k))
        /\ calls[b].op = "send" => (Recorded(k)' <=> Recorded(k))
    BY <1>2, <2>1, ChainThing DEF SameEntries
  <2>3. calls'[b] = calls[b]
    BY <1>3 DEF Turns
  <2> QED BY <1>1, <2>1, <2>2, <2>3, CryptoCallKept
<1>4. \A t \in TxIds : TxRow(t)'
  BY <1>1, <1>2, TxRowKept DEF CryptoOK
<1>5. \A x \in SendIds : SendRow(x)'
  BY <1>1, <1>2, SendRowKept DEF CryptoOK
<1>6. SendersDiffer'
  BY SendersTurn DEF CryptoOK
<1>7. CryptoTypeOK' /\ AddressesDiffer'
  BY <1>1 DEF CryptoOK, CryptoTypeOK, AddressesDiffer, Grows
<1> QED BY <1>3, <1>4, <1>5, <1>6, <1>7 DEF CryptoOK

LEMMA CryptoKeeps ==
  ASSUME CryptoOK, CallsOK, Grows, UNCHANGED cryptoVars, Spares(CryptoOps), NEW kinds,
         Records(kinds), "tx" \notin kinds, "send" \notin kinds
  PROVE  CryptoOK'
<1>1. addresses' = addresses /\ onchain' = onchain /\ sent' = sent
  BY DEF cryptoVars
<1>2. (\A t : SameEntries(TxRef(t))) /\ \A x : SameEntries(SendRef(x))
  BY ChainEntriesKept
<1>3. ASSUME NEW b \in Workers PROVE CryptoCall(b)'
  <2>1. PICK k : k = calls[b].on
    OBVIOUS
  <2>2. /\ calls[b].op = "webhook" => (Recorded(k)' <=> Recorded(k))
        /\ calls[b].op = "send" => (Recorded(k)' <=> Recorded(k))
    BY <1>2, <2>1, ChainThing DEF SameEntries
  <2>3. CASE calls'[b] = calls[b]
    BY <1>1, <2>1, <2>2, <2>3, CryptoCallKept
  <2>4. CASE calls'[b].op \notin CryptoOps
    BY <2>4 DEF CryptoCall, At, CryptoOps
  <2> QED BY <2>3, <2>4 DEF Spares
<1>4. \A t \in TxIds : TxRow(t)'
  BY <1>1, <1>2, TxRowKept DEF CryptoOK
<1>5. \A x \in SendIds : SendRow(x)'
  BY <1>1, <1>2, SendRowKept DEF CryptoOK
<1>6. SendersDiffer'
  <2>1. \A b \in Workers : calls'[b].op = "send" => calls'[b] = calls[b]
    BY DEF Spares, CryptoOps
  <2> QED BY <2>1 DEF CryptoOK, SendersDiffer
<1>7. CryptoTypeOK' /\ AddressesDiffer'
  BY <1>1 DEF CryptoOK, CryptoTypeOK, AddressesDiffer, Grows
<1> QED BY <1>3, <1>4, <1>5, <1>6, <1>7 DEF CryptoOK

\* Where a call of the chains may go.
LEMMA CryptoTurn ==
  ASSUME CallsOK, NEW c \in Workers, NEW op, NEW pc, NEW on, NEW mem,
         Turns(c, op, pc, on, mem), UNCHANGED <<work, faults, hurt>>,
         op \in DOMAIN work \cup {"idle"}, {op, calls[c].op} \subseteq CryptoOps \cup {"idle"},
         op = "idle" => on = Nothing, CryptoTyped(op, pc, on, mem)
  PROVE  /\ CallsOK' /\ hurt' = hurt
         /\ Spares(DepositOps) /\ Spares(WithdrawalOps) /\ Spares(MarketOps)
<1>1. CallTyped(op, pc, on, mem)
  BY DEF CallTyped, CryptoOps, DepositTyped, DepositOps, Openers, WithdrawalTyped,
         MarketTyped, MarketOps
<1>2. faults' \in 0..MaxFaults
  BY DEF CallsOK
<1>3. CallsOK'
  BY <1>1, <1>2, CallTurns
<1>4. /\ op \notin DepositOps \cup WithdrawalOps \cup MarketOps
      /\ calls[c].op \notin DepositOps \cup WithdrawalOps \cup MarketOps
  BY DEF DepositOps, WithdrawalOps, CryptoOps, MarketOps
<1> QED BY <1>3, <1>4, TurnsSpare

CryptoKinds == {"tx", "send", "transfer"}

\* What every step of the on-chain wallets does.
CryptoStepped ==
    /\ CallsOK' /\ LedgerOK' /\ CryptoOK' /\ Covered /\ Records(CryptoKinds) /\ hurt' = hurt
    /\ Spares(DepositOps) /\ Spares(WithdrawalOps) /\ Spares(MarketOps)

\* A step that only moves its call.
LEMMA CryptoLooks ==
  ASSUME CallsOK, LedgerOK, CryptoOK, raced \subseteq raced', NEW c \in Workers,
         NEW op, NEW pc, NEW on, NEW mem,
         Turns(c, op, pc, on, mem), UNCHANGED <<work, faults, hurt>>, UNCHANGED money,
         UNCHANGED cryptoVars,
         op \in DOMAIN work \cup {"idle"}, {op, calls[c].op} \subseteq CryptoOps \cup {"idle"},
         op = "idle" => on = Nothing, CryptoTyped(op, pc, on, mem), CryptoCall(c)',
         op = "send" => \/ calls[c].op = "send" /\ calls[c].on = on
                        \/ \A b \in Workers : calls[b].on # on
  PROVE  CryptoStepped
<1>1. /\ CallsOK' /\ hurt' = hurt
      /\ Spares(DepositOps) /\ Spares(WithdrawalOps) /\ Spares(MarketOps)
  BY CryptoTurn
<1>2. LedgerOK' /\ Covered /\ Records({}) /\ Records(CryptoKinds)
  BY MoneyCovered, RecordsMore
<1>3. CryptoOK'
  BY <1>1, <1>2, CryptoCallTurns DEF Grows
<1> QED BY <1>1, <1>2, <1>3 DEF CryptoStepped

\* A call ends, and that is all.
LEMMA CryptoEnds ==
  ASSUME CallsOK, LedgerOK, CryptoOK, raced \subseteq raced', NEW c \in Workers,
         calls[c].op \in CryptoOps, Finish(c), UNCHANGED money, UNCHANGED cryptoVars
  PROVE  CryptoStepped
<1>1. Turns(c, "idle", "idle", Nothing, Nothing) /\ UNCHANGED <<work, faults, hurt>>
  BY FinishTurns DEF CallsOK
<1>2. CryptoTyped("idle", "idle", Nothing, Nothing)
  BY DEF CryptoTyped
<1>3. CryptoCall(c)'
  BY <1>1 DEF Turns, CryptoCall, At
<1> QED BY <1>1, <1>2, <1>3, CryptoLooks

\* The largest of finitely many numbers.
LEMMA LargestThere ==
  ASSUME NEW S, IsFiniteSet(S), NEW h, \A x \in S : h[x] \in Nat
  PROVE  \E m \in {0} \cup {h[x] : x \in S} : \A y \in {0} \cup {h[x] : x \in S} : m >= y
<1> DEFINE Numbers(T) == {0} \cup {h[x] : x \in T}
           Bad == {T \in SUBSET S : ~ \E m \in Numbers(T) : \A y \in Numbers(T) : m >= y}
<1>1. ASSUME Bad # {} PROVE FALSE
  <2>1. PICK T \in Bad : \A U \in SUBSET T : U # T => U \notin Bad
    <3> HIDE DEF Bad
    <3>1. Bad \in SUBSET (SUBSET S)
      BY DEF Bad
    <3> QED BY <1>1, <3>1, SmallestSubset
  <2>2. T # {}
    OBVIOUS
  <2>3. PICK x \in T : TRUE
    BY <2>2
  <2>4. PICK U : U = T \ {x}
    OBVIOUS
  <2>5. PICK m \in Numbers(U) : \A y \in Numbers(U) : m >= y
    BY <2>1, <2>3, <2>4
  <2>6. Numbers(T) = Numbers(U) \cup {h[x]} /\ h[x] \in Nat /\ m \in Nat
    BY <2>1, <2>3, <2>4, <2>5
  <2>7. CASE m >= h[x]
    BY <2>1, <2>5, <2>6, <2>7
  <2>8. CASE ~ (m >= h[x])
    <3>1. \A y \in Numbers(U) : y \in Nat
      BY <2>1, <2>4
    <3>2. ASSUME NEW y \in Numbers(T) PROVE h[x] >= y
      <4>1. y = h[x] \/ (y \in Nat /\ m >= y)
        <5>1. y \in Numbers(U) \/ y = h[x]
          BY ONLY <2>6, <3>2
        <5> HIDE DEF Numbers
        <5> QED BY <2>5, <3>1, <5>1
      <4>2. PICK n, k : n = h[x] /\ k = y
        OBVIOUS
      <4>3. n \in Nat /\ m \in Nat /\ ~ (m >= n) /\ (k = n \/ (k \in Nat /\ m >= k))
        BY ONLY <2>6, <2>8, <4>1, <4>2
      <4>4. n >= k
        BY ONLY <4>3
      <4> QED BY ONLY <4>2, <4>4
    <3> QED BY <2>1, <2>6, <3>2
  <2> QED BY <2>7, <2>8
<1>2. S \notin Bad
  BY <1>1
<1> QED BY <1>2

LEMMA HighestKnown ==
  ASSUME CryptoTypeOK, NEW chain
  PROVE  /\ HighestIndex(chain) \in Nat
         /\ \A v \in Wallets : addresses[v].chain = chain =>
               addresses[v].index <= HighestIndex(chain)
<1>1. PICK S, h : S = {v \in Wallets : addresses[v].chain = chain}
                  /\ h = [v \in Wallets |-> addresses[v].index]
  OBVIOUS
<1>2. \A v \in Wallets : addresses[v].index \in Nat
  BY DEF CryptoTypeOK, NoAddress
<1>3. IsFiniteSet(S)
  <2>1. IsFiniteSet(Wallets)
    BY UsersAssumption, CurrenciesAssumption, FS_Product DEF Wallets
  <2> QED BY <1>1, <2>1, FS_Subset
<1>4. \A v \in S : h[v] = addresses[v].index /\ h[v] \in Nat
  BY <1>1, <1>2
<1>5. PICK N : N = {0} \cup {h[v] : v \in S}
  OBVIOUS
<1>6. PICK m \in N : \A y \in N : m >= y
  BY <1>3, <1>4, <1>5, LargestThere
<1>7. HighestIndex(chain) = Max(N)
  BY <1>1, <1>4, <1>5 DEF HighestIndex
<1>8. Max(N) \in N /\ \A y \in N : Max(N) >= y
  BY <1>6 DEF Max
<1>9. \A y \in N : y \in Nat
  BY <1>4, <1>5
<1>10. HighestIndex(chain) \in Nat /\ \A y \in N : y <= HighestIndex(chain)
  BY <1>7, <1>8, <1>9
<1> QED BY <1>1, <1>4, <1>5, <1>10

LEMMA AddressAsked ==
  ASSUME CallsOK, LedgerOK, CryptoOK, raced \subseteq raced', NEW c \in Workers,
         NEW w \in Wallets, GetDepositAddress(c, w)
  PROVE  CryptoStepped
<1>1. PICK on : on = ChainRef(ChainFor(CurrencyOf(w)))
  OBVIOUS
<1>2. Begin(c, "address", "derive", on, w) /\ UNCHANGED money /\ UNCHANGED cryptoVars
  BY <1>1 DEF GetDepositAddress
<1>3. /\ Turns(c, "address", "derive", on, w) /\ calls[c].op = "idle"
      /\ "address" \in DOMAIN work /\ UNCHANGED <<work, faults, hurt>>
  BY <1>2, BeginTurns DEF CallsOK
<1>4. CryptoTyped("address", "derive", on, w)
  BY <1>1 DEF CryptoTyped
<1>5. CryptoCall(c)'
  BY <1>3 DEF Turns, CryptoCall, At
<1> QED BY <1>2, <1>3, <1>4, <1>5, CryptoLooks DEF CryptoOps

LEMMA AddressDerived ==
  ASSUME CallsOK, LedgerOK, CryptoOK, raced \subseteq raced', NEW c \in Workers,
         DeriveAddress(c)
  PROVE  CryptoStepped
<1>1. PICK w, chain, index, address, on, mem :
        /\ w = calls[c].mem /\ chain = ChainFor(CurrencyOf(w)) /\ on = calls[c].on
        /\ index = (IF chain = "solana" THEN 0 ELSE HighestIndex(chain) + 1)
        /\ address = Address(chain, index)
        /\ mem = [wallet |-> w, address |-> address]
  OBVIOUS
<1>2. /\ calls[c].op = "address" /\ calls[c].pc = "derive" /\ UNCHANGED money
      /\ UNCHANGED cryptoVars /\ GotoWith(c, "save", mem)
  BY <1>1 DEF DeriveAddress, At
<1>3. w \in Wallets /\ on = ChainRef(chain) /\ "address" \in DOMAIN work
  BY <1>1, <1>2 DEF CallsOK, CallTyped, CryptoTyped
<1>4. chain \in Chains
  BY <1>1, <1>3 DEF Chains, Wallets, CurrencyOf
<1>5. /\ HighestIndex(chain) \in Nat
      /\ \A v \in Wallets : addresses[v].chain = chain =>
            addresses[v].index <= HighestIndex(chain)
  BY HighestKnown DEF CryptoOK
<1>6. index \in Nat
  BY <1>1, <1>5
<1>7. /\ address.chain = chain /\ address.index = index
      /\ address \in [chain : Chains, index : Nat]
  BY <1>1, <1>4, <1>6 DEF Address
<1>8. address # NoAddress
  <2>1. NoAddress.chain = "none" /\ NoAddress.index = 0
    BY DEF NoAddress
  <2>2. CASE chain = "solana"
    BY <1>7, <2>1, <2>2
  <2>3. CASE chain # "solana"
    <3>1. index # 0
      BY <1>1, <1>5, <2>3
    <3> QED BY <1>7, <2>1, <3>1
  <2> QED BY <2>2, <2>3
<1>9. mem.wallet = w /\ mem.address = address
  BY <1>1
<1>10. Turns(c, "address", "save", on, mem) /\ UNCHANGED <<work, faults, hurt>>
  BY <1>1, <1>2, GotoWithTurns DEF CallsOK
<1>11. CryptoTyped("address", "save", on, mem)
  BY <1>3, <1>7, <1>8, <1>9 DEF CryptoTyped
<1>12. CryptoCall(c)'
  <2>1. chain = "solana" \/ \A v \in Wallets : addresses[v].chain = chain =>
                                                  addresses[v].index < index
    <3> SUFFICES ASSUME chain # "solana", NEW v \in Wallets, addresses[v].chain = chain
                 PROVE  addresses[v].index < index
      OBVIOUS
    <3>1. addresses[v].index \in Nat
      BY DEF CryptoOK, CryptoTypeOK, NoAddress
    <3> QED BY <1>1, <1>5, <3>1
  <2>2. addresses' = addresses
    BY <1>2 DEF cryptoVars
  <2> QED BY <1>7, <1>9, <1>10, <2>1, <2>2 DEF Turns, CryptoCall, At
<1> QED BY <1>2, <1>3, <1>10, <1>11, <1>12, CryptoLooks DEF CryptoOps

\* The address is saved: it is nobody else's, unless the chain was raced for or
\* has one address for all.
LEMMA AddressSaved ==
  ASSUME CallsOK, LedgerOK, CryptoOK, RacesOK, raced \subseteq raced', NEW c \in Workers,
         SaveAddress(c)
  PROVE  CryptoStepped
<1>1. PICK w, address, on : /\ w = calls[c].mem.wallet /\ address = calls[c].mem.address
                            /\ on = calls[c].on
  OBVIOUS
<1>2. /\ calls[c].op = "address" /\ calls[c].pc = "save" /\ UNCHANGED money /\ Finish(c)
      /\ onchain' = onchain /\ sent' = sent
      /\ addresses' = IF addresses[w] = NoAddress
                      THEN [addresses EXCEPT ![w] = address] ELSE addresses
  BY <1>1 DEF SaveAddress, At
<1>3. /\ w \in Wallets /\ address # NoAddress /\ address \in [chain : Chains, index : Nat]
      /\ on = ChainRef(address.chain)
  BY <1>1, <1>2 DEF CallsOK, CallTyped, CryptoTyped
<1>4. CASE addresses[w] # NoAddress
  BY <1>2, <1>4, CryptoEnds DEF CryptoOps, cryptoVars
<1>5. CASE addresses[w] = NoAddress
  <2>1. /\ addresses'[w] = address /\ CryptoTypeOK'
        /\ \A v \in Wallets : v # w => addresses'[v] = addresses[v]
    BY <1>2, <1>3, <1>5 DEF CryptoOK, CryptoTypeOK
  <2>2. Turns(c, "idle", "idle", Nothing, Nothing) /\ UNCHANGED <<work, faults, hurt>>
    BY <1>2, FinishTurns DEF CallsOK
  <2>3. /\ CallsOK' /\ hurt' = hurt
        /\ Spares(DepositOps) /\ Spares(WithdrawalOps) /\ Spares(MarketOps)
    <3>1. CryptoTyped("idle", "idle", Nothing, Nothing)
      BY DEF CryptoTyped
    <3> QED BY <1>2, <2>2, <3>1, CryptoTurn DEF CryptoOps
  <2>4. LedgerOK' /\ Covered /\ Records({}) /\ Records(CryptoKinds)
    BY <1>2, MoneyCovered, RecordsMore
  <2>5. (\A t : SameEntries(TxRef(t))) /\ \A x : SameEntries(SendRef(x))
    BY <2>4, ChainEntriesKept
  <2>6. Grows /\ \A v \in Wallets : addresses'[v] = addresses[v] \/ addresses[v] = NoAddress
    BY <1>5, <2>1, <2>3 DEF Grows
  <2>7. \A t \in TxIds : TxRow(t)'
    BY <1>2, <2>5, <2>6, TxRowKept DEF CryptoOK
  <2>8. \A x \in SendIds : SendRow(x)'
    BY <1>2, <2>5, SendRowKept DEF CryptoOK
  <2>9. SendersDiffer'
    BY <2>2, SendersTurn DEF CryptoOK
  <2>10. ASSUME NEW b \in Workers, b # c PROVE CryptoCall(b)'
    <3>1. PICK k : k = calls[b].on
      OBVIOUS
    <3>2. /\ calls[b].op = "webhook" => (Recorded(k)' <=> Recorded(k))
          /\ calls[b].op = "send" => (Recorded(k)' <=> Recorded(k))
      BY <2>5, <3>1, ChainThing DEF SameEntries
    <3>3. calls'[b] = calls[b]
      BY <2>2, <2>10 DEF Turns
    <3>4. ASSUME NEW v \in Wallets
          PROVE  k \in raced' \/ k # ChainRef(addresses'[v].chain) \/ addresses'[v] = addresses[v]
      <4>1. CASE v = w
        <5>1. ChainRef(address.chain) # Nothing
          BY DEF ChainRef, Nothing
        <5> QED BY <1>1, <1>3, <2>1, <2>6, <2>10, <3>1, <4>1, <5>1 DEF RacesOK, Grows
      <4>2. CASE v # w
        BY <2>1, <4>2
      <4> QED BY <4>1, <4>2
    <3> QED BY <1>2, <2>6, <3>1, <3>2, <3>3, <3>4, CryptoCallKept
  <2>11. CryptoCall(c)'
    BY <2>2 DEF Turns, CryptoCall, At
  <2>12. AddressesDiffer'
    <3> SUFFICES ASSUME NEW u \in Wallets, NEW v \in Wallets, u # v,
                        addresses'[u] = addresses'[v], addresses'[u] # NoAddress
                 PROVE  \/ addresses'[u].chain = "solana"
                        \/ ChainRef(addresses'[u].chain) \in raced'
      BY DEF AddressesDiffer, ChainRef
    <3>1. CASE u # w /\ v # w
      BY <2>1, <2>6, <3>1 DEF CryptoOK, AddressesDiffer, Grows
    <3>2. ASSUME NEW y \in Wallets, y # w, addresses'[y] = address
          PROVE  address.chain = "solana" \/ ChainRef(address.chain) \in raced'
      <4>1. addresses[y] = address
        BY <2>1, <3>2
      <4>2. address.index \in Nat
        BY <1>3
      <4>3. At(c, "address", "save") /\ CryptoCall(c)
        BY <1>2 DEF At, CryptoOK
      <4>4. \/ on \in raced \/ address.chain = "solana"
            \/ addresses[y].index < address.index
        BY <1>1, <4>1, <4>3 DEF CryptoCall
      <4> QED BY <1>3, <2>6, <4>1, <4>2, <4>4 DEF Grows
    <3> QED BY <2>1, <3>1, <3>2
  <2>13. CryptoOK'
    BY <2>1, <2>7, <2>8, <2>9, <2>10, <2>11, <2>12 DEF CryptoOK
  <2> QED BY <2>3, <2>4, <2>13 DEF CryptoStepped
<1> QED BY <1>4, <1>5

\* Coins are sent to an address.
LEMMA CoinsSent ==
  ASSUME CallsOK, LedgerOK, CryptoOK, raced \subseteq raced', NEW t \in TxIds,
         NEW w \in Wallets, NEW amount \in Amounts, SendOnChain(t, w, amount)
  PROVE  CryptoStepped
<1>1. PICK tx : tx = [to |-> addresses[w], amount |-> amount]
  OBVIOUS
<1>2. /\ addresses[w] # NoAddress /\ onchain[t] = NoTx /\ UNCHANGED money /\ UNCHANGED control
      /\ onchain' = [onchain EXCEPT ![t] = tx] /\ addresses' = addresses /\ sent' = sent
  BY <1>1 DEF SendOnChain
<1>3. tx \in [to : [chain : Chains, index : Nat], amount : Amounts] /\ tx.to # NoAddress
  BY <1>1, <1>2 DEF CryptoOK, CryptoTypeOK
<1>4. tx # NoTx
  <2>1. NoTx.to = NoAddress
    BY DEF NoTx
  <2> QED BY <1>3, <2>1
<1>5. /\ onchain'[t] = tx /\ CryptoTypeOK'
      /\ \A s \in TxIds : s # t => onchain'[s] = onchain[s]
  BY <1>2, <1>3 DEF CryptoOK, CryptoTypeOK
<1>6. LedgerOK' /\ Covered /\ Records({}) /\ Records(CryptoKinds)
  BY <1>2, MoneyCovered, RecordsMore
<1>7. (\A s : SameEntries(TxRef(s))) /\ \A x : SameEntries(SendRef(x))
  BY <1>6, ChainEntriesKept
<1>8. calls' = calls /\ work' = work /\ faults' = faults /\ hurt' = hurt /\ Grows
  BY <1>2 DEF control, Grows
<1>9. CallsOK' /\ Spares(DepositOps) /\ Spares(WithdrawalOps) /\ Spares(MarketOps)
  BY <1>8 DEF CallsOK, Shape, Spares
<1>10. TxRow(t)'
  <2>1. ~Recorded(TxRef(t))
    BY <1>2 DEF CryptoOK, TxRow
  <2>2. PICK ref : ref = TxRef(t)
    OBVIOUS
  <2>3. ~Recorded(ref)' /\ \A v \in Wallets : EntriesOf(v, ref)' = EntriesOf(v, ref)
    BY <1>7, <2>1, <2>2 DEF SameEntries
  <2>4. ~RecordedTwice(ref)' /\ \A v \in Wallets : EntriesOf(v, ref)' = {}
    BY <1>7, <2>1, <2>2, <2>3, NotRecordedNone DEF SameEntries
  <2>5. TxRef(t)' = ref
    BY <2>2 DEF TxRef
  <2> QED BY <1>3, <1>5, <2>2, <2>3, <2>4, <2>5 DEF TxRow
<1>11. \A s \in TxIds : TxRow(s)'
  <2> SUFFICES ASSUME NEW s \in TxIds, s # t PROVE TxRow(s)'
    BY <1>10
  <2>1. TxRow(s) /\ onchain'[s] = onchain[s] /\ SameEntries(TxRef(s))
    BY <1>5, <1>7 DEF CryptoOK
  <2> QED BY <1>2, <1>8, <2>1, TxRowKept
<1>12. \A x \in SendIds : SendRow(x)'
  BY <1>2, <1>7, SendRowKept DEF CryptoOK
<1>13. ASSUME NEW b \in Workers PROVE CryptoCall(b)'
  <2>1. PICK k : k = calls[b].on
    OBVIOUS
  <2>2. /\ calls[b].op = "webhook" => (Recorded(k)' <=> Recorded(k))
        /\ calls[b].op = "send" => (Recorded(k)' <=> Recorded(k))
    BY <1>7, <2>1, ChainThing DEF SameEntries
  <2>3. \A s \in TxIds : onchain'[s] = onchain[s] \/ onchain[s] = NoTx
    BY <1>2, <1>5
  <2> QED BY <1>2, <1>8, <2>1, <2>2, <2>3, CryptoCallKept
<1>14. SendersDiffer' /\ AddressesDiffer'
  BY <1>2, <1>8 DEF CryptoOK, SendersDiffer, AddressesDiffer, Grows
<1>15. CryptoOK'
  BY <1>5, <1>11, <1>12, <1>13, <1>14 DEF CryptoOK
<1> QED BY <1>6, <1>8, <1>9, <1>15 DEF CryptoStepped

\* The provider reports a transaction.
LEMMA WebhookStarts ==
  ASSUME CallsOK, LedgerOK, CryptoOK, raced \subseteq raced', NEW c \in Workers,
         NEW t \in TxIds, NEW w \in Wallets, CryptoWebhook(c, t, w)
  PROVE  CryptoStepped
<1>1. PICK on : on = TxRef(t)
  OBVIOUS
<1>2. /\ Begin(c, "webhook", "seen", on, w) /\ UNCHANGED money /\ UNCHANGED cryptoVars
      /\ onchain[t] # NoTx /\ addresses[w] = onchain[t].to
  BY <1>1 DEF CryptoWebhook, Owners
<1>3. /\ Turns(c, "webhook", "seen", on, w) /\ calls[c].op = "idle"
      /\ "webhook" \in DOMAIN work /\ UNCHANGED <<work, faults, hurt>>
  BY <1>2, BeginTurns DEF CallsOK
<1>4. on = <<"tx", t>> /\ on[2] = t
  BY <1>1 DEF TxRef
<1>5. CryptoTyped("webhook", "seen", on, w)
  BY <1>4 DEF CryptoTyped, IsRef
<1>6. CryptoCall(c)'
  BY <1>2, <1>3, <1>4 DEF Turns, CryptoCall, At, cryptoVars
<1> QED BY <1>2, <1>3, <1>5, <1>6, CryptoLooks DEF CryptoOps

LEMMA WebhookLooks ==
  ASSUME CallsOK, LedgerOK, CryptoOK, raced \subseteq raced', NEW c \in Workers,
         AlreadySeen(c) \/ FindWallet(c)
  PROVE  CryptoStepped
<1>1. PICK on, t, w : on = calls[c].on /\ t = calls[c].on[2] /\ w = calls[c].mem
  OBVIOUS
<1>2. /\ calls[c].op = "webhook" /\ calls[c].pc # "credit" /\ UNCHANGED money
      /\ UNCHANGED cryptoVars
  BY DEF AlreadySeen, FindWallet, At
<1>3. /\ on = TxRef(t) /\ on[2] = t /\ IsRef(on, "tx", TxIds) /\ t \in TxIds /\ w \in Wallets
      /\ "webhook" \in DOMAIN work
  BY <1>1, <1>2 DEF CallsOK, CallTyped, CryptoTyped, IsRef, TxRef
<1>4. /\ onchain[t] # NoTx /\ addresses[w] = onchain[t].to
      /\ calls[c].pc # "seen" /\ on \notin raced => ~Recorded(on)
  BY <1>1, <1>2 DEF CryptoOK, CryptoCall
<1>5. Recorded(on)' <=> Recorded(on)
  <2>1. Records({}) /\ on[1] \notin {}
    BY <1>2, MoneyCovered
  <2> QED BY <2>1, RecordsKeep
<1>6. CASE Finish(c)
  BY <1>2, <1>6, CryptoEnds DEF CryptoOps
<1>7. CASE AlreadySeen(c) /\ Goto(c, "find") /\ ~Recorded(on)
  <2>1. Turns(c, "webhook", "find", on, w) /\ UNCHANGED <<work, faults, hurt>>
    BY <1>1, <1>2, <1>7, GotoTurns DEF CallsOK
  <2>2. CryptoTyped("webhook", "find", on, w)
    BY <1>3 DEF CryptoTyped
  <2>3. CryptoCall(c)'
    BY <1>2, <1>3, <1>4, <1>5, <1>7, <2>1 DEF Turns, CryptoCall, At, cryptoVars
  <2> QED BY <1>2, <1>3, <2>1, <2>2, <2>3, CryptoLooks DEF CryptoOps
<1>8. CASE FindWallet(c)
  <2>1. PICK mem : mem = [wallet |-> w, made |-> wallets[w].made]
    OBVIOUS
  <2>2. mem.wallet = w
    BY <2>1
  <2>3. GotoWith(c, "credit", mem) /\ calls[c].pc # "seen"
    BY <1>1, <1>8, <2>1 DEF FindWallet, At
  <2>4. Turns(c, "webhook", "credit", on, mem) /\ UNCHANGED <<work, faults, hurt>>
    BY <1>1, <1>2, <2>3, GotoWithTurns DEF CallsOK
  <2>5. CryptoTyped("webhook", "credit", on, mem)
    BY <1>3, <2>2 DEF CryptoTyped
  <2>6. CryptoCall(c)'
    BY <1>2, <1>3, <1>4, <1>5, <2>2, <2>3, <2>4 DEF Turns, CryptoCall, At, cryptoVars
  <2> QED BY <1>2, <1>3, <2>4, <2>5, <2>6, CryptoLooks DEF CryptoOps
<1> QED BY <1>1, <1>6, <1>7, <1>8 DEF AlreadySeen

\* One row is recorded of a thing of the chains.
LEMMA ChainRecorded ==
  ASSUME LedgerOK, NEW w \in Wallets, NEW ref, NEW delta, RecordsOne(w, ref, delta)
  PROVE  /\ \A t : TxRef(t) # ref => SameEntries(TxRef(t))
         /\ \A x : SendRef(x) # ref => SameEntries(SendRef(x))
         /\ \A v \in Wallets : v # w => EntriesOf(v, ref)' = EntriesOf(v, ref)
         /\ Recorded(ref)' /\ (RecordedTwice(ref)' => Recorded(ref))
BY OthersRecorded, OneRecorded DEF SameEntries

LEMMA TxCredited ==
  ASSUME CallsOK, LedgerOK, CryptoOK, RacesOK, raced \subseteq raced', NEW c \in Workers,
         CreditTx(c)
  PROVE  CryptoStepped
<1>1. PICK on, t, w, amount : /\ on = calls[c].on /\ t = calls[c].on[2]
                              /\ w = calls[c].mem.wallet
                              /\ amount = onchain[calls[c].on[2]].amount
  OBVIOUS
<1>2. /\ calls[c].op = "webhook" /\ calls[c].pc = "credit" /\ Finish(c) /\ rowLock' = rowLock
      /\ UNCHANGED cryptoVars /\ addresses' = addresses /\ onchain' = onchain /\ sent' = sent
      /\ UNCHANGED <<wallets, ledger>> \/ Post(Moves(w, amount, 0, on))
  BY <1>1 DEF CreditTx, At, cryptoVars
<1>3. on = TxRef(t) /\ t \in TxIds /\ w \in Wallets
  BY <1>1, <1>2 DEF CallsOK, CallTyped, CryptoTyped, IsRef, TxRef
<1>4. /\ onchain[t] # NoTx /\ addresses[w] = onchain[t].to
      /\ on \notin raced => ~Recorded(on)
  BY <1>1, <1>2 DEF CryptoOK, CryptoCall
<1>5. CASE UNCHANGED <<wallets, ledger>>
  BY <1>2, <1>5, CryptoEnds DEF CryptoOps, money
<1>6. CASE Post(Moves(w, amount, 0, on))
  <2>1. amount \in Amounts
    <3>1. onchain[t] \in [to : [chain : Chains, index : Nat], amount : Amounts]
      BY <1>3, <1>4 DEF CryptoOK, CryptoTypeOK
    <3> QED BY <1>1, <3>1
  <2>2. amount \in Nat /\ amount \in Int /\ amount >= 0 /\ 0 \in Int
    BY <2>1, AmountsAssumption
  <2>3. on \in Refs /\ on[1] = "tx" /\ rowLock' \in [Wallets -> Workers \cup {NoCall}]
    BY <1>2, <1>3 DEF TxRef, Refs, LedgerOK
  <2>4. /\ LedgerOK' /\ Records({"tx"}) /\ RecordsOne(w, on, amount)
        /\ Changed(w, amount, 0, on) /\ \A v \in Wallets : v # w => Left(v)
    BY <1>3, <1>6, <2>2, <2>3, PostOne
  <2>5. Covered /\ Records(CryptoKinds)
    BY <1>3, <2>2, <2>4, MoveCovered, RecordsMore DEF CryptoKinds
  <2>6. /\ \A s : TxRef(s) # on => SameEntries(TxRef(s))
        /\ \A x : SendRef(x) # on => SameEntries(SendRef(x))
        /\ \A v \in Wallets : v # w => EntriesOf(v, on)' = EntriesOf(v, on)
        /\ Recorded(on)' /\ (RecordedTwice(on)' => Recorded(on))
    BY <1>3, <2>4, ChainRecorded
  <2>7. Turns(c, "idle", "idle", Nothing, Nothing) /\ UNCHANGED <<work, faults, hurt>>
    BY <1>2, FinishTurns DEF CallsOK
  <2>8. /\ CallsOK' /\ hurt' = hurt
        /\ Spares(DepositOps) /\ Spares(WithdrawalOps) /\ Spares(MarketOps)
    <3>1. CryptoTyped("idle", "idle", Nothing, Nothing)
      BY DEF CryptoTyped
    <3> QED BY <1>2, <2>7, <3>1, CryptoTurn DEF CryptoOps
  <2>9. Grows
    BY <2>8 DEF Grows
  <2>10. \A s \in TxIds : TxRow(s)'
    <3> SUFFICES ASSUME NEW s \in TxIds PROVE TxRow(s)'
      OBVIOUS
    <3>1. CASE s = t
      <4>1. \A v \in Wallets : EntriesOf(v, on)' # {} => addresses'[v] = onchain'[t].to
        BY <1>2, <1>3, <1>4, <2>6 DEF CryptoOK, TxRow
      <4>2. TxRef(s)' = on
        BY <1>3, <3>1 DEF TxRef
      <4>3. onchain'[t] = onchain[t] /\ onchain[t].to # NoAddress
        BY <1>2, <1>3, <1>4 DEF CryptoOK, TxRow
      <4>4. on \notin raced' => ~RecordedTwice(on)'
        BY <1>4, <2>6, <2>9 DEF Grows
      <4> QED BY <1>3, <1>4, <3>1, <4>1, <4>2, <4>3, <4>4 DEF TxRow
    <3>2. CASE s # t
      <4>1. TxRef(s) # on
        BY <1>3, <3>2 DEF TxRef
      <4>2. TxRow(s) /\ SameEntries(TxRef(s))
        BY <2>6, <4>1 DEF CryptoOK
      <4> QED BY <1>2, <2>9, <4>2, TxRowKept
    <3> QED BY <3>1, <3>2
  <2>11. \A x \in SendIds : SendRow(x)' /\ SameEntries(SendRef(x))
    <3> SUFFICES ASSUME NEW x \in SendIds PROVE SendRow(x)' /\ SameEntries(SendRef(x))
      OBVIOUS
    <3>1. SendRef(x) # on
      BY <1>3 DEF TxRef, SendRef
    <3> QED BY <1>2, <2>6, <3>1, SendRowKept DEF CryptoOK
  <2>12. ASSUME NEW b \in Workers, b # c PROVE CryptoCall(b)'
    <3>1. PICK k : k = calls[b].on
      OBVIOUS
    <3>2. calls[b].op = "webhook" => k \in raced' \/ (Recorded(k)' <=> Recorded(k))
      <4>1. on # Nothing
        BY <1>3 DEF TxRef, Nothing
      <4>2. CASE k = on
        BY <1>1, <2>9, <2>12, <3>1, <4>1, <4>2 DEF RacesOK, Grows
      <4>3. CASE k # on
        BY <2>6, <3>1, <4>3, ChainThing DEF SameEntries
      <4> QED BY <4>2, <4>3
    <3>3. calls[b].op = "send" => (Recorded(k)' <=> Recorded(k))
      BY <2>11, <3>1, ChainThing DEF SameEntries
    <3>4. calls'[b] = calls[b]
      BY <2>7, <2>12 DEF Turns
    <3> QED BY <1>2, <2>9, <3>1, <3>2, <3>3, <3>4, CryptoCallKept
  <2>13. CryptoCall(c)'
    BY <2>7 DEF Turns, CryptoCall, At
  <2>14. SendersDiffer'
    BY <2>7, SendersTurn DEF CryptoOK
  <2>15. CryptoTypeOK' /\ AddressesDiffer'
    BY <1>2, <2>9 DEF CryptoOK, CryptoTypeOK, AddressesDiffer, Grows
  <2>16. CryptoOK'
    BY <2>10, <2>11, <2>12, <2>13, <2>14, <2>15 DEF CryptoOK
  <2> QED BY <2>4, <2>5, <2>8, <2>16 DEF CryptoStepped
<1> QED BY <1>2, <1>5, <1>6

\* Transfers.
LEMMA TransferBegins ==
  ASSUME CallsOK, LedgerOK, CryptoOK, raced \subseteq raced', NEW c \in Workers,
         NEW w \in Wallets, NEW v \in Wallets, NEW amount \in Amounts,
         Transfer(c, w, v, amount)
  PROVE  CryptoStepped
<1>1. PICK to, mem : /\ to = <<UserOf(v), CurrencyOf(w)>>
                     /\ mem = [from |-> w, to |-> to, amount |-> amount, row |-> NoRow]
  OBVIOUS
<1>2. /\ Begin(c, "transfer", "first", TransferRef, mem) /\ UserOf(v) # UserOf(w)
      /\ UNCHANGED money /\ UNCHANGED cryptoVars
  BY <1>1 DEF Transfer
<1>3. to \in Wallets /\ to # w
  BY <1>1, <1>2 DEF Wallets, UserOf, CurrencyOf
<1>4. /\ mem.from = w /\ mem.to = to /\ mem.amount = amount /\ mem.row \in Wallet
      /\ mem = [from |-> mem.from, to |-> mem.to, amount |-> mem.amount, row |-> mem.row]
  BY <1>1 DEF NoRow, Wallet
<1>5. /\ Turns(c, "transfer", "first", TransferRef, mem) /\ calls[c].op = "idle"
      /\ "transfer" \in DOMAIN work /\ UNCHANGED <<work, faults, hurt>>
  BY <1>2, BeginTurns DEF CallsOK
<1>6. CryptoTyped("transfer", "first", TransferRef, mem)
  BY <1>3, <1>4 DEF CryptoTyped
<1>7. CryptoCall(c)'
  BY <1>5 DEF Turns, CryptoCall, At
<1> QED BY <1>2, <1>5, <1>6, <1>7, CryptoLooks DEF CryptoOps

\* The pair of rows a transfer locks.
LEMMA PairOfTransfer ==
  ASSUME CallsOK, NEW c \in Workers, calls[c].op = "transfer", NEW m, m = calls[c].mem
  PROVE  /\ m.from \in Wallets /\ m.to \in Wallets /\ m.from # m.to /\ m.amount \in Amounts
         /\ LowFirst(m)[1] \in Wallets /\ LowFirst(m)[2] \in Wallets
         /\ calls[c].on = TransferRef /\ "transfer" \in DOMAIN work
<1>1. /\ m.from \in Wallets /\ m.to \in Wallets /\ m.from # m.to /\ m.amount \in Amounts
      /\ calls[c].on = TransferRef /\ "transfer" \in DOMAIN work
  BY DEF CallsOK, CallTyped, CryptoTyped
<1>2. LowFirst(m) = <<m.to, m.from>> \/ LowFirst(m) = <<m.from, m.to>>
  BY DEF LowFirst
<1> QED BY <1>1, <1>2

\* What a transfer remembers of the first row is the row.
LEMMA CopyRead ==
  ASSUME CallsOK, LedgerOK, NEW c \in Workers, calls[c].op = "transfer", NEW w \in Wallets,
         NEW new, new = [calls[c].mem EXCEPT !.row = wallets[w]]
  PROVE  /\ new.from = calls[c].mem.from /\ new.to = calls[c].mem.to
         /\ new.amount = calls[c].mem.amount /\ new.row = wallets[w]
         /\ new.from \in Wallets /\ new.to \in Wallets /\ new.from # new.to
         /\ new.amount \in Amounts /\ new.row \in Wallet
         /\ new = [from |-> new.from, to |-> new.to, amount |-> new.amount, row |-> new.row]
<1>1. PICK m, from, to, amount, old, row :
         /\ m = calls[c].mem /\ from = m.from /\ to = m.to /\ amount = m.amount /\ old = m.row
         /\ row = wallets[w]
  OBVIOUS
<1>2. /\ m = [from |-> from, to |-> to, amount |-> amount, row |-> old]
      /\ from \in Wallets /\ to \in Wallets /\ from # to /\ amount \in Amounts /\ row \in Wallet
  BY <1>1 DEF CallsOK, CallTyped, CryptoTyped, LedgerOK
<1>3. new = [from |-> from, to |-> to, amount |-> amount, row |-> row]
  BY <1>1, <1>2
<1> QED BY <1>1, <1>2, <1>3

LEMMA FirstLocked ==
  ASSUME CallsOK, LedgerOK, CryptoOK, raced \subseteq raced', NEW c \in Workers,
         LockFirst(c)
  PROVE  CryptoStepped
<1>1. PICK on, m, w, new :
         /\ on = calls[c].on /\ m = calls[c].mem /\ w = LowFirst(calls[c].mem)[1]
         /\ new = [m EXCEPT !.row = wallets[w]]
  OBVIOUS
<1>2. /\ calls[c].op = "transfer" /\ calls[c].pc = "first" /\ GotoWith(c, "second", new)
      /\ rowLock' = [rowLock EXCEPT ![w] = c] /\ UNCHANGED <<wallets, ledger>>
      /\ UNCHANGED cryptoVars
  BY <1>1 DEF LockFirst, At, cryptoVars
<1>3. /\ w \in Wallets /\ on = TransferRef /\ "transfer" \in DOMAIN work
  BY <1>1, <1>2, PairOfTransfer
<1>4. rowLock' \in [Wallets -> Workers \cup {NoCall}]
  BY <1>2, <1>3 DEF LedgerOK
<1>5. LedgerOK' /\ Records({}) /\ Covered
  <2>1. LedgerOK' /\ Records({})
    BY <1>2, <1>4, MoneyKept
  <2>2. Covered
    BY <1>2 DEF Covered, LedgerOK, Wallet
  <2> QED BY <2>1, <2>2
<1>6. Turns(c, "transfer", "second", on, new) /\ UNCHANGED <<work, faults, hurt>>
  BY <1>1, <1>2, GotoWithTurns DEF CallsOK
<1>7. CryptoTyped("transfer", "second", on, new)
  BY <1>1, <1>2, <1>3, CopyRead DEF CryptoTyped
<1>8. /\ CallsOK' /\ hurt' = hurt
      /\ Spares(DepositOps) /\ Spares(WithdrawalOps) /\ Spares(MarketOps)
  BY <1>2, <1>3, <1>6, <1>7, CryptoTurn DEF CryptoOps
<1>9. CryptoCall(c)'
  BY <1>6 DEF Turns, CryptoCall, At
<1>10. Grows /\ Records(CryptoKinds)
  BY <1>5, <1>8, RecordsMore DEF Grows
<1>11. CryptoOK'
  BY <1>2, <1>5, <1>6, <1>9, <1>10, CryptoCallTurns
<1> QED BY <1>5, <1>8, <1>10, <1>11 DEF CryptoStepped

\* A transaction that computes from good copies does what one does that
\* computes from the rows.
LEMMA CopyPosts ==
  ASSUME NEW rows, NEW moves, \A w \in DOMAIN moves : rows[w].balance = wallets[w].balance,
         Commit(rows, moves)
  PROVE  Post(moves)
<1>1. \A w \in DOMAIN moves : /\ Moved(w, rows[w], moves[w]) = Moved(w, wallets[w], moves[w])
                             /\ EntryOf(rows[w], moves[w]) = EntryOf(wallets[w], moves[w])
  BY DEF Moved, EntryOf
<1> QED BY <1>1 DEF Commit, Post

LEMMA SecondLocked ==
  ASSUME CallsOK, LedgerOK, CryptoOK, CopiesOK, raced \subseteq raced', NEW c \in Workers,
         LockSecond(c)
  PROVE  CryptoStepped
<1>1. PICK m, v, w, u, amount : /\ m = calls[c].mem /\ w = calls[c].mem.from
                                /\ v = calls[c].mem.to /\ u = LowFirst(calls[c].mem)[1]
                                /\ amount = calls[c].mem.amount
  OBVIOUS
<1>2. /\ calls[c].op = "transfer" /\ Finish(c) /\ UNCHANGED cryptoVars
      /\ rowLock' = [rowLock EXCEPT ![u] = NoCall]
      /\ \/ UNCHANGED <<wallets, ledger>>
         \/ Available(w) >= amount /\ Post(MovesBetween(w, v, amount, TransferRef))
  <2>1. PICK rows : rows = [z \in {w, v} |-> IF z = u THEN m.row ELSE wallets[z]]
    OBVIOUS
  <2>2. /\ At(c, "transfer", "second") /\ Finish(c) /\ UNCHANGED cryptoVars
        /\ rowLock' = [rowLock EXCEPT ![u] = NoCall]
        /\ \/ UNCHANGED <<wallets, ledger>>
           \/ /\ rows[w].balance - rows[w].locked >= amount
              /\ Commit(rows, MovesBetween(w, v, amount, TransferRef))
    BY <1>1, <2>1 DEF LockSecond
  <2>3. \A z \in {w, v} : /\ rows[z].balance = wallets[z].balance
                          /\ rows[z].locked = wallets[z].locked
    BY <1>1, <2>1, <2>2 DEF CopiesOK, CopyOK
  <2>4. DOMAIN MovesBetween(w, v, amount, TransferRef) = {w, v}
    BY DEF MovesBetween
  <2>5. Commit(rows, MovesBetween(w, v, amount, TransferRef)) =>
           Post(MovesBetween(w, v, amount, TransferRef))
    BY <2>3, <2>4, CopyPosts
  <2> QED BY <2>2, <2>3, <2>5 DEF At, Available
<1>3. w \in Wallets /\ v \in Wallets /\ v # w /\ u \in Wallets /\ amount \in Amounts
  BY <1>1, <1>2, PairOfTransfer
<1>4. amount \in Nat /\ amount \in Int
  BY <1>3, AmountsAssumption
<1>5. rowLock' \in [Wallets -> Workers \cup {NoCall}]
  BY <1>2, <1>3 DEF LedgerOK
<1>6. PICK ref : ref = TransferRef /\ ref \in Refs /\ ref[1] = "transfer"
  <2>1. TransferRef \in Refs /\ TransferRef[1] = "transfer"
    BY DEF TransferRef, Refs
  <2> QED BY <2>1
<1>7. LedgerOK' /\ Covered /\ Records({"transfer"})
  <2>1. CASE UNCHANGED <<wallets, ledger>>
    <3>1. LedgerOK' /\ Records({}) /\ Records({"transfer"})
      BY <1>5, <2>1, MoneyKept, RecordsMore
    <3>2. Covered
      BY <2>1 DEF Covered, LedgerOK, Wallet
    <3> QED BY <3>1, <3>2
  <2>2. CASE Available(w) >= amount /\ Post(MovesBetween(w, v, amount, TransferRef))
    <3>1. /\ LedgerOK' /\ Records({"transfer"})
          /\ Changed(w, -amount, 0, ref) /\ Changed(v, amount, 0, ref)
          /\ \A y \in Wallets : y \notin {v, w} => Left(y)
      BY <1>3, <1>4, <1>5, <1>6, <2>2, PostTwo
    <3>2. ASSUME NEW y \in Wallets
          PROVE  /\ wallets'[y].locked = wallets[y].locked
                 /\ \/ wallets'[y].balance >= wallets[y].balance
                    \/ wallets'[y].locked <= wallets'[y].balance
      <4>1. wallets[y].balance \in Int /\ wallets[y].locked \in Int
        BY DEF LedgerOK, Wallet
      <4>2. CASE y = w
        BY <1>4, <2>2, <3>1, <4>1, <4>2 DEF Changed, Available
      <4>3. CASE y = v
        BY <1>4, <3>1, <4>1, <4>3 DEF Changed
      <4>4. CASE y \notin {v, w}
        BY <3>1, <4>1, <4>4 DEF Left
      <4> QED BY <4>2, <4>3, <4>4
    <3> QED BY <3>1, <3>2 DEF Covered
  <2> QED BY <1>2, <2>1, <2>2
<1>8. Turns(c, "idle", "idle", Nothing, Nothing) /\ UNCHANGED <<work, faults, hurt>>
  BY <1>2, FinishTurns DEF CallsOK
<1>9. /\ CallsOK' /\ hurt' = hurt
      /\ Spares(DepositOps) /\ Spares(WithdrawalOps) /\ Spares(MarketOps)
  <2>1. CryptoTyped("idle", "idle", Nothing, Nothing)
    BY DEF CryptoTyped
  <2> QED BY <1>2, <1>8, <2>1, CryptoTurn DEF CryptoOps
<1>10. CryptoCall(c)'
  BY <1>8 DEF Turns, CryptoCall, At
<1>11. Grows /\ Records(CryptoKinds)
  BY <1>7, <1>9, RecordsMore DEF Grows, CryptoKinds
<1>12. CryptoOK'
  <2>1. "tx" \notin {"transfer"} /\ "send" \notin {"transfer"}
    OBVIOUS
  <2> QED BY <1>2, <1>7, <1>8, <1>10, <1>11, <2>1, CryptoCallTurns
<1> QED BY <1>7, <1>9, <1>11, <1>12 DEF CryptoStepped

\* Withdrawals the provider sends.
LEMMA SendBegins ==
  ASSUME CallsOK, LedgerOK, CryptoOK, raced \subseteq raced', NEW c \in Workers,
         NEW x \in SendIds, NEW w \in Wallets, NEW amount \in Amounts,
         InitiateCryptoWithdrawal(c, x, w, amount)
  PROVE  CryptoStepped
<1>1. PICK on, mem : on = SendRef(x) /\ mem = [wallet |-> w, amount |-> amount]
  OBVIOUS
<1>2. /\ Begin(c, "send", "debit", on, mem) /\ sent[x] = 0 /\ ~Recorded(on)
      /\ UNCHANGED money /\ UNCHANGED cryptoVars /\ \A d \in Workers : calls[d].on # on
  BY <1>1 DEF InitiateCryptoWithdrawal
<1>3. /\ Turns(c, "send", "debit", on, mem) /\ calls[c].op = "idle"
      /\ "send" \in DOMAIN work /\ UNCHANGED <<work, faults, hurt>>
  BY <1>2, BeginTurns DEF CallsOK
<1>4. on = <<"send", x>> /\ on[2] = x
  BY <1>1 DEF SendRef
<1>5. CryptoTyped("send", "debit", on, mem)
  BY <1>1, <1>4 DEF CryptoTyped, IsRef, Fiat
<1>6. Recorded(on)' <=> Recorded(on)
  <2>1. Records({}) /\ on[1] \notin {}
    BY <1>2, MoneyCovered
  <2> QED BY <2>1, RecordsKeep
<1>7. CryptoCall(c)'
  BY <1>2, <1>3, <1>4, <1>6 DEF Turns, CryptoCall, At, cryptoVars
<1> QED BY <1>2, <1>3, <1>5, <1>7, CryptoLooks DEF CryptoOps

\* What a send in progress is about.
LEMMA SendKnown ==
  ASSUME CallsOK, CryptoOK, NEW c \in Workers, calls[c].op = "send",
         NEW on, on = calls[c].on
  PROVE  /\ on[2] \in SendIds /\ on = SendRef(on[2]) /\ on = <<"send", on[2]>>
         /\ sent[on[2]] = 0
         /\ calls[c].pc = "provider" <=> Recorded(on)
         /\ \A b \in Workers : b # c /\ calls[b].op = "send" => calls[b].on # on
         /\ "send" \in DOMAIN work
BY DEF CallsOK, CallTyped, CryptoTyped, IsRef, SendRef, CryptoOK, CryptoCall, SendersDiffer

LEMMA SendDebited ==
  ASSUME CallsOK, LedgerOK, CryptoOK, raced \subseteq raced', NEW c \in Workers,
         DebitSend(c)
  PROVE  CryptoStepped
<1>1. PICK on, x, w, amount, mem, delta :
        /\ on = calls[c].on /\ x = calls[c].on[2] /\ w = calls[c].mem.wallet
        /\ amount = calls[c].mem.amount /\ mem = calls[c].mem /\ delta = -amount
  OBVIOUS
<1>2. /\ calls[c].op = "send" /\ calls[c].pc = "debit" /\ rowLock' = rowLock
      /\ UNCHANGED cryptoVars /\ addresses' = addresses /\ onchain' = onchain /\ sent' = sent
      /\ \/ Finish(c) /\ UNCHANGED <<wallets, ledger>>
         \/ /\ Available(w) >= amount /\ Post(Moves(w, -amount, 0, on))
            /\ Goto(c, "provider") \/ Finish(c)
  BY <1>1 DEF DebitSend, At, cryptoVars
<1>3. /\ x \in SendIds /\ on = SendRef(x) /\ on[2] = x /\ on[1] = "send" /\ ~Recorded(on)
      /\ "send" \in DOMAIN work
  BY <1>1, <1>2, SendKnown DEF SendRef
<1>4. Fiat(mem) /\ w \in Wallets /\ amount \in Amounts /\ IsRef(on, "send", SendIds)
  BY <1>1, <1>2 DEF CallsOK, CallTyped, CryptoTyped, Fiat
<1>5. CASE Finish(c) /\ UNCHANGED <<wallets, ledger>>
  BY <1>2, <1>5, CryptoEnds DEF CryptoOps, money
<1>6. CASE /\ Available(w) >= amount /\ Post(Moves(w, -amount, 0, on))
           /\ Goto(c, "provider") \/ Finish(c)
  <2>1. amount \in Nat
    BY <1>4, AmountsAssumption
  <2>2. delta \in Int /\ -delta = amount /\ 0 \in Int
    BY <1>1, <2>1
  <2>3. on \in Refs /\ rowLock' \in [Wallets -> Workers \cup {NoCall}]
    BY <1>2, <1>3 DEF SendRef, Refs, LedgerOK
  <2>4. /\ LedgerOK' /\ Records({"send"}) /\ RecordsOne(w, on, delta)
        /\ Changed(w, delta, 0, on) /\ \A v \in Wallets : v # w => Left(v)
    BY <1>1, <1>3, <1>4, <1>6, <2>2, <2>3, PostOne
  <2>5. Covered /\ Records(CryptoKinds)
    <3>1. Available(w) >= -delta
      BY <1>6, <2>2
    <3>2. Covered
      BY <1>4, <2>2, <2>4, <3>1, MoveCovered
    <3> QED BY <2>4, <3>2, RecordsMore DEF CryptoKinds
  <2>6. /\ \A s : TxRef(s) # on => SameEntries(TxRef(s))
        /\ \A y : SendRef(y) # on => SameEntries(SendRef(y))
        /\ Recorded(on)' /\ (RecordedTwice(on)' => Recorded(on))
    BY <1>4, <2>4, ChainRecorded
  <2>7. PICK op, pc, thing, m :
          /\ Turns(c, op, pc, thing, m) /\ UNCHANGED <<work, faults, hurt>>
          /\ \/ op = "idle" /\ pc = "idle" /\ thing = Nothing
             \/ op = "send" /\ pc = "provider" /\ thing = on /\ m = mem
    <3>1. CASE Finish(c)
      BY <3>1, FinishTurns DEF CallsOK
    <3>2. CASE Goto(c, "provider")
      BY <1>1, <1>2, <3>2, GotoTurns DEF CallsOK
    <3> QED BY <1>6, <3>1, <3>2
  <2>8. /\ CallsOK' /\ hurt' = hurt
        /\ Spares(DepositOps) /\ Spares(WithdrawalOps) /\ Spares(MarketOps)
    <3>1. CryptoTyped(op, pc, thing, m)
      BY <1>4, <2>7 DEF CryptoTyped
    <3> QED BY <1>2, <1>3, <2>7, <3>1, CryptoTurn DEF CryptoOps
  <2>9. Grows
    BY <2>8 DEF Grows
  <2>10. \A s \in TxIds : TxRow(s)' /\ SameEntries(TxRef(s))
    <3> SUFFICES ASSUME NEW s \in TxIds PROVE TxRow(s)' /\ SameEntries(TxRef(s))
      OBVIOUS
    <3>1. TxRef(s) # on
      BY <1>3 DEF TxRef, SendRef
    <3> QED BY <1>2, <2>6, <2>9, <3>1, TxRowKept DEF CryptoOK
  <2>11. \A y \in SendIds : SendRow(y)'
    <3> SUFFICES ASSUME NEW y \in SendIds PROVE SendRow(y)'
      OBVIOUS
    <3>1. CASE y = x
      <4>1. SendRef(y)' = on
        BY <1>3, <3>1 DEF SendRef
      <4> QED BY <1>3, <2>6, <3>1, <4>1 DEF SendRow
    <3>2. CASE y # x
      <4>1. SendRef(y) # on
        BY <1>3, <3>2 DEF SendRef
      <4> QED BY <1>2, <2>6, <4>1, SendRowKept DEF CryptoOK
    <3> QED BY <3>1, <3>2
  <2>12. ASSUME NEW b \in Workers, b # c PROVE CryptoCall(b)'
    <3>1. PICK k : k = calls[b].on
      OBVIOUS
    <3>2. calls[b].op = "webhook" => (Recorded(k)' <=> Recorded(k))
      BY <2>10, <3>1, ChainThing DEF SameEntries
    <3>3. calls[b].op = "send" => (Recorded(k)' <=> Recorded(k))
      <4>1. calls[b].op = "send" => k # on
        BY <1>1, <1>2, <2>12, <3>1, SendKnown
      <4> QED BY <2>6, <3>1, <4>1, ChainThing DEF SameEntries
    <3>4. calls'[b] = calls[b]
      BY <2>7, <2>12 DEF Turns
    <3> QED BY <1>2, <2>9, <3>1, <3>2, <3>3, <3>4, CryptoCallKept
  <2>13. CryptoCall(c)'
    <3>1. sent[x] = 0
      BY <1>1, <1>2, <1>3, SendKnown
    <3> QED BY <1>2, <1>3, <2>6, <2>7, <3>1 DEF Turns, CryptoCall, At
  <2>14. SendersDiffer'
    BY <1>1, <1>2, <2>7, SendersTurn DEF CryptoOK
  <2>15. CryptoTypeOK' /\ AddressesDiffer'
    BY <1>2, <2>9 DEF CryptoOK, CryptoTypeOK, AddressesDiffer, Grows
  <2>16. CryptoOK'
    BY <2>10, <2>11, <2>12, <2>13, <2>14, <2>15 DEF CryptoOK
  <2> QED BY <2>4, <2>5, <2>8, <2>16 DEF CryptoStepped
<1> QED BY <1>2, <1>5, <1>6

LEMMA SentOut ==
  ASSUME CallsOK, LedgerOK, CryptoOK, raced \subseteq raced', NEW c \in Workers,
         SendTransaction(c)
  PROVE  CryptoStepped
<1>1. PICK on, x : on = calls[c].on /\ x = calls[c].on[2]
  OBVIOUS
<1>2. /\ calls[c].op = "send" /\ calls[c].pc = "provider" /\ Finish(c) /\ UNCHANGED money
      /\ sent' = [sent EXCEPT ![x] = sent[x] + 1] /\ addresses' = addresses
      /\ onchain' = onchain
  BY <1>1 DEF SendTransaction, At
<1>3. /\ x \in SendIds /\ on = SendRef(x) /\ on[2] = x /\ Recorded(on) /\ sent[x] = 0
  BY <1>1, <1>2, SendKnown DEF SendRef
<1>4. /\ sent'[x] = 1 /\ CryptoTypeOK'
      /\ \A y \in SendIds : y # x => sent'[y] = sent[y]
  BY <1>2, <1>3 DEF CryptoOK, CryptoTypeOK
<1>5. Turns(c, "idle", "idle", Nothing, Nothing) /\ UNCHANGED <<work, faults, hurt>>
  BY <1>2, FinishTurns DEF CallsOK
<1>6. /\ CallsOK' /\ hurt' = hurt
      /\ Spares(DepositOps) /\ Spares(WithdrawalOps) /\ Spares(MarketOps)
  <2>1. CryptoTyped("idle", "idle", Nothing, Nothing)
    BY DEF CryptoTyped
  <2> QED BY <1>2, <1>5, <2>1, CryptoTurn DEF CryptoOps
<1>7. LedgerOK' /\ Covered /\ Records({}) /\ Records(CryptoKinds) /\ Grows
  BY <1>2, <1>6, MoneyCovered, RecordsMore DEF Grows
<1>8. (\A t : SameEntries(TxRef(t))) /\ \A y : SameEntries(SendRef(y))
  BY <1>7, ChainEntriesKept
<1>9. \A t \in TxIds : TxRow(t)'
  BY <1>2, <1>7, <1>8, TxRowKept DEF CryptoOK
<1>10. \A y \in SendIds : SendRow(y)'
  <2> SUFFICES ASSUME NEW y \in SendIds PROVE SendRow(y)'
    OBVIOUS
  <2>1. CASE y = x
    <3>1. Recorded(on)' /\ ~RecordedTwice(on)'
      BY <1>3, <1>8 DEF SameEntries, CryptoOK, SendRow
    <3>2. SendRef(y)' = on
      BY <1>3, <2>1 DEF SendRef
    <3> QED BY <1>3, <2>1, <3>1, <3>2 DEF SendRow
  <2>2. CASE y # x
    BY <1>4, <1>8, <2>2, SendRowKept DEF CryptoOK
  <2> QED BY <2>1, <2>2
<1>11. ASSUME NEW b \in Workers, b # c PROVE CryptoCall(b)'
  <2>1. PICK k : k = calls[b].on
    OBVIOUS
  <2>2. /\ calls[b].op = "webhook" => (Recorded(k)' <=> Recorded(k))
        /\ calls[b].op = "send" => (Recorded(k)' <=> Recorded(k))
    BY <1>8, <2>1, ChainThing DEF SameEntries
  <2>3. calls[b].op = "send" => sent'[k[2]] = sent[k[2]]
    <3>1. calls[b].op = "send" => k # on /\ k = SendRef(k[2]) /\ k[2] \in SendIds
      BY <1>1, <1>2, <1>11, <2>1, SendKnown, ChainThing
    <3> QED BY <1>3, <1>4, <3>1
  <2>4. calls'[b] = calls[b]
    BY <1>5, <1>11 DEF Turns
  <2> QED BY <1>2, <1>7, <2>1, <2>2, <2>3, <2>4, CryptoCallKept
<1>12. CryptoCall(c)'
  BY <1>5 DEF Turns, CryptoCall, At
<1>13. SendersDiffer'
  BY <1>5, SendersTurn DEF CryptoOK
<1>14. AddressesDiffer'
  BY <1>2, <1>7 DEF CryptoOK, AddressesDiffer, Grows
<1>15. CryptoOK'
  BY <1>4, <1>9, <1>10, <1>11, <1>12, <1>13, <1>14 DEF CryptoOK
<1> QED BY <1>6, <1>7, <1>15 DEF CryptoStepped

LEMMA CryptoSteps ==
  ASSUME CallsOK, LedgerOK, CryptoOK, CopiesOK, RacesOK, raced \subseteq raced', CryptoNext
  PROVE  CryptoStepped
<1>1. CASE \E t \in TxIds, w \in Wallets, amount \in Amounts : SendOnChain(t, w, amount)
  BY <1>1, CoinsSent
<1>2. ASSUME NEW c \in Workers, CryptoStep(c) PROVE CryptoStepped
  <2>1. CASE SendFails(c)
    BY <2>1, CryptoEnds DEF SendFails, At, CryptoOps
  <2> QED BY <1>2, <2>1, AddressDerived, AddressSaved, WebhookLooks, TxCredited, FirstLocked,
             SecondLocked, SendDebited, SentOut DEF CryptoStep
<1>3. ASSUME NEW c \in Workers, NEW w \in Wallets,
             \/ GetDepositAddress(c, w)
             \/ \E t \in TxIds : CryptoWebhook(c, t, w)
             \/ \E amount \in Amounts, v \in Wallets : Transfer(c, w, v, amount)
             \/ \E x \in SendIds, amount \in Amounts : InitiateCryptoWithdrawal(c, x, w, amount)
      PROVE  CryptoStepped
  BY <1>3, AddressAsked, WebhookStarts, TransferBegins, SendBegins
<1> QED BY <1>1, <1>2, <1>3 DEF CryptoNext

-----------------------------------------------------------------------------
\* Rows that a transfer holds.

\* No row that is locked changes, but for being made.
RowsHeld ==
    /\ rowLock' = rowLock
    /\ \A w \in Wallets : ~Free(w) => /\ wallets'[w].balance = wallets[w].balance
                                     /\ wallets'[w].locked = wallets[w].locked

LEMMA PostHolds ==
  ASSUME NEW moves, Post(moves), \A w \in DOMAIN moves : Free(w), rowLock' = rowLock
  PROVE  RowsHeld
BY DEF Post, Commit, RowsHeld

LEMMA MovesHold ==
  ASSUME NEW w, NEW delta, NEW lock, NEW ref, Post(Moves(w, delta, lock, ref)), Free(w),
         rowLock' = rowLock
  PROVE  RowsHeld
<1>1. DOMAIN Moves(w, delta, lock, ref) = {w}
  BY DEF Moves
<1> QED BY <1>1, PostHolds

LEMMA RelockHolds ==
  ASSUME LedgerOK, NEW w, NEW lock, Relock(w, lock), Free(w), rowLock' = rowLock
  PROVE  RowsHeld
<1>1. \A v \in Wallets : v # w => wallets'[v] = wallets[v]
  BY DEF Relock, LedgerOK
<1> QED BY <1>1 DEF RowsHeld

LEMMA MakeHolds ==
  ASSUME LedgerOK, NEW w, MakeWallet(w), rowLock' = rowLock
  PROVE  RowsHeld
<1> SUFFICES ASSUME NEW v \in Wallets
             PROVE  wallets'[v].balance = wallets[v].balance /\ wallets'[v].locked = wallets[v].locked
  BY DEF RowsHeld
<1>1. wallets[v] \in Wallet
  BY DEF LedgerOK
<1>2. wallets'[v] = wallets[v] \/ wallets'[v] = [wallets[v] EXCEPT !.made = TRUE]
  BY DEF MakeWallet, LedgerOK
<1> QED BY <1>1, <1>2 DEF Wallet

LEMMA MoneyHolds ==
  ASSUME UNCHANGED wallets, rowLock' = rowLock
  PROVE  RowsHeld
BY DEF RowsHeld

LEMMA CopiesKept ==
  ASSUME CopiesOK, CallsOK, RowsHeld,
         \A c \in Workers : At(c, "transfer", "second")' => calls'[c] = calls[c]
  PROVE  CopiesOK'
<1> SUFFICES ASSUME NEW c \in Workers, At(c, "transfer", "second")'
             PROVE  LET w == LowFirst(calls'[c].mem)[1] IN
                    /\ rowLock'[w] = c
                    /\ calls'[c].mem.row.balance = wallets'[w].balance
                    /\ calls'[c].mem.row.locked = wallets'[w].locked
  BY DEF CopiesOK, CopyOK
<1>1. calls'[c] = calls[c] /\ At(c, "transfer", "second")
  BY DEF At
<1>2. PICK w : w = LowFirst(calls[c].mem)[1] /\ w \in Wallets
  BY <1>1, PairOfTransfer DEF At
<1>3. /\ rowLock[w] = c /\ calls[c].mem.row.balance = wallets[w].balance
      /\ calls[c].mem.row.locked = wallets[w].locked
  BY <1>1, <1>2 DEF CopiesOK, CopyOK
<1>4. ~Free(w)
  BY <1>3, WorkersAssumption DEF Free
<1> QED BY <1>1, <1>2, <1>3, <1>4 DEF RowsHeld

LEMMA CopiesSpared ==
  ASSUME CopiesOK, CallsOK, RowsHeld, Spares(CryptoOps)
  PROVE  CopiesOK'
<1>1. \A c \in Workers : At(c, "transfer", "second")' => calls'[c] = calls[c]
  BY DEF At, Spares, CryptoOps
<1> QED BY <1>1, CopiesKept

LEMMA DepositHolds ==
  ASSUME LedgerOK, DepositNext
  PROVE  RowsHeld
<1>1. ASSUME NEW c \in Workers, OpenWallet(c) PROVE RowsHeld
  BY <1>1, MakeHolds DEF OpenWallet
<1>2. ASSUME NEW c \in Workers, CreditDeposit(c) PROVE RowsHeld
  BY <1>2, MovesHold DEF CreditDeposit
<1>3. CASE UNCHANGED money
  BY <1>3, MoneyHolds DEF money
<1> QED BY <1>1, <1>2, <1>3
       DEF DepositNext, DepositStep, OpenPayment, SaveDeposit, VerifyPayment, ReadDeposit,
           InitiateDeposit, CreateDepositIntent, DepositWebhook, VerifyDeposit, Pay, Expire

LEMMA WithdrawalHolds ==
  ASSUME LedgerOK, WithdrawalNext
  PROVE  RowsHeld
<1>1. ASSUME NEW c \in Workers, Reserve(c) PROVE RowsHeld
  BY <1>1, RelockHolds, MoneyHolds DEF Reserve
<1>2. ASSUME NEW c \in Workers, Settle(c) PROVE RowsHeld
  BY <1>2, MovesHold DEF Settle
<1>3. ASSUME NEW c \in Workers, ReleaseLock(c) PROVE RowsHeld
  BY <1>3, RelockHolds DEF ReleaseLock
<1>4. ASSUME NEW c \in Workers, Credit(c) \/ Debit(c) PROVE RowsHeld
  BY <1>4, MovesHold, MoneyHolds DEF Credit, Debit
<1>5. CASE UNCHANGED money
  BY <1>5, MoneyHolds DEF money
<1> QED BY <1>1, <1>2, <1>3, <1>4, <1>5
       DEF WithdrawalNext, WithdrawalStep, Payout, PayoutRefused, PayoutLost, InitiateWithdrawal,
           ApproveWithdrawal, RejectWithdrawal, AdminCredit, AdminDebit

LEMMA MarketHolds ==
  ASSUME LedgerOK, P2PNext
  PROVE  RowsHeld
<1>1. ASSUME NEW c \in Workers, DebitAd(c) \/ DebitTaker(c) PROVE RowsHeld
  <2>1. ASSUME NEW w, NEW amount, NEW ref, DebitBalance(w, amount, ref), rowLock' = rowLock
        PROVE  RowsHeld
    BY <2>1, MovesHold DEF DebitBalance
  <2>2. ASSUME NEW w, NEW amount, Refused(w, amount), rowLock' = rowLock PROVE RowsHeld
    BY <2>2, MoneyHolds DEF Refused
  <2>3. ASSUME DebitAd(c) PROVE RowsHeld
    BY <2>1, <2>2, <2>3 DEF DebitAd
  <2>4. ASSUME DebitTaker(c) PROVE RowsHeld
    BY <2>1, <2>2, <2>4 DEF DebitTaker
  <2> QED BY <1>1, <2>3, <2>4
<1>2. ASSUME NEW c \in Workers, UndoAd(c) \/ RefundAd(c) \/ CreditTaker(c) \/ CreditMaker(c)
      PROVE  RowsHeld
  BY <1>2, MovesHold DEF UndoAd, RefundAd, CreditTaker, CreditMaker, CreditBalance
<1>3. CASE UNCHANGED money
  BY <1>3, MoneyHolds DEF money
<1> QED BY <1>1, <1>2, <1>3
       DEF P2PNext, P2PStep, CreateAd, InsertAd, InsertAdFails, SetAdStatus, LookAtAd,
           WriteAdStatus, CreateOrder, ReadAd, UpdateAd, InsertOrder

\* A call that does not come to its second row.
LEMMA NotSecond ==
  ASSUME CallsOK, NEW c \in Workers,
         \/ Finish(c)
         \/ \E pc : pc # "second" /\ Goto(c, pc)
         \/ \E pc, mem : pc # "second" /\ GotoWith(c, pc, mem)
         \/ \E op, pc, on, mem : pc # "second" /\ Begin(c, op, pc, on, mem)
  PROVE  \A d \in Workers : At(d, "transfer", "second")' => calls'[d] = calls[d]
<1>1. \E op, pc, on, mem : Turns(c, op, pc, on, mem) /\ pc # "second"
  <2>1. CASE Finish(c)
    BY <2>1, FinishTurns DEF CallsOK
  <2>2. ASSUME NEW pc, pc # "second", Goto(c, pc)
        PROVE  \E op, p, on, mem : Turns(c, op, p, on, mem) /\ p # "second"
    BY <2>2, GotoTurns DEF CallsOK
  <2>3. ASSUME NEW pc, NEW mem, pc # "second", GotoWith(c, pc, mem)
        PROVE  \E op, p, on, m : Turns(c, op, p, on, m) /\ p # "second"
    BY <2>3, GotoWithTurns DEF CallsOK
  <2>4. ASSUME NEW op, NEW pc, NEW on, NEW mem, pc # "second", Begin(c, op, pc, on, mem)
        PROVE  \E o, p, n, m : Turns(c, o, p, n, m) /\ p # "second"
    BY <2>4, BeginTurns DEF CallsOK
  <2> QED BY <2>1, <2>2, <2>3, <2>4
<1> QED BY <1>1 DEF Turns, At

LEMMA CryptoCopies ==
  ASSUME CallsOK, LedgerOK, CopiesOK, CryptoNext
  PROVE  CopiesOK'
<1>1. ASSUME NEW c \in Workers, LockFirst(c) PROVE CopiesOK'
  <2>1. PICK w, new : w = LowFirst(calls[c].mem)[1] /\ new = [calls[c].mem EXCEPT !.row = wallets[w]]
    OBVIOUS
  <2>2. /\ calls[c].op = "transfer" /\ Free(w) /\ rowLock' = [rowLock EXCEPT ![w] = c]
        /\ wallets' = wallets /\ GotoWith(c, "second", new)
    BY <1>1, <2>1 DEF LockFirst, At
  <2>3. Turns(c, "transfer", "second", calls[c].on, new)
    BY <1>1, <2>2, GotoWithTurns DEF CallsOK
  <2>4. w \in Wallets
    BY <1>1, <2>1, <2>2, PairOfTransfer
  <2>5. /\ new.from = calls[c].mem.from /\ new.to = calls[c].mem.to /\ new.row = wallets[w]
    BY <1>1, <2>1, <2>2, <2>4, CopyRead
  <2>6. LowFirst(new)[1] = w
    BY <2>1, <2>5 DEF LowFirst
  <2>7. ASSUME NEW d \in Workers PROVE CopyOK(d)'
    <3>1. CASE d = c
      BY <1>1, <2>2, <2>3, <2>4, <2>5, <2>6, <3>1 DEF CopyOK, Turns, LedgerOK
    <3>2. CASE d # c /\ At(d, "transfer", "second")
      <4>1. PICK v : v = LowFirst(calls[d].mem)[1] /\ v \in Wallets
        BY <3>2, PairOfTransfer DEF At
      <4>2. /\ rowLock[v] = d /\ calls[d].mem.row.balance = wallets[v].balance
            /\ calls[d].mem.row.locked = wallets[v].locked
        BY <3>2, <4>1 DEF CopiesOK, CopyOK
      <4>3. v # w
        BY <2>2, <4>2, WorkersAssumption DEF Free
      <4>4. calls'[d] = calls[d] /\ rowLock'[v] = d
        BY <2>2, <2>3, <3>2, <4>2, <4>3 DEF Turns
      <4> QED BY <2>2, <4>1, <4>2, <4>4 DEF CopyOK
    <3>3. CASE d # c /\ ~At(d, "transfer", "second")
      BY <2>3, <3>3 DEF CopyOK, Turns, At
    <3> QED BY <3>1, <3>2, <3>3
  <2> QED BY <2>7 DEF CopiesOK
<1>2. ASSUME NEW c \in Workers, LockSecond(c) PROVE CopiesOK'
  <2>1. PICK u, z, from, to, rows, moves :
           /\ u = LowFirst(calls[c].mem)[1] /\ z = LowFirst(calls[c].mem)[2]
           /\ from = calls[c].mem.from /\ to = calls[c].mem.to
           /\ rows = [w \in {calls[c].mem.from, calls[c].mem.to} |->
                         IF w = LowFirst(calls[c].mem)[1] THEN calls[c].mem.row ELSE wallets[w]]
           /\ moves = MovesBetween(calls[c].mem.from, calls[c].mem.to, calls[c].mem.amount,
                                   TransferRef)
    OBVIOUS
  <2>2. /\ At(c, "transfer", "second") /\ Free(z) /\ Finish(c)
        /\ rowLock' = [rowLock EXCEPT ![u] = NoCall]
        /\ UNCHANGED <<wallets, ledger>> \/ Commit(rows, moves)
    BY <1>2, <2>1 DEF LockSecond
  <2>3. Turns(c, "idle", "idle", Nothing, Nothing)
    BY <1>2, <2>2, FinishTurns DEF CallsOK
  <2>4. {from, to} = {u, z} /\ DOMAIN moves = {u, z}
    <3>1. DOMAIN moves = {from, to}
      BY <2>1 DEF MovesBetween
    <3> QED BY <2>1, <3>1 DEF LowFirst
  <2>5. \A w \in Wallets : w \notin {u, z} => wallets'[w] = wallets[w]
    BY <2>2, <2>4 DEF Commit
  <2>6. rowLock[u] = c
    BY <1>2, <2>1, <2>2 DEF CopiesOK, CopyOK
  <2>7. ASSUME NEW d \in Workers PROVE CopyOK(d)'
    <3>1. CASE d = c
      BY <2>3, <3>1 DEF CopyOK, Turns, At
    <3>2. CASE d # c /\ At(d, "transfer", "second")
      <4>1. PICK v : v = LowFirst(calls[d].mem)[1] /\ v \in Wallets
        BY <3>2, PairOfTransfer DEF At
      <4>2. /\ rowLock[v] = d /\ calls[d].mem.row.balance = wallets[v].balance
            /\ calls[d].mem.row.locked = wallets[v].locked
        BY <3>2, <4>1 DEF CopiesOK, CopyOK
      <4>3. v # u /\ v # z
        BY <2>2, <2>6, <3>2, <4>2, WorkersAssumption DEF Free
      <4>4. calls'[d] = calls[d] /\ rowLock'[v] = d /\ wallets'[v] = wallets[v]
        BY <2>2, <2>3, <2>5, <3>2, <4>1, <4>2, <4>3 DEF Turns
      <4> QED BY <4>1, <4>2, <4>4 DEF CopyOK
    <3>3. CASE d # c /\ ~At(d, "transfer", "second")
      BY <2>3, <3>3 DEF CopyOK, Turns, At
    <3> QED BY <3>1, <3>2, <3>3
  <2> QED BY <2>7 DEF CopiesOK
<1>3. ASSUME NEW c \in Workers,
             \/ Finish(c)
             \/ \E pc : pc # "second" /\ Goto(c, pc)
             \/ \E pc, mem : pc # "second" /\ GotoWith(c, pc, mem)
             \/ \E op, pc, on, mem : pc # "second" /\ Begin(c, op, pc, on, mem),
             RowsHeld
      PROVE  CopiesOK'
  BY <1>3, NotSecond, CopiesKept
<1>4. ASSUME NEW c \in Workers, CryptoStep(c) PROVE CopiesOK'
  <2>1. CASE CreditTx(c)
    BY <1>3, <2>1, MovesHold, MoneyHolds DEF CreditTx
  <2>2. CASE DebitSend(c)
    <3>1. RowsHeld
      BY <2>2, MovesHold, MoneyHolds DEF DebitSend
    <3>2. Goto(c, "provider") \/ Finish(c)
      BY <2>2 DEF DebitSend
    <3> QED BY <1>3, <3>1, <3>2
  <2>3. CASE DeriveAddress(c) \/ SaveAddress(c) \/ AlreadySeen(c) \/ FindWallet(c)
             \/ SendTransaction(c) \/ SendFails(c)
    <3>1. RowsHeld
      BY <2>3, MoneyHolds
         DEF DeriveAddress, SaveAddress, AlreadySeen, FindWallet, SendTransaction, SendFails, money
    <3>2. \/ Finish(c) \/ Goto(c, "find") \/ \E mem : GotoWith(c, "save", mem)
          \/ \E mem : GotoWith(c, "credit", mem)
      BY <2>3 DEF DeriveAddress, SaveAddress, AlreadySeen, FindWallet, SendTransaction, SendFails
    <3> QED BY <1>3, <3>1, <3>2
  <2> QED BY <1>1, <1>2, <1>4, <2>1, <2>2, <2>3 DEF CryptoStep
<1>5. ASSUME NEW c \in Workers, NEW w \in Wallets,
             \/ GetDepositAddress(c, w)
             \/ \E t \in TxIds : CryptoWebhook(c, t, w)
             \/ \E amount \in Amounts, v \in Wallets : Transfer(c, w, v, amount)
             \/ \E x \in SendIds, amount \in Amounts : InitiateCryptoWithdrawal(c, x, w, amount)
      PROVE  CopiesOK'
  <2>1. RowsHeld
    BY <1>5, MoneyHolds
       DEF GetDepositAddress, CryptoWebhook, Transfer, InitiateCryptoWithdrawal, money
  <2>2. \E op, pc, on, mem : pc # "second" /\ Begin(c, op, pc, on, mem)
    BY <1>5 DEF GetDepositAddress, CryptoWebhook, Transfer, InitiateCryptoWithdrawal
  <2> QED BY <1>3, <2>1, <2>2
<1>6. CASE \E t \in TxIds, w \in Wallets, amount \in Amounts : SendOnChain(t, w, amount)
  <2>1. RowsHeld /\ calls' = calls
    BY <1>6, MoneyHolds DEF SendOnChain, money, control
  <2> QED BY <2>1, CopiesKept
<1> QED BY <1>4, <1>5, <1>6 DEF CryptoNext

-----------------------------------------------------------------------------
\* The marketplace.

\* What the moves of a swap are, of which wallets.
LEMMA SwapTyped ==
  ASSUME NEW m, m.ad \in AdRows, m.taker \in Users, m.amount \in Amounts
  PROVE  /\ TakerGives(m) \in Wallets /\ TakerGets(m) \in Wallets /\ MakerGets(m) \in Wallets
         /\ Given(m) \in Nat /\ Gotten(m) \in Nat /\ Total(m) \in Nat
<1>1. Base \in Currencies /\ Quote \in Currencies
  BY MarketAssumption
<1>2. PICK ad, amount, price : ad = m.ad /\ amount = m.amount /\ price = m.ad.price
  OBVIOUS
<1>3. amount \in Nat /\ price \in Nat /\ ad.maker \in Users
  <2>1. ad.price \in Prices /\ ad.maker \in Users /\ price = ad.price
    BY <1>2 DEF AdRows
  <2> QED BY <1>2, <2>1, AmountsAssumption, MarketAssumption
<1>4. amount * price \in Nat
  BY ONLY <1>3
<1>5. Total(m) = amount * price
  BY ONLY <1>2 DEF Total
<1>6. TakerGives(m) \in Wallets /\ TakerGets(m) \in Wallets
  BY <1>1 DEF TakerGives, TakerGets, Wallets
<1>7. MakerGets(m) \in Wallets
  BY <1>1, <1>2, <1>3 DEF MakerGets, TakerGives, CurrencyOf, Wallets
<1> QED BY <1>2, <1>3, <1>4, <1>5, <1>6, <1>7 DEF Given, Gotten

\* What an advertisement holds, of which wallet.
LEMMA HeldTyped ==
  ASSUME NEW ad \in AdRows
  PROVE  HeldIn(ad) \in Wallets /\ HeldFor(ad, ad.remaining) \in Nat
<1>1. Base \in Currencies /\ Quote \in Currencies
  BY MarketAssumption
<1>2. PICK remaining, price : remaining = ad.remaining /\ price = ad.price
  OBVIOUS
<1>3. remaining \in Nat /\ price \in Nat /\ ad.maker \in Users
  BY <1>2, MarketAssumption DEF AdRows
<1>4. remaining * price \in Nat
  BY ONLY <1>3
<1>5. HeldIn(ad) \in Wallets
  BY <1>1, <1>3 DEF HeldIn, Wallets
<1>6. HeldFor(ad, remaining) \in Nat
  BY <1>2, <1>3, <1>4 DEF HeldFor
<1> QED BY <1>2, <1>5, <1>6

\* No advertisement goes, or becomes another deal.
Deals ==
    \A a \in AdIds : ads[a] # NoAd => ads'[a] # NoAd /\ SameDeal(ads[a], ads'[a])
AdKept(a) ==
    /\ ads'[a] = NoAd <=> ads[a] = NoAd
    /\ Recorded(AdRef(a))' <=> Recorded(AdRef(a))
    /\ RecordedTwice(AdRef(a))' <=> RecordedTwice(AdRef(a))

LEMMA SwapKept ==
  ASSUME NEW kinds, Records(kinds), NEW m, m.ad \in AdRows, m.taker \in Users,
         m.amount \in Amounts
  PROVE  (Gave(m) => Gave(m)') /\ (Got(m) => Got(m)') /\ (MakerGot(m) => MakerGot(m)')
<1>1. PICK v, w, u, ref, given, gotten, less :
        /\ v = TakerGives(m) /\ w = TakerGets(m) /\ u = MakerGets(m) /\ ref = OrderRef(m.id)
        /\ given = Given(m) /\ gotten = Gotten(m) /\ less = -Given(m)
  OBVIOUS
<1>2. v \in Wallets /\ w \in Wallets /\ u \in Wallets
  BY <1>1, SwapTyped
<1>3. /\ WasMoved(v, ref, less) => WasMoved(v, ref, less)'
      /\ WasMoved(w, ref, gotten) => WasMoved(w, ref, gotten)'
      /\ WasMoved(u, ref, given) => WasMoved(u, ref, given)'
  BY <1>2, RecordsKeep
<1>4. /\ TakerGives(m)' = v /\ TakerGets(m)' = w /\ MakerGets(m)' = u /\ OrderRef(m.id)' = ref
      /\ Given(m)' = given /\ Gotten(m)' = gotten /\ (-Given(m))' = less
  BY <1>1 DEF TakerGives, TakerGets, MakerGets, OrderRef, Given, Gotten, Total, CurrencyOf
<1> QED BY <1>1, <1>3, <1>4 DEF Gave, Got, MakerGot

\* Another call's part of the invariant.
LEMMA MarketCallKept ==
  ASSUME CallsOK, NEW b \in Workers, MarketCall(b), calls'[b] = calls[b],
         NEW kinds, Records(kinds), Deals, calls[b].op = "ad" => AdKept(TheAd(b))
  PROVE  MarketCall(b)'
<1>1. PICK op, pc, a, m :
        /\ op = calls[b].op /\ pc = calls[b].pc /\ a = calls[b].on[2] /\ m = calls[b].mem
  OBVIOUS
<1>2. op \in MarketOps => a \in AdIds
  BY <1>1 DEF CallsOK, CallTyped, MarketTyped, IsRef
<1>3. CASE op = "ad"
  <2>1. /\ ads[a] = NoAd /\ ~RecordedTwice(AdRef(a))
        /\ pc # "debit" <=> Recorded(AdRef(a))
    BY <1>1, <1>3 DEF MarketCall, TheAd
  <2>2. /\ ads'[a] = NoAd /\ ~RecordedTwice(AdRef(a))'
        /\ Recorded(AdRef(a))' <=> Recorded(AdRef(a))
    BY <1>1, <1>3, <2>1 DEF AdKept, TheAd
  <2> QED BY <1>1, <1>3, <2>1, <2>2 DEF MarketCall, TheAd
<1>4. CASE op = "status"
  BY <1>1, <1>2, <1>4 DEF MarketCall, TheAd, Deals, MarketOps
<1>5. CASE op = "order"
  <2>1. OrderCall(pc, a, m)
    BY <1>1, <1>5 DEF MarketCall, TheAd
  <2>2. /\ m.taker \in Users /\ m.amount \in Amounts
        /\ pc # "look" => m.ad \in AdRows
        /\ pc \in {"look", "debit", "taker", "maker", "update", "insert"}
    BY <1>1, <1>5 DEF CallsOK, CallTyped, MarketTyped, Sold
  <2>3. pc # "look" => ads'[a] # NoAd /\ SameDeal(m.ad, ads'[a])
    BY <1>2, <1>5, <2>1 DEF OrderCall, Deals, SameDeal, MarketOps
  <2>4. pc # "look" => (Gave(m) => Gave(m)') /\ (Got(m) => Got(m)') /\ (MakerGot(m) => MakerGot(m)')
    BY <2>2, SwapKept
  <2>5. OrderCall(pc, a, m)'
    BY <2>1, <2>3, <2>4 DEF OrderCall
  <2> QED BY <1>1, <1>5, <2>5 DEF MarketCall, TheAd
<1>6. CASE op \notin MarketOps
  BY <1>1, <1>6 DEF MarketCall, MarketOps
<1> QED BY <1>3, <1>4, <1>5, <1>6 DEF MarketOps

\* Moves that were made stay made.
LEMMA OrderRowKept ==
  ASSUME MarketOK, NEW kinds, Records(kinds), Deals, NEW o \in OrderIds,
         p2pOrders'[o] = p2pOrders[o]
  PROVE  OrderRow(o)'
<1>1. CASE p2pOrders[o] = NoOrder
  BY <1>1 DEF OrderRow
<1>2. CASE p2pOrders[o] # NoOrder
  <2>1. PICK order, ad, new, taker, maker, ref, base, quote :
          /\ order = p2pOrders[o] /\ ad = ads[order.ad] /\ new = ads'[order.ad]
          /\ taker = order.taker /\ maker = ad.maker /\ ref = OrderRef(o)
          /\ base = (IF ad.type = "buy" THEN -order.amount ELSE order.amount)
          /\ quote = (IF ad.type = "buy" THEN order.total ELSE -order.total)
    OBVIOUS
  <2>2. /\ order.ad \in AdIds /\ taker \in Users
    BY <1>2, <2>1 DEF MarketOK, P2PTypeOK
  <2>3. ad # NoAd /\ OrderPaid(o, order, ad)
    BY <1>2, <2>1 DEF MarketOK, OrderRow
  <2>4. new # NoAd /\ SameDeal(ad, new)
    BY <2>1, <2>2, <2>3 DEF Deals
  <2>5. maker \in Users
    BY <2>1, <2>2, <2>3 DEF MarketOK, P2PTypeOK
  <2>6. PICK tb, tq, mb, mq : /\ tb = <<taker, Base>> /\ tq = <<taker, Quote>>
                              /\ mb = <<maker, Base>> /\ mq = <<maker, Quote>>
    OBVIOUS
  <2>7. tb \in Wallets /\ tq \in Wallets /\ mb \in Wallets /\ mq \in Wallets
    BY <2>2, <2>5, <2>6, MarketAssumption DEF Wallets
  <2>8. \A w \in Wallets : \A delta : WasMoved(w, ref, delta) => WasMoved(w, ref, delta)'
    BY RecordsKeep
  <2>9. OrderRef(o)' = ref
    BY <2>1 DEF OrderRef
  <2>10. /\ WasMoved(tb, ref, base)' /\ WasMoved(tq, ref, quote)'
         /\ IF ad.type = "buy" THEN WasMoved(mb, ref, order.amount)'
                               ELSE WasMoved(mq, ref, order.total)'
    BY <2>1, <2>3, <2>6, <2>7, <2>8 DEF OrderPaid
  <2>11. OrderPaid(o, order, new)'
    BY <2>1, <2>4, <2>6, <2>9, <2>10 DEF OrderPaid, SameDeal
  <2> QED BY <2>1, <2>4, <2>11 DEF OrderRow
<1> QED BY <1>1, <1>2

\* A step of call c.
LEMMA MarketMoves ==
  ASSUME MarketOK, CallsOK, NEW kinds, Records(kinds), Deals, P2PTypeOK',
         NEW c \in Workers, NEW op, NEW pc, NEW on, NEW mem, Turns(c, op, pc, on, mem),
         MarketCall(c)', \A a \in AdIds : AdRow(a)',
         \A b \in Workers : b # c /\ calls[b].op = "ad" => AdKept(TheAd(b)),
         \A o \in OrderIds : p2pOrders'[o] = p2pOrders[o] \/ OrderRow(o)',
         op = "ad" => \/ calls[c].op = "ad" /\ calls[c].on = on
                      \/ \A b \in Workers : calls[b].on # on
  PROVE  MarketOK'
<1>1. /\ \A b \in Workers : b # c => calls'[b] = calls[b]
      /\ calls'[c].op = op /\ calls'[c].on = on
  BY DEF Turns
<1>2. \A b \in Workers : b # c => MarketCall(b)'
  BY <1>1, MarketCallKept DEF MarketOK
<1>3. \A o \in OrderIds : OrderRow(o)'
  BY OrderRowKept
<1>4. MakersDiffer'
  BY <1>1 DEF MarketOK, MakersDiffer
<1> QED BY <1>2, <1>3, <1>4 DEF MarketOK

\* Advertisements whose funding is neither recorded nor changed.
LEMMA AdsKept ==
  ASSUME MarketOK, NEW kinds, Records(kinds), "ad" \notin kinds, NEW a \in AdIds,
         ads'[a] = NoAd <=> ads[a] = NoAd
  PROVE  AdKept(a) /\ AdRow(a)'
<1>1. AdRef(a)[1] \notin kinds
  BY DEF AdRef
<1>2. AdKept(a)
  BY <1>1, RecordsKeep DEF AdKept
<1> QED BY <1>2 DEF AdKept, AdRow, MarketOK

\* A step that leaves the marketplace's tables alone.
LEMMA MarketCallTurns ==
  ASSUME MarketOK, CallsOK, NEW kinds, Records(kinds), "ad" \notin kinds, UNCHANGED p2pVars,
         NEW c \in Workers, NEW op, NEW pc, NEW on, NEW mem, Turns(c, op, pc, on, mem),
         MarketCall(c)',
         op = "ad" => \/ calls[c].op = "ad" /\ calls[c].on = on
                      \/ \A b \in Workers : calls[b].on # on
  PROVE  MarketOK'
<1>1. ads' = ads /\ p2pOrders' = p2pOrders
  BY DEF p2pVars
<1>2. Deals /\ P2PTypeOK'
  BY <1>1 DEF Deals, SameDeal, MarketOK, P2PTypeOK
<1>3. \A a \in AdIds : AdKept(a) /\ AdRow(a)'
  BY <1>1, AdsKept
<1>4. \A b \in Workers : b # c /\ calls[b].op = "ad" => AdKept(TheAd(b))
  BY <1>3 DEF CallsOK, CallTyped, MarketTyped, MarketOps, IsRef, TheAd
<1> QED BY <1>1, <1>2, <1>3, <1>4, MarketMoves

\* A step of another service.
LEMMA MarketKeeps ==
  ASSUME MarketOK, CallsOK, UNCHANGED p2pVars, Spares(MarketOps),
         NEW kinds, Records(kinds), "ad" \notin kinds
  PROVE  MarketOK'
<1>1. ads' = ads /\ p2pOrders' = p2pOrders
  BY DEF p2pVars
<1>2. Deals /\ P2PTypeOK'
  BY <1>1 DEF Deals, SameDeal, MarketOK, P2PTypeOK
<1>3. \A a \in AdIds : AdKept(a) /\ AdRow(a)'
  BY <1>1, AdsKept
<1>4. \A b \in Workers : calls[b].op = "ad" => AdKept(TheAd(b))
  BY <1>3 DEF CallsOK, CallTyped, MarketTyped, MarketOps, IsRef, TheAd
<1>5. \A b \in Workers : calls'[b].op \in MarketOps => calls'[b] = calls[b]
  BY DEF Spares
<1>6. ASSUME NEW b \in Workers PROVE MarketCall(b)'
  <2>1. CASE calls'[b] = calls[b]
    BY <1>2, <1>4, <2>1, MarketCallKept DEF MarketOK
  <2>2. CASE calls'[b].op \notin MarketOps
    BY <2>2 DEF MarketCall, MarketOps
  <2> QED BY <1>5, <2>1, <2>2
<1>7. \A o \in OrderIds : OrderRow(o)'
  BY <1>1, <1>2, OrderRowKept
<1>8. MakersDiffer'
  BY <1>5 DEF MarketOK, MakersDiffer, MarketOps
<1> QED BY <1>2, <1>3, <1>6, <1>7, <1>8 DEF MarketOK

\* Where a call of the marketplace may go.
LEMMA MarketTurn ==
  ASSUME CallsOK, NEW c \in Workers, NEW op, NEW pc, NEW on, NEW mem,
         Turns(c, op, pc, on, mem), UNCHANGED <<work, faults, hurt>>,
         op \in DOMAIN work \cup {"idle"}, {op, calls[c].op} \subseteq MarketOps \cup {"idle"},
         op = "idle" => on = Nothing, MarketTyped(op, pc, on, mem)
  PROVE  /\ CallsOK' /\ hurt' = hurt
         /\ Spares(DepositOps) /\ Spares(WithdrawalOps) /\ Spares(CryptoOps)
<1>1. CallTyped(op, pc, on, mem)
  BY DEF CallTyped, MarketOps, DepositTyped, DepositOps, Openers, WithdrawalTyped, CryptoTyped
<1>2. faults' \in 0..MaxFaults
  BY DEF CallsOK
<1>3. CallsOK'
  BY <1>1, <1>2, CallTurns
<1>4. /\ op \notin DepositOps \cup WithdrawalOps \cup CryptoOps
      /\ calls[c].op \notin DepositOps \cup WithdrawalOps \cup CryptoOps
  BY DEF DepositOps, WithdrawalOps, CryptoOps, MarketOps
<1> QED BY <1>3, <1>4, TurnsSpare

MarketKinds == {"ad", "refund", "order"}

\* What every step of the marketplace does.
MarketStepped ==
    /\ CallsOK' /\ LedgerOK' /\ MarketOK' /\ Records(MarketKinds) /\ hurt' = hurt
    /\ Spares(DepositOps) /\ Spares(WithdrawalOps) /\ Spares(CryptoOps)
    /\ Covered

\* What the marketplace takes is recorded as taken by it.
LEMMA MarketCovered ==
  ASSUME LedgerOK, LedgerOK', NEW w \in Wallets, NEW delta \in Int, NEW ref,
         Changed(w, delta, 0, ref), RecordsOne(w, ref, delta),
         \A v \in Wallets : v # w => Left(v),
         delta >= 0 \/ ref[1] \in {"ad", "order"}
  PROVE  Covered
<1>1. CASE delta >= 0
  BY <1>1, MoveCovered
<1>2. CASE delta < 0
  <2>1. PICK n : n = Len(ledger[w]) + 1
    OBVIOUS
  <2>2. n \in EntriesOf(w, ref)' /\ ledger'[w][n].after - ledger'[w][n].before = delta
    BY <2>1 DEF RecordsOne
  <2>3. n \in DOMAIN ledger'[w] /\ ledger'[w][n].ref = ref
    BY <2>2 DEF EntriesOf
  <2>4. ledger'[w][n] \in Entries
    BY <2>3 DEF LedgerOK
  <2>5. ledger'[w][n].after < ledger'[w][n].before
    BY <1>2, <2>2, <2>4 DEF Entries
  <2>6. MarketTook(w)'
    BY <1>2, <2>3, <2>5 DEF MarketTook
  <2>7. /\ wallets'[w].locked = wallets[w].locked
        /\ \A v \in Wallets : v # w => wallets'[v] = wallets[v]
        /\ \A v \in Wallets : wallets[v] \in Wallet
    BY DEF Changed, Left, LedgerOK, Wallet
  <2> QED BY <2>6, <2>7 DEF Covered, Wallet
<1> QED BY <1>1, <1>2

\* A step that only moves its call.
LEMMA MarketLooks ==
  ASSUME CallsOK, LedgerOK, MarketOK, NEW c \in Workers,
         NEW op, NEW pc, NEW on, NEW mem,
         Turns(c, op, pc, on, mem), UNCHANGED <<work, faults, hurt>>, UNCHANGED money,
         UNCHANGED p2pVars,
         op \in DOMAIN work \cup {"idle"}, {op, calls[c].op} \subseteq MarketOps \cup {"idle"},
         op = "idle" => on = Nothing, MarketTyped(op, pc, on, mem), MarketCall(c)',
         op = "ad" => \/ calls[c].op = "ad" /\ calls[c].on = on
                      \/ \A b \in Workers : calls[b].on # on
  PROVE  MarketStepped
<1>1. /\ CallsOK' /\ hurt' = hurt
      /\ Spares(DepositOps) /\ Spares(WithdrawalOps) /\ Spares(CryptoOps)
  BY MarketTurn
<1>2. LedgerOK' /\ Covered /\ Records({}) /\ Records(MarketKinds)
  BY MoneyCovered, RecordsMore
<1>3. MarketOK'
  BY <1>2, MarketCallTurns
<1> QED BY <1>1, <1>2, <1>3 DEF MarketStepped

\* A call ends, and that is all.
LEMMA MarketEnds ==
  ASSUME CallsOK, LedgerOK, MarketOK, NEW c \in Workers,
         calls[c].op \in MarketOps, Finish(c), UNCHANGED money, UNCHANGED p2pVars
  PROVE  MarketStepped
<1>1. Turns(c, "idle", "idle", Nothing, Nothing) /\ UNCHANGED <<work, faults, hurt>>
  BY FinishTurns DEF CallsOK
<1>2. MarketTyped("idle", "idle", Nothing, Nothing)
  BY DEF MarketTyped, MarketOps
<1>3. MarketCall(c)'
  BY <1>1 DEF Turns, MarketCall
<1> QED BY <1>1, <1>2, <1>3, MarketLooks

LEMMA AdBegins ==
  ASSUME CallsOK, LedgerOK, MarketOK, NEW c \in Workers, NEW a \in AdIds, NEW u \in Users,
         NEW type \in {"buy", "sell"}, NEW price \in Prices, NEW amount \in Amounts,
         CreateAd(c, a, u, type, price, amount)
  PROVE  MarketStepped
<1>1. PICK ad, on : /\ ad = [status |-> "active", type |-> type, maker |-> u, price |-> price,
                             remaining |-> amount]
                    /\ on = AdRef(a)
  OBVIOUS
<1>2. /\ ads[a] = NoAd /\ ~Recorded(AdRef(a)) /\ \A b \in Workers : calls[b].on # on
      /\ Begin(c, "ad", "debit", on, ad) /\ UNCHANGED money /\ UNCHANGED p2pVars
  BY <1>1 DEF CreateAd
<1>3. /\ Turns(c, "ad", "debit", on, ad) /\ calls[c].op = "idle" /\ "ad" \in DOMAIN work
      /\ UNCHANGED <<work, faults, hurt>>
  BY <1>2, BeginTurns DEF CallsOK
<1>4. ad \in AdRows
  <2>1. amount \in Nat
    BY AmountsAssumption
  <2> QED BY <1>1, <2>1 DEF AdRows, AdStatuses
<1>5. on = <<"ad", a>> /\ on[2] = a
  BY <1>1 DEF AdRef
<1>6. MarketTyped("ad", "debit", on, ad)
  BY <1>4, <1>5 DEF MarketTyped, MarketOps, IsRef
<1>7. Records({}) /\ AdRef(a)[1] \notin {}
  BY <1>2, MoneyCovered
<1>8. ~Recorded(AdRef(a))' /\ ~RecordedTwice(AdRef(a))'
  BY <1>2, <1>7, RecordsKeep, NotRecordedNone
<1>9. MarketCall(c)'
  BY <1>2, <1>3, <1>5, <1>8 DEF Turns, MarketCall, TheAd, p2pVars
<1> QED BY <1>2, <1>3, <1>6, <1>9, MarketLooks DEF MarketOps

LEMMA StatusBegins ==
  ASSUME CallsOK, LedgerOK, MarketOK, NEW c \in Workers, NEW a \in AdIds, NEW status,
         SetAdStatus(c, a, status)
  PROVE  MarketStepped
<1>1. PICK on : on = AdRef(a)
  OBVIOUS
<1>2. /\ ads[a] # NoAd /\ Begin(c, "status", "look", on, status) /\ UNCHANGED money
      /\ UNCHANGED p2pVars
  BY <1>1 DEF SetAdStatus
<1>3. /\ Turns(c, "status", "look", on, status) /\ calls[c].op = "idle"
      /\ "status" \in DOMAIN work /\ UNCHANGED <<work, faults, hurt>>
  BY <1>2, BeginTurns DEF CallsOK
<1>4. on = <<"ad", a>> /\ on[2] = a
  BY <1>1 DEF AdRef
<1>5. MarketTyped("status", "look", on, status)
  BY <1>4 DEF MarketTyped, MarketOps, IsRef
<1>6. MarketCall(c)'
  BY <1>2, <1>3, <1>4 DEF Turns, MarketCall, TheAd, p2pVars
<1> QED BY <1>2, <1>3, <1>5, <1>6, MarketLooks DEF MarketOps

LEMMA OrderBegins ==
  ASSUME CallsOK, LedgerOK, MarketOK, NEW c \in Workers, NEW o \in OrderIds, NEW a \in AdIds,
         NEW u \in Users, NEW amount \in Amounts, CreateOrder(c, o, a, u, amount)
  PROVE  MarketStepped
<1>1. PICK m, on : /\ m = [id |-> o, ad |-> NoAd, taker |-> u, amount |-> amount]
                   /\ on = AdRef(a)
  OBVIOUS
<1>2. /\ Begin(c, "order", "look", on, m) /\ UNCHANGED money /\ UNCHANGED p2pVars
  BY <1>1 DEF CreateOrder
<1>3. /\ Turns(c, "order", "look", on, m) /\ calls[c].op = "idle"
      /\ "order" \in DOMAIN work /\ UNCHANGED <<work, faults, hurt>>
  BY <1>2, BeginTurns DEF CallsOK
<1>4. on = <<"ad", a>> /\ on[2] = a
  BY <1>1 DEF AdRef
<1>5. /\ m = [id |-> m.id, ad |-> m.ad, taker |-> m.taker, amount |-> m.amount]
      /\ m.id \in OrderIds /\ m.taker \in Users /\ m.amount \in Amounts
  BY ONLY <1>1
<1>6. MarketTyped("order", "look", on, m)
  BY <1>4, <1>5 DEF MarketTyped, MarketOps, IsRef
<1>7. MarketCall(c)'
  BY <1>3 DEF Turns, MarketCall, OrderCall
<1> QED BY <1>2, <1>3, <1>6, <1>7, MarketLooks DEF MarketOps

\* What is known of a call of the marketplace.
LEMMA MarketCallKnown ==
  ASSUME CallsOK, MarketOK, NEW c \in Workers, calls[c].op \in MarketOps
  PROVE  /\ calls[c].op \in DOMAIN work
         /\ TheAd(c) \in AdIds /\ calls[c].on = AdRef(TheAd(c)) /\ TheAd(c) = calls[c].on[2]
         /\ IsRef(calls[c].on, "ad", AdIds)
         /\ MarketTyped(calls[c].op, calls[c].pc, calls[c].on, calls[c].mem)
         /\ MarketCall(c)
BY DEF CallsOK, CallTyped, MarketTyped, IsRef, TheAd, AdRef, MarketOK, MarketOps

LEMMA AdLooked ==
  ASSUME CallsOK, LedgerOK, MarketOK, NEW c \in Workers, LookAtAd(c)
  PROVE  MarketStepped
<1>1. PICK a, on, mem, ad : /\ a = TheAd(c) /\ on = calls[c].on /\ mem = calls[c].mem
                            /\ ad = ads[TheAd(c)]
  OBVIOUS
<1>2. /\ calls[c].op = "status" /\ calls[c].pc = "look" /\ UNCHANGED money /\ UNCHANGED p2pVars
      /\ Goto(c, "write") \/ GotoWith(c, "refund", ad) \/ Finish(c)
  BY <1>1 DEF LookAtAd, At
<1>3. /\ a \in AdIds /\ IsRef(on, "ad", AdIds) /\ on[2] = a /\ ads[a] # NoAd
      /\ "status" \in DOMAIN work
  BY <1>1, <1>2, MarketCallKnown DEF MarketOps, MarketCall
<1>4. ad \in AdRows
  BY <1>1, <1>3 DEF MarketOK, P2PTypeOK, AdRows
<1>5. CASE Finish(c)
  BY <1>2, <1>5, MarketEnds DEF MarketOps
<1>6. CASE Goto(c, "write") \/ GotoWith(c, "refund", ad)
  <2>1. PICK pc, new :
          /\ Turns(c, "status", pc, on, new) /\ UNCHANGED <<work, faults, hurt>>
          /\ pc = "write" \/ (pc = "refund" /\ new = ad)
    BY <1>1, <1>2, <1>6, GotoTurns, GotoWithTurns DEF CallsOK
  <2>2. MarketTyped("status", pc, on, new)
    BY <1>3, <1>4, <2>1 DEF MarketTyped, MarketOps
  <2>3. MarketCall(c)'
    BY <1>2, <1>3, <2>1 DEF Turns, MarketCall, TheAd, p2pVars
  <2> QED BY <1>2, <1>3, <2>1, <2>2, <2>3, MarketLooks DEF MarketOps
<1> QED BY <1>2, <1>5, <1>6

\* The table of advertisements after one of its rows changed.
LEMMA AdRowChanges ==
  ASSUME MarketOK, NEW a \in AdIds, NEW row \in AdRows, ads' = [ads EXCEPT ![a] = row],
         p2pOrders' = p2pOrders, ads[a] # NoAd => SameDeal(ads[a], row)
  PROVE  /\ Deals /\ P2PTypeOK' /\ ads'[a] = row /\ row # NoAd
         /\ \A b \in AdIds : b # a => ads'[b] = ads[b]
<1>1. /\ ads'[a] = row /\ \A b \in AdIds : b # a => ads'[b] = ads[b]
      /\ P2PTypeOK'
  BY DEF MarketOK, P2PTypeOK, AdRows
<1>2. row # NoAd
  <2>1. NoAd.status = "none" /\ row.status \in AdStatuses
    BY DEF NoAd, AdRows
  <2> QED BY <2>1 DEF AdStatuses
<1>3. Deals
  BY <1>1, <1>2 DEF Deals, SameDeal
<1> QED BY <1>1, <1>2, <1>3

LEMMA AdInserted ==
  ASSUME CallsOK, LedgerOK, MarketOK, NEW c \in Workers, InsertAd(c)
  PROVE  MarketStepped
<1>1. PICK a, row : a = TheAd(c) /\ row = calls[c].mem
  OBVIOUS
<1>2. /\ calls[c].op = "ad" /\ calls[c].pc = "insert" /\ UNCHANGED money /\ Finish(c)
      /\ ads' = [ads EXCEPT ![a] = row] /\ p2pOrders' = p2pOrders
  BY <1>1 DEF InsertAd, At
<1>3. /\ a \in AdIds /\ row \in AdRows /\ ads[a] = NoAd /\ calls[c].on = AdRef(a)
      /\ ~RecordedTwice(AdRef(a)) /\ Recorded(AdRef(a))
  BY <1>1, <1>2, MarketCallKnown DEF MarketOps, MarketCall, MarketTyped
<1>4. /\ Deals /\ P2PTypeOK' /\ ads'[a] = row /\ row # NoAd
      /\ \A b \in AdIds : b # a => ads'[b] = ads[b]
  BY <1>2, <1>3, AdRowChanges
<1>5. Turns(c, "idle", "idle", Nothing, Nothing) /\ UNCHANGED <<work, faults, hurt>>
  BY <1>2, FinishTurns DEF CallsOK
<1>6. /\ CallsOK' /\ hurt' = hurt
      /\ Spares(DepositOps) /\ Spares(WithdrawalOps) /\ Spares(CryptoOps)
  <2>1. MarketTyped("idle", "idle", Nothing, Nothing)
    BY DEF MarketTyped, MarketOps
  <2> QED BY <1>2, <1>5, <2>1, MarketTurn DEF MarketOps
<1>7. LedgerOK' /\ Covered /\ Records({}) /\ Records(MarketKinds)
  BY <1>2, MoneyCovered, RecordsMore
<1>8. /\ Recorded(AdRef(a))' /\ ~RecordedTwice(AdRef(a))'
  <2>1. AdRef(a)[1] \notin {}
    OBVIOUS
  <2> QED BY <1>3, <1>7, <2>1, RecordsKeep
<1>9. \A b \in AdIds : b # a => AdKept(b) /\ AdRow(b)'
  BY <1>4, <1>7, AdsKept
<1>10. \A b \in AdIds : AdRow(b)'
  BY <1>8, <1>9 DEF AdRow
<1>11. ASSUME NEW b \in Workers, b # c, calls[b].op = "ad" PROVE AdKept(TheAd(b))
  <2>1. TheAd(b) \in AdIds /\ calls[b].on = AdRef(TheAd(b)) /\ calls[b].on # calls[c].on
    BY <1>2, <1>11, MarketCallKnown DEF MarketOps, MarketOK, MakersDiffer
  <2>2. TheAd(b) # a
    BY <1>3, <2>1
  <2> QED BY <1>9, <2>1, <2>2
<1>12. MarketCall(c)'
  BY <1>5 DEF Turns, MarketCall
<1>13. MarketOK'
  BY <1>2, <1>4, <1>5, <1>7, <1>10, <1>11, <1>12, MarketMoves
<1> QED BY <1>6, <1>7, <1>13 DEF MarketStepped

LEMMA AdNotSaved ==
  ASSUME CallsOK, LedgerOK, MarketOK, NEW c \in Workers, InsertAdFails(c)
  PROVE  MarketStepped
<1>1. PICK a, on, row : a = TheAd(c) /\ on = calls[c].on /\ row = calls[c].mem
  OBVIOUS
<1>2. /\ calls[c].op = "ad" /\ calls[c].pc = "insert" /\ UNCHANGED money /\ UNCHANGED p2pVars
      /\ Goto(c, "undo")
  BY <1>1 DEF InsertAdFails, At
<1>3. /\ a \in AdIds /\ row \in AdRows /\ ads[a] = NoAd /\ on = AdRef(a) /\ on[2] = a
      /\ ~RecordedTwice(AdRef(a)) /\ Recorded(AdRef(a)) /\ IsRef(on, "ad", AdIds)
      /\ "ad" \in DOMAIN work
  BY <1>1, <1>2, MarketCallKnown DEF MarketOps, MarketCall, MarketTyped
<1>4. Turns(c, "ad", "undo", on, row) /\ UNCHANGED <<work, faults, hurt>>
  BY <1>1, <1>2, GotoTurns DEF CallsOK
<1>5. MarketTyped("ad", "undo", on, row)
  BY <1>3 DEF MarketTyped, MarketOps
<1>6. Records({}) /\ AdRef(a)[1] \notin {}
  BY <1>2, MoneyCovered
<1>7. Recorded(AdRef(a))' /\ ~RecordedTwice(AdRef(a))'
  BY <1>3, <1>6, RecordsKeep
<1>8. MarketCall(c)'
  BY <1>2, <1>3, <1>4, <1>7 DEF Turns, MarketCall, TheAd, p2pVars
<1> QED BY <1>1, <1>2, <1>3, <1>4, <1>5, <1>8, MarketLooks DEF MarketOps

\* A step that moves one wallet's balance and its call.
LEMMA MarketPosts ==
  ASSUME CallsOK, LedgerOK, MarketOK, NEW c \in Workers, calls[c].op \in {"status", "order"},
         NEW op, NEW pc, NEW on, NEW mem,
         Turns(c, op, pc, on, mem), UNCHANGED <<work, faults, hurt>>, UNCHANGED p2pVars,
         op \in {calls[c].op, "idle"}, op = "idle" => on = Nothing,
         MarketTyped(op, pc, on, mem), MarketCall(c)',
         NEW w \in Wallets, NEW delta \in Int, NEW ref \in Refs, ref[1] \in {"refund", "order"},
         Post(Moves(w, delta, 0, ref)), rowLock' = rowLock, delta >= 0 \/ ref[1] = "order"
  PROVE  MarketStepped
<1>1. op \in DOMAIN work \cup {"idle"}
  BY DEF CallsOK
<1>2. /\ CallsOK' /\ hurt' = hurt
      /\ Spares(DepositOps) /\ Spares(WithdrawalOps) /\ Spares(CryptoOps)
  BY <1>1, MarketTurn DEF MarketOps
<1>3. rowLock' \in [Wallets -> Workers \cup {NoCall}] /\ 0 \in Int
  BY DEF LedgerOK
<1>4. /\ LedgerOK' /\ Records({ref[1]}) /\ Changed(w, delta, 0, ref)
      /\ RecordsOne(w, ref, delta) /\ \A v \in Wallets : v # w => Left(v)
  BY <1>3, PostOne
<1>5. Covered
  BY <1>4, MarketCovered
<1>6. Records(MarketKinds) /\ "ad" \notin {ref[1]}
  BY <1>4, RecordsMore DEF MarketKinds
<1>7. MarketOK'
  BY <1>4, <1>6, MarketCallTurns
<1> QED BY <1>2, <1>4, <1>5, <1>6, <1>7 DEF MarketStepped

LEMMA AdRefunded ==
  ASSUME CallsOK, LedgerOK, MarketOK, NEW c \in Workers, RefundAd(c)
  PROVE  MarketStepped
<1>1. PICK a, ad, w, delta, ref :
        /\ a = TheAd(c) /\ ad = calls[c].mem /\ w = HeldIn(calls[c].mem)
        /\ delta = HeldFor(calls[c].mem, calls[c].mem.remaining) /\ ref = RefundRef(TheAd(c))
  OBVIOUS
<1>2. /\ calls[c].op = "status" /\ calls[c].pc = "refund" /\ UNCHANGED p2pVars
      /\ Finish(c) /\ rowLock' = rowLock /\ Post(Moves(w, delta, 0, ref))
  BY <1>1 DEF RefundAd, At, CreditBalance
<1>3. a \in AdIds /\ ad \in AdRows
  BY <1>1, <1>2, MarketCallKnown DEF MarketOps, MarketTyped
<1>4. w \in Wallets /\ delta \in Int /\ delta >= 0
  <2>1. HeldIn(ad) \in Wallets /\ HeldFor(ad, ad.remaining) \in Nat
    BY <1>3, HeldTyped
  <2> QED BY <1>1, <2>1
<1>5. ref \in Refs /\ ref[1] = "refund"
  BY <1>1, <1>3 DEF RefundRef, Refs
<1>6. Turns(c, "idle", "idle", Nothing, Nothing) /\ UNCHANGED <<work, faults, hurt>>
  BY <1>2, FinishTurns DEF CallsOK
<1>7. MarketTyped("idle", "idle", Nothing, Nothing)
  BY DEF MarketTyped, MarketOps
<1>8. MarketCall(c)'
  BY <1>6 DEF Turns, MarketCall
<1> QED BY <1>2, <1>4, <1>5, <1>6, <1>7, <1>8, MarketPosts

\* A step of an "ad" call that moves what its advertisement holds.
LEMMA AdPosts ==
  ASSUME CallsOK, LedgerOK, MarketOK, NEW c \in Workers, calls[c].op = "ad",
         NEW a \in AdIds, a = TheAd(c), NEW op, NEW pc, NEW on, NEW mem,
         Turns(c, op, pc, on, mem), UNCHANGED <<work, faults, hurt>>, UNCHANGED p2pVars,
         \/ op = "idle" /\ on = Nothing
         \/ op = "ad" /\ pc = "insert" /\ on = calls[c].on /\ mem = calls[c].mem
            /\ calls[c].pc = "debit",
         NEW w \in Wallets, NEW delta \in Int,
         Post(Moves(w, delta, 0, AdRef(a))), rowLock' = rowLock
  PROVE  MarketStepped
<1>1. PICK ref : ref = AdRef(a)
  OBVIOUS
<1>2. /\ ads[a] = NoAd /\ calls[c].on = ref /\ "ad" \in DOMAIN work
      /\ MarketTyped("ad", calls[c].pc, calls[c].on, calls[c].mem)
      /\ calls[c].pc = "debit" => ~Recorded(ref)
  BY <1>1, MarketCallKnown DEF MarketOps, MarketCall
<1>3. ref \in Refs /\ ref[1] = "ad"
  BY <1>1 DEF AdRef, Refs
<1>4. rowLock' \in [Wallets -> Workers \cup {NoCall}] /\ 0 \in Int
  BY DEF LedgerOK
<1>5. /\ LedgerOK' /\ Records({"ad"}) /\ RecordsOne(w, ref, delta)
      /\ Changed(w, delta, 0, ref) /\ \A v \in Wallets : v # w => Left(v)
  BY <1>1, <1>3, <1>4, PostOne
<1>6. MarketTyped(op, pc, on, mem)
  BY <1>2 DEF MarketTyped, MarketOps
<1>7. /\ CallsOK' /\ hurt' = hurt
      /\ Spares(DepositOps) /\ Spares(WithdrawalOps) /\ Spares(CryptoOps)
  BY <1>2, <1>6, MarketTurn DEF MarketOps
<1>8. Records(MarketKinds)
  BY <1>5, RecordsMore DEF MarketKinds
<1>9. ads' = ads /\ p2pOrders' = p2pOrders
  BY DEF p2pVars
<1>10. Deals /\ P2PTypeOK'
  BY <1>9 DEF Deals, SameDeal, MarketOK, P2PTypeOK
<1>11. ASSUME NEW b \in AdIds, b # a PROVE AdKept(b) /\ AdRow(b)'
  <2>1. AdRef(b) # ref
    BY <1>1, <1>11 DEF AdRef
  <2>2. AdKept(b)
    BY <1>5, <1>9, <2>1, OthersRecorded DEF AdKept
  <2> QED BY <1>9, <2>2 DEF AdKept, AdRow, MarketOK
<1>12. AdRow(a)'
  BY <1>2, <1>9 DEF AdRow
<1>13. ASSUME NEW b \in Workers, b # c, calls[b].op = "ad" PROVE AdKept(TheAd(b))
  <2>1. TheAd(b) \in AdIds /\ calls[b].on = AdRef(TheAd(b)) /\ calls[b].on # calls[c].on
    BY <1>13, MarketCallKnown DEF MarketOps, MarketOK, MakersDiffer
  <2>2. TheAd(b) # a
    BY <1>1, <1>2, <2>1
  <2> QED BY <1>11, <2>1, <2>2
<1>14. MarketCall(c)'
  <2>1. CASE op = "idle"
    BY <2>1 DEF Turns, MarketCall
  <2>2. CASE op = "ad"
    <3>1. Recorded(ref)' /\ ~RecordedTwice(ref)'
      BY <1>2, <1>5, <2>2, OneRecorded
    <3>2. calls'[c].op = "ad" /\ calls'[c].pc = "insert" /\ calls'[c].on[2] = a
      BY <2>2 DEF Turns, TheAd
    <3> QED BY <1>1, <1>2, <1>9, <3>1, <3>2 DEF MarketCall, TheAd
  <2> QED BY <2>1, <2>2
<1>15. \A b \in AdIds : AdRow(b)'
  BY <1>11, <1>12
<1>16. MarketOK'
  BY <1>5, <1>9, <1>10, <1>13, <1>14, <1>15, MarketMoves
<1>17. Covered
  BY <1>3, <1>5, MarketCovered
<1> QED BY <1>5, <1>7, <1>8, <1>16, <1>17 DEF MarketStepped

LEMMA AdFunded ==
  ASSUME CallsOK, LedgerOK, MarketOK, NEW c \in Workers, DebitAd(c) \/ UndoAd(c)
  PROVE  MarketStepped
<1>1. PICK a, ad, w, kept, less, on :
        /\ a = TheAd(c) /\ ad = calls[c].mem /\ w = HeldIn(calls[c].mem)
        /\ kept = HeldFor(calls[c].mem, calls[c].mem.remaining) /\ on = calls[c].on
        /\ less = -HeldFor(calls[c].mem, calls[c].mem.remaining)
  OBVIOUS
<1>2. /\ calls[c].op = "ad" /\ UNCHANGED p2pVars /\ rowLock' = rowLock
      /\ \/ /\ calls[c].pc = "debit" /\ Post(Moves(w, less, 0, AdRef(a))) /\ Goto(c, "insert")
         \/ Finish(c) /\ UNCHANGED <<wallets, ledger>>
         \/ Finish(c) /\ Post(Moves(w, kept, 0, AdRef(a)))
  BY <1>1 DEF DebitAd, UndoAd, At, DebitBalance, Refused, CreditBalance
<1>3. a \in AdIds /\ ad \in AdRows
  BY <1>1, <1>2, MarketCallKnown DEF MarketOps, MarketTyped
<1>4. w \in Wallets /\ kept \in Int /\ less \in Int
  <2>1. HeldIn(ad) \in Wallets /\ HeldFor(ad, ad.remaining) \in Nat
    BY <1>3, HeldTyped
  <2> QED BY <1>1, <2>1
<1>5. CASE /\ calls[c].pc = "debit" /\ Post(Moves(w, less, 0, AdRef(a))) /\ Goto(c, "insert")
  <2>1. Turns(c, "ad", "insert", on, ad) /\ UNCHANGED <<work, faults, hurt>>
    BY <1>1, <1>2, <1>5, GotoTurns DEF CallsOK
  <2> QED BY <1>1, <1>2, <1>3, <1>4, <1>5, <2>1, AdPosts
<1>6. CASE Finish(c) /\ UNCHANGED <<wallets, ledger>>
  BY <1>2, <1>6, MarketEnds DEF MarketOps, money
<1>7. CASE Finish(c) /\ Post(Moves(w, kept, 0, AdRef(a)))
  <2>1. Turns(c, "idle", "idle", Nothing, Nothing) /\ UNCHANGED <<work, faults, hurt>>
    BY <1>7, FinishTurns DEF CallsOK
  <2> QED BY <1>1, <1>2, <1>3, <1>4, <1>7, <2>1, AdPosts
<1> QED BY <1>2, <1>5, <1>6, <1>7

\* The advertisement an order was read from.
LEMMA AdRead ==
  ASSUME CallsOK, LedgerOK, MarketOK, NEW c \in Workers, ReadAd(c)
  PROVE  MarketStepped
<1>1. PICK a, on, m, ad : /\ a = TheAd(c) /\ on = calls[c].on /\ m = calls[c].mem
                          /\ ad = ads[TheAd(c)]
  OBVIOUS
<1>2. /\ calls[c].op = "order" /\ calls[c].pc = "look" /\ UNCHANGED money /\ UNCHANGED p2pVars
      /\ \/ Finish(c)
         \/ /\ ad.status = "active" /\ ad.maker # m.taker /\ m.amount <= ad.remaining
            /\ GotoWith(c, "debit", [m EXCEPT !.ad = ad])
  BY <1>1 DEF ReadAd, At
<1>3. /\ a \in AdIds /\ IsRef(on, "ad", AdIds) /\ on[2] = a /\ "order" \in DOMAIN work
      /\ m = [id |-> m.id, ad |-> m.ad, taker |-> m.taker, amount |-> m.amount]
      /\ m.id \in OrderIds /\ m.taker \in Users /\ m.amount \in Amounts
  BY <1>1, <1>2, MarketCallKnown DEF MarketOps, MarketTyped
<1>4. CASE Finish(c)
  BY <1>2, <1>4, MarketEnds DEF MarketOps
<1>5. CASE /\ ad.status = "active" /\ ad.maker # m.taker /\ m.amount <= ad.remaining
           /\ GotoWith(c, "debit", [m EXCEPT !.ad = ad])
  <2>1. ad # NoAd /\ ad \in AdRows
    <3>1. NoAd.status = "none"
      BY DEF NoAd
    <3> QED BY <1>1, <1>3, <1>5, <3>1 DEF MarketOK, P2PTypeOK, AdRows
  <2>2. PICK n : /\ n = [m EXCEPT !.ad = ad] /\ n.ad = ad
                 /\ n = [id |-> n.id, ad |-> n.ad, taker |-> n.taker, amount |-> n.amount]
                 /\ n.id \in OrderIds /\ n.taker \in Users /\ n.amount \in Amounts
                 /\ n.taker = m.taker /\ n.amount = m.amount
    <3>1. PICK n : n = [m EXCEPT !.ad = ad]
      OBVIOUS
    <3>2. PICK id, old, taker, amount :
            /\ id = m.id /\ old = m.ad /\ taker = m.taker /\ amount = m.amount
      OBVIOUS
    <3>3. m = [id |-> id, ad |-> old, taker |-> taker, amount |-> amount]
      BY <1>3, <3>2
    <3>4. n = [id |-> id, ad |-> ad, taker |-> taker, amount |-> amount]
      BY ONLY <3>1, <3>3
    <3>5. n.id = id /\ n.ad = ad /\ n.taker = taker /\ n.amount = amount
      BY ONLY <3>4
    <3> QED BY <1>3, <3>1, <3>2, <3>4, <3>5
  <2>3. Turns(c, "order", "debit", on, n) /\ UNCHANGED <<work, faults, hurt>>
    BY <1>1, <1>2, <1>5, <2>2, GotoWithTurns DEF CallsOK
  <2>4. Sold(n)
    BY <1>5, <2>1, <2>2 DEF Sold
  <2>5. MarketTyped("order", "debit", on, n)
    BY <1>3, <2>2, <2>4 DEF MarketTyped, MarketOps
  <2>6. OrderCall("debit", a, n)'
    BY <1>1, <1>2, <2>1, <2>2 DEF OrderCall, p2pVars, SameDeal
  <2>7. MarketCall(c)'
    BY <1>3, <2>3, <2>6 DEF Turns, MarketCall, TheAd
  <2> QED BY <1>2, <1>3, <2>3, <2>5, <2>7, MarketLooks DEF MarketOps
<1> QED BY <1>2, <1>4, <1>5

\* What is known of an order past its reading of the advertisement.
LEMMA OrderKnown ==
  ASSUME CallsOK, MarketOK, NEW c \in Workers, calls[c].op = "order", calls[c].pc # "look",
         NEW m, m = calls[c].mem
  PROVE  /\ m.ad \in AdRows /\ m.taker \in Users /\ m.amount \in Amounts /\ m.id \in OrderIds
         /\ m.amount <= m.ad.remaining
         /\ TheAd(c) \in AdIds /\ ads[TheAd(c)] # NoAd /\ SameDeal(m.ad, ads[TheAd(c)])
         /\ OrderCall(calls[c].pc, TheAd(c), m)
         /\ OrderRef(m.id) \in Refs /\ OrderRef(m.id)[1] = "order"
<1>1. MarketTyped("order", calls[c].pc, calls[c].on, m) /\ TheAd(c) \in AdIds
  BY MarketCallKnown DEF MarketOps
<1>2. OrderCall(calls[c].pc, TheAd(c), m)
  BY DEF MarketOK, MarketCall
<1>3. m.id \in OrderIds
  BY <1>1 DEF MarketTyped
<1>4. OrderRef(m.id) \in Refs /\ OrderRef(m.id)[1] = "order"
  BY <1>3 DEF OrderRef, Refs
<1> QED BY <1>1, <1>2, <1>4 DEF MarketTyped, Sold, OrderCall

\* The move of ref by delta in wallet w, made by call c's step.
LEMMA SwapMoved ==
  ASSUME CallsOK, LedgerOK, MarketOK, NEW c \in Workers, calls[c].op = "order",
         calls[c].pc # "look", NEW m, m = calls[c].mem, NEW pc,
         pc \in {"taker", "maker", "update"},
         Goto(c, pc), UNCHANGED p2pVars, rowLock' = rowLock,
         NEW w \in Wallets, NEW delta \in Int, NEW ref, ref = OrderRef(m.id),
         Post(Moves(w, delta, 0, ref)),
         pc = "taker" => w = TakerGives(m) /\ delta = -Given(m),
         pc = "maker" => w = TakerGets(m) /\ delta = Gotten(m) /\ calls[c].pc = "taker",
         pc = "update" => w = MakerGets(m) /\ delta = Given(m) /\ calls[c].pc = "maker"
  PROVE  MarketStepped
<1>1. PICK a, on : a = TheAd(c) /\ on = calls[c].on
  OBVIOUS
<1>2. /\ m.ad \in AdRows /\ m.taker \in Users /\ m.amount \in Amounts
      /\ a \in AdIds /\ ads[a] # NoAd /\ SameDeal(m.ad, ads[a])
      /\ OrderCall(calls[c].pc, a, m) /\ ref \in Refs /\ ref[1] = "order"
  BY <1>1, OrderKnown
<1>3. Turns(c, "order", pc, on, m) /\ UNCHANGED <<work, faults, hurt>>
  BY <1>1, GotoTurns DEF CallsOK
<1>4. MarketTyped("order", pc, on, m)
  <2>1. MarketTyped("order", calls[c].pc, on, m)
    BY <1>1, MarketCallKnown DEF MarketOps
  <2> QED BY <2>1 DEF MarketTyped, MarketOps
<1>5. rowLock' \in [Wallets -> Workers \cup {NoCall}] /\ 0 \in Int
  BY DEF LedgerOK
<1>6. Records({ref[1]}) /\ RecordsOne(w, ref, delta)
  BY <1>2, <1>5, PostOne
<1>7. WasMoved(w, ref, delta)'
  BY <1>6, OneRecorded
<1>8. (Gave(m) => Gave(m)') /\ (Got(m) => Got(m)')
  BY <1>2, <1>6, SwapKept
<1>9. OrderRef(m.id)' = ref
  BY DEF OrderRef
<1>10. /\ TakerGives(m)' = TakerGives(m) /\ TakerGets(m)' = TakerGets(m)
       /\ MakerGets(m)' = MakerGets(m) /\ Given(m)' = Given(m) /\ Gotten(m)' = Gotten(m)
       /\ (-Given(m))' = -Given(m)
  BY DEF TakerGives, TakerGets, MakerGets, Given, Gotten, Total, CurrencyOf
<1>11. /\ pc = "taker" => Gave(m)'
       /\ pc = "maker" => Gave(m)' /\ Got(m)'
       /\ pc = "update" => Gave(m)' /\ Got(m)' /\ MakerGot(m)'
  <2>1. CASE pc = "taker"
    <3>1. Gave(m)'
      BY <1>7, <1>9, <1>10, <2>1 DEF Gave
    <3> QED BY <2>1, <3>1
  <2>2. CASE pc = "maker"
    <3>1. Gave(m)
      BY <1>2, <2>2 DEF OrderCall
    <3>2. Got(m)'
      BY <1>7, <1>9, <1>10, <2>2 DEF Got
    <3> QED BY <1>8, <2>2, <3>1, <3>2
  <2>3. CASE pc = "update"
    <3>1. Gave(m) /\ Got(m)
      BY <1>2, <2>3 DEF OrderCall
    <3>2. MakerGot(m)'
      BY <1>7, <1>9, <1>10, <2>3 DEF MakerGot
    <3> QED BY <1>8, <2>3, <3>1, <3>2
  <2> QED BY <2>1, <2>2, <2>3
<1>12. OrderCall(pc, a, m)'
  BY <1>2, <1>11 DEF OrderCall, p2pVars
<1>13. MarketCall(c)'
  BY <1>1, <1>3, <1>12 DEF Turns, MarketCall, TheAd
<1> QED BY <1>2, <1>3, <1>4, <1>6, <1>13, MarketPosts

LEMMA Swapped ==
  ASSUME CallsOK, LedgerOK, MarketOK, NEW c \in Workers,
         DebitTaker(c) \/ CreditTaker(c) \/ CreditMaker(c)
  PROVE  MarketStepped
<1>1. PICK m, ref : m = calls[c].mem /\ ref = OrderRef(calls[c].mem.id)
  OBVIOUS
<1>2. /\ calls[c].op = "order" /\ calls[c].pc # "look" /\ UNCHANGED p2pVars
      /\ rowLock' = rowLock
  BY DEF DebitTaker, CreditTaker, CreditMaker, At
<1>3. m.ad \in AdRows /\ m.taker \in Users /\ m.amount \in Amounts
  BY <1>1, <1>2, OrderKnown
<1>4. PICK v, w, u, less, more, back :
        /\ v = TakerGives(m) /\ w = TakerGets(m) /\ u = MakerGets(m)
        /\ less = -Given(m) /\ more = Gotten(m) /\ back = Given(m)
  OBVIOUS
<1>5. /\ v \in Wallets /\ w \in Wallets /\ u \in Wallets
      /\ less \in Int /\ more \in Int /\ back \in Int
  <2>1. /\ TakerGives(m) \in Wallets /\ TakerGets(m) \in Wallets /\ MakerGets(m) \in Wallets
        /\ Given(m) \in Nat /\ Gotten(m) \in Nat
    BY <1>3, SwapTyped
  <2> QED BY <1>4, <2>1
<1>6. CASE Finish(c) /\ UNCHANGED <<wallets, ledger>>
  BY <1>2, <1>6, MarketEnds DEF MarketOps, money
<1>7. CASE Post(Moves(v, less, 0, ref)) /\ Goto(c, "taker")
  BY <1>1, <1>2, <1>4, <1>5, <1>7, SwapMoved
<1>8. CASE Post(Moves(w, more, 0, ref)) /\ Goto(c, "maker") /\ calls[c].pc = "taker"
  BY <1>1, <1>2, <1>4, <1>5, <1>8, SwapMoved
<1>9. CASE Post(Moves(u, back, 0, ref)) /\ Goto(c, "update") /\ calls[c].pc = "maker"
  BY <1>1, <1>2, <1>4, <1>5, <1>9, SwapMoved
<1>10. \/ Finish(c) /\ UNCHANGED <<wallets, ledger>>
       \/ Post(Moves(v, less, 0, ref)) /\ Goto(c, "taker")
       \/ Post(Moves(w, more, 0, ref)) /\ Goto(c, "maker") /\ calls[c].pc = "taker"
       \/ Post(Moves(u, back, 0, ref)) /\ Goto(c, "update") /\ calls[c].pc = "maker"
  BY <1>1, <1>4 DEF DebitTaker, CreditTaker, CreditMaker, At, DebitBalance, Refused,
                    CreditBalance
<1> QED BY <1>6, <1>7, <1>8, <1>9, <1>10

\* A step that changes the advertisement of its call and its call.
LEMMA AdChanges ==
  ASSUME CallsOK, LedgerOK, MarketOK, NEW c \in Workers, calls[c].op \in {"status", "order"},
         NEW op, NEW pc, NEW on, NEW mem,
         Turns(c, op, pc, on, mem), UNCHANGED <<work, faults, hurt>>, UNCHANGED money,
         op \in {calls[c].op, "idle"}, op = "idle" => on = Nothing,
         MarketTyped(op, pc, on, mem), MarketCall(c)',
         NEW a \in AdIds, NEW row \in AdRows, ads' = [ads EXCEPT ![a] = row],
         p2pOrders' = p2pOrders, ads[a] # NoAd, SameDeal(ads[a], row)
  PROVE  MarketStepped
<1>1. op \in DOMAIN work \cup {"idle"}
  BY DEF CallsOK
<1>2. /\ CallsOK' /\ hurt' = hurt
      /\ Spares(DepositOps) /\ Spares(WithdrawalOps) /\ Spares(CryptoOps)
  BY <1>1, MarketTurn DEF MarketOps
<1>3. LedgerOK' /\ Covered /\ Records({}) /\ Records(MarketKinds)
  BY MoneyCovered, RecordsMore
<1>4. /\ Deals /\ P2PTypeOK' /\ ads'[a] = row /\ row # NoAd
      /\ \A b \in AdIds : b # a => ads'[b] = ads[b]
  BY AdRowChanges
<1>5. \A b \in AdIds : AdKept(b) /\ AdRow(b)'
  BY <1>3, <1>4, AdsKept
<1>6. \A b \in Workers : b # c /\ calls[b].op = "ad" => AdKept(TheAd(b))
  BY <1>5, MarketCallKnown DEF MarketOps
<1>7. MarketOK'
  BY <1>3, <1>4, <1>5, <1>6, MarketMoves
<1> QED BY <1>2, <1>3, <1>7 DEF MarketStepped

LEMMA AdStatusWritten ==
  ASSUME CallsOK, LedgerOK, MarketOK, NEW c \in Workers, WriteAdStatus(c)
  PROVE  MarketStepped
<1>1. PICK a, ad, status : a = TheAd(c) /\ ad = ads[TheAd(c)] /\ status = calls[c].mem
  OBVIOUS
<1>2. /\ calls[c].op = "status" /\ UNCHANGED money /\ p2pOrders' = p2pOrders /\ Finish(c)
      /\ ads' = IF status \in AdStatuses THEN [ads EXCEPT ![a].status = status] ELSE ads
  BY <1>1 DEF WriteAdStatus, At
<1>3. a \in AdIds /\ ads[a] # NoAd
  BY <1>1, <1>2, MarketCallKnown DEF MarketOps, MarketCall
<1>4. ad \in AdRows
  BY <1>1, <1>3 DEF MarketOK, P2PTypeOK, AdRows
<1>5. CASE status \notin AdStatuses
  BY <1>2, <1>5, MarketEnds DEF MarketOps, p2pVars
<1>6. CASE status \in AdStatuses
  <2>1. PICK row : row = [ad EXCEPT !.status = status]
    OBVIOUS
  <2>2. row \in AdRows /\ SameDeal(ad, row)
    BY ONLY <1>4, <1>6, <2>1 DEF AdRows, SameDeal
  <2>3. ads' = [ads EXCEPT ![a] = row]
    BY <1>1, <1>2, <1>6, <2>1
  <2>4. Turns(c, "idle", "idle", Nothing, Nothing) /\ UNCHANGED <<work, faults, hurt>>
    BY <1>2, FinishTurns DEF CallsOK
  <2>5. MarketTyped("idle", "idle", Nothing, Nothing)
    BY DEF MarketTyped, MarketOps
  <2>6. MarketCall(c)'
    BY <2>4 DEF Turns, MarketCall
  <2> QED BY <1>1, <1>2, <1>3, <2>2, <2>3, <2>4, <2>5, <2>6, AdChanges
<1> QED BY <1>5, <1>6

LEMMA AdFilled ==
  ASSUME CallsOK, LedgerOK, MarketOK, NEW c \in Workers, UpdateAd(c)
  PROVE  MarketStepped
<1>1. PICK a, on, m, ad, amount, row :
        /\ a = TheAd(c) /\ on = calls[c].on /\ m = calls[c].mem /\ ad = calls[c].mem.ad
        /\ amount = calls[c].mem.amount /\ row = Filled(calls[c].mem.ad, calls[c].mem.amount)
  OBVIOUS
<1>2. /\ calls[c].op = "order" /\ calls[c].pc = "update" /\ UNCHANGED money
      /\ p2pOrders' = p2pOrders /\ ads' = [ads EXCEPT ![a] = row] /\ Goto(c, "insert")
  BY <1>1 DEF UpdateAd, At
<1>3. /\ ad \in AdRows /\ m.ad \in AdRows /\ m.taker \in Users /\ m.amount \in Amounts
      /\ amount \in Amounts
      /\ amount <= ad.remaining /\ a \in AdIds /\ ads[a] # NoAd /\ SameDeal(ad, ads[a])
      /\ OrderCall("update", a, m)
  BY <1>1, <1>2, OrderKnown
<1>4. row \in AdRows /\ SameDeal(ad, row)
  <2>1. PICK left, status : /\ left = ad.remaining - amount
                            /\ status = IF ad.remaining = amount THEN "completed" ELSE ad.status
    OBVIOUS
  <2>2. amount \in Nat
    BY <1>3, AmountsAssumption
  <2>3. ad.remaining \in Nat /\ ad.status \in AdStatuses
    BY <1>3 DEF AdRows
  <2>4. left \in Nat
    BY <1>3, <2>1, <2>2, <2>3
  <2>5. status \in AdStatuses
    BY <2>1, <2>3 DEF AdStatuses
  <2>6. PICK half : half = [ad EXCEPT !.remaining = left]
    OBVIOUS
  <2>7. half \in AdRows /\ SameDeal(ad, half)
    BY ONLY <1>3, <2>4, <2>6 DEF AdRows, SameDeal
  <2>8. PICK full : full = [half EXCEPT !.status = status]
    OBVIOUS
  <2>9. full \in AdRows /\ SameDeal(half, full)
    BY ONLY <2>5, <2>7, <2>8 DEF AdRows, SameDeal
  <2>10. row = full
    <3>1. half.status = ad.status
      BY ONLY <1>3, <2>4, <2>6 DEF AdRows
    <3>2. row = [[ad EXCEPT !.remaining = ad.remaining - amount] EXCEPT !.status =
                    IF ad.remaining = amount THEN "completed" ELSE ad.status]
      BY ONLY <1>1, <1>3 DEF Filled, AdRows
    <3> QED BY <2>1, <2>6, <2>8, <3>2
  <2> QED BY <2>7, <2>9, <2>10 DEF SameDeal
<1>5. SameDeal(ads[a], row)
  BY <1>3, <1>4 DEF SameDeal
<1>6. Turns(c, "order", "insert", on, m) /\ UNCHANGED <<work, faults, hurt>>
  BY <1>1, <1>2, GotoTurns DEF CallsOK
<1>7. MarketTyped("order", "insert", on, m)
  <2>1. MarketTyped("order", "update", on, m)
    BY <1>1, <1>2, MarketCallKnown DEF MarketOps
  <2> QED BY <2>1 DEF MarketTyped, MarketOps
<1>8. MarketCall(c)'
  <2>1. Records({})
    BY <1>2, MoneyCovered
  <2>2. Gave(m)' /\ Got(m)' /\ MakerGot(m)'
    <3>1. Gave(m) /\ Got(m) /\ MakerGot(m)
      BY <1>3 DEF OrderCall
    <3> QED BY <1>3, <2>1, <3>1, SwapKept
  <2>3. ads'[a] # NoAd /\ SameDeal(ad, ads'[a])
    <3>1. ads'[a] = row /\ row # NoAd
      BY <1>2, <1>3, <1>4, <1>5, AdRowChanges
    <3> QED BY <1>4, <3>1
  <2>4. OrderCall("insert", a, m)'
    BY <1>1, <2>2, <2>3 DEF OrderCall
  <2> QED BY <1>1, <1>6, <2>4 DEF Turns, MarketCall, TheAd
<1> QED BY <1>2, <1>3, <1>4, <1>5, <1>6, <1>7, <1>8, AdChanges

LEMMA OrderInserted ==
  ASSUME CallsOK, LedgerOK, MarketOK, NEW c \in Workers, InsertOrder(c)
  PROVE  MarketStepped
<1>1. PICK a, m, o, total, order, ad :
        /\ a = TheAd(c) /\ m = calls[c].mem /\ o = calls[c].mem.id
        /\ total = Total(calls[c].mem)
        /\ order = [ad |-> TheAd(c), taker |-> calls[c].mem.taker,
                    amount |-> calls[c].mem.amount, total |-> Total(calls[c].mem)]
        /\ ad = ads[TheAd(c)]
  OBVIOUS
<1>2. /\ calls[c].op = "order" /\ calls[c].pc = "insert" /\ UNCHANGED money
      /\ ads' = ads /\ p2pOrders' = [p2pOrders EXCEPT ![o] = order] /\ Finish(c)
  BY <1>1 DEF InsertOrder, At
<1>3. /\ m.ad \in AdRows /\ m.taker \in Users /\ m.amount \in Amounts /\ o \in OrderIds
      /\ a \in AdIds /\ ad # NoAd /\ SameDeal(m.ad, ad) /\ OrderCall("insert", a, m)
  BY <1>1, <1>2, OrderKnown
<1>4. total \in Nat /\ Given(m) \in Nat
  BY <1>1, <1>3, SwapTyped
<1>5. /\ order.ad = a /\ order.taker = m.taker /\ order.amount = m.amount
      /\ order.total = total
      /\ order \in [ad : AdIds, taker : Users, amount : Amounts, total : Nat]
  BY <1>1, <1>3, <1>4
<1>6. /\ p2pOrders'[o] = order
      /\ \A p \in OrderIds : p # o => p2pOrders'[p] = p2pOrders[p]
      /\ P2PTypeOK'
  BY <1>2, <1>3, <1>5 DEF MarketOK, P2PTypeOK
<1>7. Deals
  BY <1>2 DEF Deals, SameDeal
<1>8. LedgerOK' /\ Covered /\ Records({}) /\ Records(MarketKinds)
  BY <1>2, MoneyCovered, RecordsMore
<1>9. Turns(c, "idle", "idle", Nothing, Nothing) /\ UNCHANGED <<work, faults, hurt>>
  BY <1>2, FinishTurns DEF CallsOK
<1>10. /\ CallsOK' /\ hurt' = hurt
       /\ Spares(DepositOps) /\ Spares(WithdrawalOps) /\ Spares(CryptoOps)
  <2>1. MarketTyped("idle", "idle", Nothing, Nothing)
    BY DEF MarketTyped, MarketOps
  <2> QED BY <1>2, <1>9, <2>1, MarketTurn DEF MarketOps
<1>11. \A b \in AdIds : AdKept(b) /\ AdRow(b)'
  BY <1>2, <1>8, AdsKept
<1>12. \A b \in Workers : b # c /\ calls[b].op = "ad" => AdKept(TheAd(b))
  BY <1>11, MarketCallKnown DEF MarketOps
<1>13. OrderPaid(o, order, ad)
  <2>1. Gave(m) /\ Got(m) /\ MakerGot(m)
    BY <1>3 DEF OrderCall
  <2>2. ad.type = m.ad.type /\ ad.maker = m.ad.maker /\ ad.type \in {"buy", "sell"}
    BY <1>3 DEF SameDeal, AdRows
  <2>3. PICK ref, taker, maker, amount : /\ ref = OrderRef(m.id) /\ taker = m.taker
                                         /\ maker = m.ad.maker /\ amount = m.amount
    OBVIOUS
  <2>4. CASE ad.type = "buy"
    <3>1. /\ TakerGives(m) = <<taker, Base>> /\ TakerGets(m) = <<taker, Quote>>
          /\ MakerGets(m) = <<maker, Base>> /\ Given(m) = amount /\ Gotten(m) = total
      BY <1>1, <2>2, <2>3, <2>4 DEF TakerGives, TakerGets, MakerGets, Given, Gotten, CurrencyOf
    <3>2. /\ WasMoved(<<taker, Base>>, ref, -amount) /\ WasMoved(<<taker, Quote>>, ref, total)
          /\ WasMoved(<<maker, Base>>, ref, amount)
      BY <2>1, <2>3, <3>1 DEF Gave, Got, MakerGot
    <3> QED BY <1>1, <1>5, <2>2, <2>3, <2>4, <3>2 DEF OrderPaid
  <2>5. CASE ad.type = "sell"
    <3>1. /\ TakerGives(m) = <<taker, Quote>> /\ TakerGets(m) = <<taker, Base>>
          /\ MakerGets(m) = <<maker, Quote>> /\ Given(m) = total /\ Gotten(m) = amount
      BY <1>1, <2>2, <2>3, <2>5 DEF TakerGives, TakerGets, MakerGets, Given, Gotten, CurrencyOf
    <3>2. /\ WasMoved(<<taker, Quote>>, ref, -total) /\ WasMoved(<<taker, Base>>, ref, amount)
          /\ WasMoved(<<maker, Quote>>, ref, total)
      BY <2>1, <2>3, <3>1 DEF Gave, Got, MakerGot
    <3> QED BY <1>1, <1>5, <2>2, <2>3, <2>5, <3>2 DEF OrderPaid
  <2> QED BY <2>2, <2>4, <2>5
<1>14. OrderRow(o)'
  <2>1. ledger' = ledger
    BY SMTT(30), <1>2 DEF money
  <2>2. OrderPaid(o, order, ad)'
    BY <1>13, <2>1 DEF OrderPaid, WasMoved, EntriesOf, OrderRef
  <2> QED BY <1>1, <1>2, <1>3, <1>5, <1>6, <2>2 DEF OrderRow
<1>15. MarketCall(c)'
  BY <1>9 DEF Turns, MarketCall
<1>16. (\A b \in AdIds : AdRow(b)') /\ \A p \in OrderIds : p2pOrders'[p] = p2pOrders[p] \/ OrderRow(p)'
  BY <1>6, <1>11, <1>14
<1>17. MarketOK'
  BY <1>6, <1>7, <1>8, <1>9, <1>12, <1>15, <1>16, MarketMoves
<1> QED BY <1>8, <1>10, <1>17 DEF MarketStepped

LEMMA MarketSteps ==
  ASSUME CallsOK, LedgerOK, MarketOK, P2PNext
  PROVE  MarketStepped
<1>1. ASSUME NEW c \in Workers, P2PStep(c) PROVE MarketStepped
  BY <1>1, AdFunded, AdInserted, AdNotSaved, AdLooked, AdStatusWritten, AdRefunded, AdRead,
     Swapped, AdFilled, OrderInserted DEF P2PStep
<1>2. ASSUME NEW c \in Workers, NEW a \in AdIds,
             \/ \E u \in Users, type \in {"buy", "sell"}, price \in Prices, amount \in Amounts :
                   CreateAd(c, a, u, type, price, amount)
             \/ \E status \in AdStatuses \cup {"cancelled"} : SetAdStatus(c, a, status)
             \/ \E o \in OrderIds, u \in Users, amount \in Amounts :
                   CreateOrder(c, o, a, u, amount)
      PROVE  MarketStepped
  BY <1>2, AdBegins, StatusBegins, OrderBegins
<1> QED BY <1>1, <1>2 DEF P2PNext

-----------------------------------------------------------------------------
\* The order service and the market maker.

\* What every step of theirs does.
TradingStepped ==
    /\ LedgerOK' /\ Records({"trade"}) /\ TradingTypeOK' /\ RowsHeld /\ UNCHANGED control
    /\ LocksOK => LocksOK'

LEMMA PendingAmount ==
  ASSUME WithdrawalsTypeOK, NEW w, NEW x \in PendingOn(w)
  PROVE  withdrawals[x].amount \in Nat
<1>1. x \in WithdrawalIds /\ withdrawals[x].status = "pending"
  BY DEF PendingOn
<1>2. NoWithdrawal.status = "none"
  BY DEF NoWithdrawal
<1>3. withdrawals[x].amount \in Amounts
  BY <1>1, <1>2 DEF WithdrawalsTypeOK
<1> QED BY <1>3, AmountsAssumption

\* As long as no more was given up than was held, what is held is locked.
LEMMA HeldIsLocked ==
  ASSUME LedgerOK, WithdrawalsTypeOK, TradingTypeOK, LocksOK, NEW w \in Wallets, Alone(w),
         w \notin excess
  PROVE  held[w] <= wallets[w].locked
<1>1. LockRight(w)
  BY DEF LocksOK
<1>2. held[w] \in Nat /\ wallets[w].locked \in Int
  BY DEF TradingTypeOK, LedgerOK, Wallet
<1>3. CASE PendingOn(w) = {}
  BY <1>1, <1>2, <1>3 DEF LockRight
<1>4. ASSUME NEW x \in PendingOn(w) PROVE held[w] <= wallets[w].locked
  <2>2. withdrawals[x].amount \in Nat
    BY <1>4, PendingAmount
  <2>3. wallets[w].locked = withdrawals[x].amount + held[w]
    BY <1>1, <1>4 DEF LockRight
  <2> QED BY <1>2, <2>2, <2>3
<1> QED BY <1>3, <1>4

\* A lock that moves with what is held stays right, if the balance covers it.
LEMMA LockMoves ==
  ASSUME LedgerOK, LedgerOK', TradingTypeOK, TradingTypeOK', WithdrawalsTypeOK, LocksOK,
         UNCHANGED withdrawals, raced \subseteq raced', excess \subseteq excess',
         NEW kinds, Records(kinds), NEW w \in Wallets, Alone(w)', w \notin excess',
         wallets'[w].locked - wallets[w].locked = held'[w] - held[w],
         \/ wallets'[w].locked <= wallets'[w].balance
         \/ wallets'[w].balance - wallets'[w].locked >= wallets[w].balance - wallets[w].locked
  PROVE  LockRight(w)'
<1>1. Alone(w) /\ PendingOn(w)' = PendingOn(w) /\ w \notin excess
  BY DEF Alone, PendingOn
<1>2. LockRight(w)
  BY <1>1 DEF LocksOK
<1>3. /\ wallets[w].locked \in Int /\ wallets[w].balance \in Int
      /\ wallets'[w].locked \in Int /\ wallets'[w].balance \in Int
      /\ held[w] \in Nat /\ held'[w] \in Nat
  BY DEF LedgerOK, Wallet, TradingTypeOK
<1>4. MarketTook(w)' \/ wallets'[w].locked <= wallets'[w].balance
  <2>1. CASE MarketTook(w)
    BY <2>1, MarketTookStays
  <2>2. CASE wallets[w].locked <= wallets[w].balance
    BY <1>3, <2>2
  <2> QED BY <1>2, <2>1, <2>2 DEF LockRight
<1>5. PendingOn(w) = {} => wallets'[w].locked = held'[w]
  BY <1>2, <1>3 DEF LockRight
<1>6. ASSUME NEW x \in PendingOn(w)
      PROVE  wallets'[w].locked = withdrawals'[x].amount + held'[w]
  <2>2. withdrawals[x].amount \in Nat
    BY <1>6, PendingAmount
  <2>3. wallets[w].locked = withdrawals[x].amount + held[w]
    BY <1>2, <1>6 DEF LockRight
  <2> QED BY <1>3, <2>2, <2>3
<1> QED BY <1>1, <1>4, <1>5, <1>6 DEF LockRight

\* Wallets where nothing is locked, released or taken.
LEMMA LockRests ==
  ASSUME LedgerOK, LedgerOK', TradingTypeOK, TradingTypeOK', WithdrawalsTypeOK, LocksOK,
         UNCHANGED withdrawals, raced \subseteq raced', excess \subseteq excess',
         NEW kinds, Records(kinds), NEW w \in Wallets, Alone(w)', w \notin excess',
         wallets'[w].locked = wallets[w].locked, held'[w] = held[w],
         wallets'[w].balance >= wallets[w].balance
  PROVE  LockRight(w)'
<1>1. /\ wallets[w].locked \in Int /\ wallets[w].balance \in Int
      /\ wallets'[w].locked \in Int /\ wallets'[w].balance \in Int
      /\ held[w] \in Nat
  BY DEF LedgerOK, Wallet, TradingTypeOK
<1>2. /\ wallets'[w].locked - wallets[w].locked = held'[w] - held[w]
      /\ wallets'[w].balance - wallets'[w].locked >= wallets[w].balance - wallets[w].locked
  BY <1>1
<1> QED BY <1>2, LockMoves

LEMMA GivenUp ==
  ASSUME TradingTypeOK, NEW amounts, DOMAIN amounts \subseteq Wallets,
         \A w \in DOMAIN amounts : amounts[w] \in Nat, GivesUp(amounts)
  PROVE  /\ TradingTypeOK' /\ excess \subseteq excess'
         /\ \A w \in Wallets : w \notin DOMAIN amounts => held'[w] = held[w]
         /\ \A w \in DOMAIN amounts :
               w \notin excess' => amounts[w] <= held[w] /\ held'[w] = held[w] - amounts[w]
<1>1. \A w \in Wallets : held[w] \in Nat
  BY DEF TradingTypeOK
<1>2. \A n, a \in Nat : Less(n, a) \in Nat /\ (a <= n => Less(n, a) = n - a)
  BY DEF Less
<1>3. \A w \in DOMAIN amounts : w \notin excess' => amounts[w] <= held[w]
  BY <1>1 DEF GivesUp
<1>4. \A w \in Wallets : /\ w \in DOMAIN amounts => held'[w] = Less(held[w], amounts[w])
                         /\ w \notin DOMAIN amounts => held'[w] = held[w]
  BY DEF GivesUp
<1>5. ASSUME NEW w \in Wallets PROVE held'[w] \in Nat
  <2>1. held[w] \in Nat
    BY <1>1
  <2>2. CASE w \in DOMAIN amounts
    <3>1. PICK n, a : n = held[w] /\ a = amounts[w]
      OBVIOUS
    <3>2. a \in Nat
      BY <2>2, <3>1
    <3>3. held'[w] = Less(n, a)
      BY <1>4, <2>2, <3>1
    <3> QED BY <1>2, <2>1, <3>1, <3>2, <3>3
  <2>3. CASE w \notin DOMAIN amounts
    BY <1>4, <2>1, <2>3
  <2> QED BY <2>2, <2>3
<1>6. held' = [w \in Wallets |-> held'[w]]
  BY DEF GivesUp
<1>7. held' \in [Wallets -> Nat]
  BY <1>5, <1>6
<1>8. excess' \subseteq Wallets /\ excess \subseteq excess'
  BY DEF GivesUp, TradingTypeOK
<1>9. TradingTypeOK'
  BY <1>7, <1>8 DEF TradingTypeOK
<1>10. ASSUME NEW w \in DOMAIN amounts, w \notin excess'
       PROVE  held'[w] = held[w] - amounts[w]
  <2>1. PICK n, a : n = held[w] /\ a = amounts[w]
    OBVIOUS
  <2>2. n \in Nat /\ a \in Nat /\ w \in Wallets
    BY <1>1, <2>1
  <2>3. held'[w] = Less(n, a)
    BY <1>4, <2>1, <2>2
  <2>4. a <= n
    BY <1>3, <1>10, <2>1
  <2> QED BY <1>2, <2>1, <2>2, <2>3, <2>4
<1> QED BY <1>3, <1>4, <1>8, <1>9, <1>10

LEMMA LockTaken ==
  ASSUME LedgerOK, WithdrawalsTypeOK, TradingTypeOK, UNCHANGED withdrawals,
         raced \subseteq raced', NEW v \in Wallets, NEW amount \in Amounts,
         LockBalance(v, amount)
  PROVE  TradingStepped
<1>1. /\ Free(v) /\ Available(v) >= amount /\ Relock(v, amount) /\ rowLock' = rowLock
      /\ UNCHANGED control /\ held' = [held EXCEPT ![v] = held[v] + amount]
      /\ excess' = excess
  BY DEF LockBalance
<1>2. amount \in Nat /\ amount \in Int
  BY AmountsAssumption
<1>3. /\ LedgerOK' /\ Records({}) /\ wallets'[v].locked = wallets[v].locked + amount
      /\ \A w \in Wallets : /\ wallets'[w].balance = wallets[w].balance
                            /\ w # v => wallets'[w].locked = wallets[w].locked
  BY <1>1, <1>2, LockMoved
<1>4. RowsHeld /\ Records({"trade"})
  BY <1>1, <1>3, RelockHolds, RecordsMore
<1>5. /\ \A w \in Wallets : held[w] \in Nat
      /\ held'[v] = held[v] + amount
      /\ \A w \in Wallets : w # v => held'[w] = held[w]
  BY <1>1 DEF TradingTypeOK
<1>6. TradingTypeOK'
  <2>1. held[v] + amount \in Nat
    BY <1>2, <1>5
  <2> QED BY <1>1, <2>1 DEF TradingTypeOK
<1>7. \A w \in Wallets : wallets[w].balance \in Int /\ wallets[w].locked \in Int
  BY DEF LedgerOK, Wallet
<1>8. ASSUME LocksOK, NEW w \in Wallets, Alone(w)', w \notin excess' PROVE LockRight(w)'
  <2>1. CASE w = v
    <3>1. /\ wallets'[w].locked - wallets[w].locked = held'[w] - held[w]
          /\ wallets'[w].locked <= wallets'[w].balance
      BY <1>1, <1>2, <1>3, <1>5, <1>7, <2>1 DEF Available
    <3> QED BY <1>1, <1>3, <1>6, <1>8, <3>1, LockMoves
  <2>2. CASE w # v
    <3>1. wallets'[w].balance >= wallets[w].balance
      BY <1>3, <1>7
    <3> QED BY <1>1, <1>3, <1>5, <1>6, <1>8, <2>2, <3>1, LockRests
  <2> QED BY <2>1, <2>2
<1>9. LocksOK => LocksOK'
  BY <1>8 DEF LocksOK
<1> QED BY <1>1, <1>3, <1>4, <1>6, <1>9 DEF TradingStepped

LEMMA LockGivenBack ==
  ASSUME LedgerOK, WithdrawalsTypeOK, TradingTypeOK, UNCHANGED withdrawals,
         raced \subseteq raced', NEW v \in Wallets, NEW amount \in Amounts,
         UnlockBalance(v, amount)
  PROVE  TradingStepped
<1>0. PICK lock : lock = Less(wallets[v].locked, amount) - wallets[v].locked
  OBVIOUS
<1>1. PICK gives : /\ lock = Less(wallets[v].locked, amount) - wallets[v].locked
                   /\ gives = [w \in {v} |-> amount]
  BY <1>0
<1>2. /\ Free(v) /\ Relock(v, lock) /\ rowLock' = rowLock /\ UNCHANGED control
      /\ GivesUp(gives)
  BY <1>1 DEF UnlockBalance
<1>3. \A w \in Wallets : wallets[w].balance \in Int /\ wallets[w].locked \in Int
  BY DEF LedgerOK, Wallet
<1>4. amount \in Nat /\ lock \in Int
  BY <1>1, <1>3, AmountsAssumption DEF Less
<1>5. /\ LedgerOK' /\ Records({}) /\ wallets'[v].locked = wallets[v].locked + lock
      /\ \A w \in Wallets : /\ wallets'[w].balance = wallets[w].balance
                            /\ w # v => wallets'[w].locked = wallets[w].locked
  BY <1>2, <1>4, LockMoved
<1>6. RowsHeld /\ Records({"trade"})
  BY <1>2, <1>5, RelockHolds, RecordsMore
<1>7. /\ DOMAIN gives = {v} /\ gives[v] = amount
  BY <1>1
<1>8. /\ TradingTypeOK' /\ excess \subseteq excess'
      /\ \A w \in Wallets : w # v => held'[w] = held[w]
      /\ v \notin excess' => amount <= held[v] /\ held'[v] = held[v] - amount
  BY <1>2, <1>4, <1>7, GivenUp
<1>9. ASSUME LocksOK, NEW w \in Wallets, Alone(w)', w \notin excess' PROVE LockRight(w)'
  <2>1. CASE w = v
    <3>1. Alone(w) /\ w \notin excess
      BY <1>8, <1>9 DEF Alone
    <3>2. held[w] <= wallets[w].locked /\ held[w] \in Nat
      BY <1>9, <3>1, HeldIsLocked DEF TradingTypeOK
    <3>3. lock = -amount
      BY <1>1, <1>3, <1>4, <1>8, <1>9, <2>1, <3>2 DEF Less
    <3>4. /\ wallets'[w].locked - wallets[w].locked = held'[w] - held[w]
          /\ wallets'[w].balance - wallets'[w].locked >= wallets[w].balance - wallets[w].locked
      BY <1>3, <1>4, <1>5, <1>8, <1>9, <2>1, <3>2, <3>3
    <3> QED BY <1>5, <1>8, <1>9, <3>4, LockMoves
  <2>2. CASE w # v
    <3>1. wallets'[w].balance >= wallets[w].balance
      BY <1>3, <1>5
    <3> QED BY <1>5, <1>8, <1>9, <2>2, <3>1, LockRests
  <2> QED BY <2>1, <2>2
<1>10. LocksOK => LocksOK'
  BY <1>9 DEF LocksOK
<1> QED BY <1>2, <1>5, <1>6, <1>8, <1>10 DEF TradingStepped

\* A wallet that spends what it has locked.
LEMMA SpentOfLock ==
  ASSUME LedgerOK, LedgerOK', TradingTypeOK, TradingTypeOK', WithdrawalsTypeOK, LocksOK,
         UNCHANGED withdrawals, raced \subseteq raced', excess \subseteq excess',
         NEW kinds, Records(kinds), NEW w \in Wallets, Alone(w)', w \notin excess',
         NEW amount \in Nat, amount <= held[w], held'[w] = held[w] - amount,
         NEW ref, Changed(w, -amount, Spends(w, amount, TRUE), ref)
  PROVE  LockRight(w)'
<1>1. Alone(w) /\ w \notin excess
  BY DEF Alone
<1>2. /\ held[w] <= wallets[w].locked /\ held[w] \in Nat
      /\ wallets[w].balance \in Int /\ wallets[w].locked \in Int
  BY <1>1, HeldIsLocked DEF TradingTypeOK, LedgerOK, Wallet
<1>3. Spends(w, amount, TRUE) = -amount
  BY <1>2 DEF Spends, Less
<1>4. /\ wallets'[w].balance = wallets[w].balance - amount
      /\ wallets'[w].locked = wallets[w].locked - amount
  BY <1>2, <1>3 DEF Changed
<1>5. /\ wallets'[w].locked - wallets[w].locked = held'[w] - held[w]
      /\ wallets'[w].balance - wallets'[w].locked >= wallets[w].balance - wallets[w].locked
  BY <1>2, <1>4
<1> QED BY <1>5, LockMoves

LEMMA TradeSettled ==
  ASSUME LedgerOK, WithdrawalsTypeOK, TradingTypeOK, UNCHANGED withdrawals,
         raced \subseteq raced', NEW maker \in Users, NEW taker \in Users,
         NEW give \in Currencies, NEW take \in Currencies, NEW given \in Amounts,
         NEW taken \in Amounts, NEW unlock \in BOOLEAN,
         SettleTrade(maker, taker, give, take, given, taken, unlock)
  PROVE  TradingStepped
<1>1. PICK from, to, moves, gives :
        /\ from = <<maker, give>> /\ to = <<taker, take>>
        /\ moves = [w \in {maker, taker} \X {give, take} |->
              IF w = <<maker, give>>
              THEN [delta |-> -given, lock |-> Spends(w, given, TRUE), ref |-> TradeRef]
              ELSE IF w = <<taker, take>>
              THEN [delta |-> -taken, lock |-> Spends(w, taken, unlock), ref |-> TradeRef]
              ELSE [delta |-> IF CurrencyOf(w) = give THEN given ELSE taken,
                    lock |-> 0, ref |-> TradeRef]]
        /\ gives = [w \in {v \in {<<maker, give>>, <<taker, take>>} : v[1] = maker \/ unlock} |->
                       IF w = <<maker, give>> THEN given ELSE taken]
  OBVIOUS
<1>2. /\ maker # taker /\ \A w \in DOMAIN moves : Free(w)
      /\ unlock \/ Available(to) >= taken
      /\ Post(moves) /\ rowLock' = rowLock /\ UNCHANGED control
  BY <1>1 DEF SettleTrade
<1>3. GivesUp(gives)
  <2>1. PICK spends : spends = [w \in {<<maker, give>>, <<taker, take>>} |->
                                   IF w = <<maker, give>> THEN given ELSE taken]
    OBVIOUS
  <2>2. GivesUp([w \in {v \in DOMAIN spends : v[1] = maker \/ unlock} |-> spends[w]])
    BY <2>1 DEF SettleTrade
  <2>3. gives = [w \in {v \in DOMAIN spends : v[1] = maker \/ unlock} |-> spends[w]]
    BY <1>1, <2>1
  <2> QED BY <2>2, <2>3
<1>4. /\ from \in Wallets /\ to \in Wallets /\ from # to /\ to[1] # maker /\ from[1] = maker
      /\ DOMAIN moves \subseteq Wallets /\ from \in DOMAIN moves /\ to \in DOMAIN moves
  BY <1>1, <1>2 DEF Wallets
<1>5. given \in Nat /\ taken \in Nat
  BY AmountsAssumption
<1>6. \A w \in Wallets : wallets[w].balance \in Int /\ wallets[w].locked \in Int
  BY DEF LedgerOK, Wallet
<1>7. \A w \in Wallets : \A amount \in Nat : \A u \in BOOLEAN : Spends(w, amount, u) \in Int
  BY <1>6 DEF Spends, Less
<1>8. /\ moves[from] = Move(-given, Spends(from, given, TRUE), TradeRef)
      /\ moves[to] = Move(-taken, Spends(to, taken, unlock), TradeRef)
      /\ \A w \in DOMAIN moves : w # from /\ w # to =>
            moves[w] = Move(IF CurrencyOf(w) = give THEN given ELSE taken, 0, TradeRef)
  BY <1>1, <1>4 DEF Move
<1>9. \A delta, lock : Move(delta, lock, TradeRef).delta = delta
                       /\ Move(delta, lock, TradeRef).lock = lock
  BY DEF Move
<1>10. /\ moves[from].delta = -given /\ moves[from].lock = Spends(from, given, TRUE)
       /\ moves[to].delta = -taken /\ moves[to].lock = Spends(to, taken, unlock)
       /\ \A w \in DOMAIN moves : w # from /\ w # to =>
             moves[w].delta \in Nat /\ moves[w].lock = 0
  <2>1. /\ moves[from].delta = -given /\ moves[from].lock = Spends(from, given, TRUE)
        /\ moves[to].delta = -taken /\ moves[to].lock = Spends(to, taken, unlock)
    BY <1>8 DEF Move
  <2>2. ASSUME NEW w \in DOMAIN moves, w # from, w # to
        PROVE  moves[w].delta \in Nat /\ moves[w].lock = 0
    <3>1. PICK delta : /\ delta = IF CurrencyOf(w) = give THEN given ELSE taken
                       /\ moves[w] = Move(delta, 0, TradeRef)
      BY <1>8, <2>2
    <3> QED BY <1>5, <3>1 DEF Move
  <2> QED BY <2>1, <2>2
<1>11. \A w \in DOMAIN moves : /\ moves[w].delta \in Int /\ moves[w].lock \in Int
                               /\ moves[w] = Move(moves[w].delta, moves[w].lock, TradeRef)
  <2> SUFFICES ASSUME NEW w \in DOMAIN moves
               PROVE  /\ moves[w].delta \in Int /\ moves[w].lock \in Int
                      /\ moves[w] = Move(moves[w].delta, moves[w].lock, TradeRef)
    OBVIOUS
  <2>1. CASE w = from
    <3>1. PICK lock : lock = Spends(from, given, TRUE)
      OBVIOUS
    <3>2. /\ moves[w].delta = -given /\ moves[w].lock = lock
          /\ moves[w] = Move(-given, lock, TradeRef)
      BY <1>8, <1>10, <2>1, <3>1
    <3>3. lock \in Int
      BY <1>4, <1>5, <1>7, <3>1
    <3> QED BY <1>5, <3>2, <3>3
  <2>2. CASE w = to
    <3>1. PICK lock : lock = Spends(to, taken, unlock)
      OBVIOUS
    <3>2. /\ moves[w].delta = -taken /\ moves[w].lock = lock
          /\ moves[w] = Move(-taken, lock, TradeRef)
      BY <1>8, <1>10, <2>2, <3>1
    <3>3. lock \in Int
      BY <1>4, <1>5, <1>7, <3>1
    <3> QED BY <1>5, <3>2, <3>3
  <2>3. CASE w # from /\ w # to
    <3>1. moves[w] = Move(IF CurrencyOf(w) = give THEN given ELSE taken, 0, TradeRef)
      BY <1>8, <2>3
    <3> QED BY <1>5, <1>9, <3>1
  <2> QED BY <2>1, <2>2, <2>3
<1>12. TradeRef \in Refs /\ TradeRef[1] = "trade"
  BY DEF TradeRef, Refs
<1>13. rowLock' \in [Wallets -> Workers \cup {NoCall}]
  BY <1>2 DEF LedgerOK
<1>14. /\ LedgerOK' /\ Records({"trade"})
       /\ \A w \in DOMAIN moves : Changed(w, moves[w].delta, moves[w].lock, TradeRef)
       /\ \A w \in Wallets : w \notin DOMAIN moves => Left(w)
  BY <1>2, <1>4, <1>11, <1>12, <1>13, PostAll
<1>15. RowsHeld
  BY <1>2, PostHolds
<1>16. /\ DOMAIN gives \subseteq {from, to} /\ from \in DOMAIN gives
       /\ to \in DOMAIN gives <=> unlock
       /\ gives[from] = given
       /\ unlock => gives[to] = taken
  BY <1>1, <1>4
<1>17. \A w \in DOMAIN gives : gives[w] \in Nat
  BY <1>1, <1>5
<1>18. DOMAIN gives \subseteq Wallets
  BY <1>4, <1>16
<1>19. /\ TradingTypeOK' /\ excess \subseteq excess'
       /\ \A w \in Wallets : w \notin DOMAIN gives => held'[w] = held[w]
       /\ \A w \in DOMAIN gives :
             w \notin excess' => gives[w] <= held[w] /\ held'[w] = held[w] - gives[w]
  BY <1>3, <1>17, <1>18, GivenUp
<1>20. ASSUME LocksOK, NEW w \in Wallets, Alone(w)', w \notin excess' PROVE LockRight(w)'
  <2>1. CASE w = from
    <3>1. given <= held[from] /\ held'[from] = held[from] - given
      BY <1>1, <1>4, <1>16, <1>19, <1>20, <2>1
    <3>2. Changed(from, -given, Spends(from, given, TRUE), TradeRef)
      BY <1>4, <1>10, <1>14
    <3> QED BY <1>5, <1>14, <1>19, <1>20, <2>1, <3>1, <3>2, SpentOfLock
  <2>2. CASE w = to /\ unlock
    <3>0. to \in DOMAIN gives /\ gives[to] = taken
      BY <1>16, <2>2
    <3>1. taken <= held[to] /\ held'[to] = held[to] - taken
      BY <1>19, <1>20, <2>2, <3>0
    <3>2. unlock = TRUE
      BY <2>2
    <3>3. Changed(to, -taken, Spends(to, taken, TRUE), TradeRef)
      BY <1>4, <1>10, <1>14, <3>2
    <3> QED BY <1>5, <1>14, <1>19, <1>20, <2>2, <3>1, <3>3, SpentOfLock
  <2>3. CASE w = to /\ ~unlock
    <3>1. held'[w] = held[w] /\ held[w] \in Nat
      BY <1>4, <1>16, <1>19, <2>3 DEF TradingTypeOK
    <3>2. Spends(to, taken, unlock) = 0
      BY <2>3 DEF Spends
    <3>3. wallets'[w].balance = wallets[w].balance + -taken
          /\ wallets'[w].locked = wallets[w].locked + 0
      BY <1>4, <1>10, <1>14, <2>3, <3>2 DEF Changed
    <3>4. /\ wallets'[w].locked - wallets[w].locked = held'[w] - held[w]
          /\ wallets'[w].locked <= wallets'[w].balance
      BY <1>2, <1>5, <1>6, <2>3, <3>1, <3>3 DEF Available
    <3> QED BY <1>14, <1>19, <1>20, <3>4, LockMoves
  <2>4. CASE w # from /\ w # to
    <3>1. held'[w] = held[w]
      BY <1>16, <1>19, <2>4
    <3>2. /\ wallets'[w].locked = wallets[w].locked
          /\ wallets'[w].balance >= wallets[w].balance
      <4>1. CASE w \in DOMAIN moves
        <5>1. Changed(w, moves[w].delta, moves[w].lock, TradeRef)
          BY <1>14, <4>1
        <5>2. moves[w].delta \in Nat /\ moves[w].lock = 0
          BY <1>10, <2>4, <4>1
        <5>3. /\ wallets'[w].locked = wallets[w].locked + 0
              /\ wallets'[w].balance = wallets[w].balance + moves[w].delta
          BY <5>1, <5>2 DEF Changed
        <5> QED BY <1>6, <5>2, <5>3
      <4>2. CASE w \notin DOMAIN moves
        BY <1>6, <1>14, <4>2 DEF Left
      <4> QED BY <4>1, <4>2
    <3> QED BY <1>14, <1>19, <1>20, <3>1, <3>2, LockRests
  <2> QED BY <2>1, <2>2, <2>3, <2>4
<1>21. LocksOK => LocksOK'
  BY <1>20 DEF LocksOK
<1> QED BY <1>2, <1>14, <1>15, <1>19, <1>21 DEF TradingStepped

\* A top-up goes on from the balance that the records end with.
LEMMA ToppedUp ==
  ASSUME LedgerOK, WithdrawalsTypeOK, TradingTypeOK, UNCHANGED withdrawals,
         raced \subseteq raced', NEW v \in Wallets, EnsureBalance(v)
  PROVE  TradingStepped
<1>1. PICK old, made, r :
         /\ old = wallets[v] /\ made = [old EXCEPT !.made = TRUE]
         /\ r = [made EXCEPT !.balance = Target]
  OBVIOUS
<1>2. \A w \in Wallets : /\ wallets[w] \in Wallet
                         /\ wallets[w].balance \in Int /\ wallets[w].locked \in Int
  BY DEF LedgerOK, Wallet
<1>3. /\ UserOf(v) = House /\ Free(v) /\ wallets[v].balance < Target
      /\ ledger' = ledger /\ rowLock' = rowLock /\ UNCHANGED control
      /\ held' = held /\ excess' = excess
  BY DEF EnsureBalance, tradingVars
<1>4. wallets' = [wallets EXCEPT ![v] = r]
  <2>1. [old EXCEPT !.made = TRUE, !.balance = Target] = r
    BY <1>1
  <2>2. wallets' = [wallets EXCEPT ![v] = [old EXCEPT !.made = TRUE, !.balance = Target]]
    BY <1>1 DEF EnsureBalance
  <2> QED BY <2>1, <2>2
<1>5. r \in Wallet /\ r.balance = Target /\ r.locked = wallets[v].locked
  <2>1. old \in Wallet
    BY <1>1, <1>2
  <2>2. made \in Wallet /\ made.locked = old.locked
    BY <1>1, <2>1 DEF Wallet
  <2>3. Target \in Int
    BY TargetAssumption
  <2>4. r \in Wallet /\ r.balance = Target /\ r.locked = made.locked
    BY <1>1, <2>2, <2>3 DEF Wallet
  <2> QED BY <1>1, <2>2, <2>4
<1>6. /\ wallets' \in [Wallets -> Wallet] /\ wallets'[v] = r
      /\ \A w \in Wallets : w # v => wallets'[w] = wallets[w]
  BY <1>4, <1>5 DEF LedgerOK
<1>7. \A w \in Wallets : Trail(w, ledger'[w], wallets'[w].balance)
  <2> SUFFICES ASSUME NEW w \in Wallets PROVE Trail(w, ledger[w], wallets'[w].balance)
    BY <1>3
  <2>1. Trail(w, ledger[w], wallets[w].balance)
    BY AuditTrailIs DEF LedgerOK
  <2>2. CASE w # v
    BY <1>6, <2>1, <2>2
  <2>3. CASE w = v
    <3>1. PICK last : last = After(w, ledger[w], Len(ledger[w]))
      OBVIOUS
    <3>2. GoesOn(w, last, wallets[w].balance)
      BY <2>1, <3>1 DEF Trail
    <3>3. last = wallets[w].balance
      BY <1>2, <1>3, <2>3, <3>2, TargetAssumption DEF GoesOn
    <3>4. GoesOn(w, last, Target)
      BY <1>3, <2>3, <3>3 DEF GoesOn
    <3> QED BY <1>5, <1>6, <2>1, <2>3, <3>1, <3>4 DEF Trail
  <2> QED BY <2>2, <2>3
<1>8. LedgerOK'
  BY <1>3, <1>6, <1>7, AuditTrailIs DEF LedgerOK
<1>9. Records({"trade"})
  BY <1>3 DEF Records
<1>10. TradingTypeOK'
  BY <1>3 DEF TradingTypeOK
<1>11. RowsHeld
  BY <1>3, <1>6 DEF RowsHeld
<1>12. ASSUME LocksOK, NEW w \in Wallets, Alone(w)', w \notin excess' PROVE LockRight(w)'
  <2>1. /\ wallets'[w].locked = wallets[w].locked /\ held'[w] = held[w]
        /\ wallets'[w].balance >= wallets[w].balance
    BY <1>2, <1>3, <1>5, <1>6, TargetAssumption
  <2> QED BY <1>3, <1>8, <1>9, <1>10, <1>12, <2>1, LockRests
<1>13. LocksOK => LocksOK'
  BY <1>12 DEF LocksOK
<1> QED BY <1>3, <1>8, <1>9, <1>10, <1>11, <1>13 DEF TradingStepped

LEMMA TradingSteps ==
  ASSUME LedgerOK, WithdrawalsTypeOK, TradingTypeOK, UNCHANGED withdrawals,
         raced \subseteq raced', TradingNext
  PROVE  TradingStepped
<1>1. ASSUME NEW w \in Wallets,
             \/ EnsureBalance(w)
             \/ \E amount \in Amounts : LockBalance(w, amount) \/ UnlockBalance(w, amount)
      PROVE  TradingStepped
  BY <1>1, ToppedUp, LockTaken, LockGivenBack
<1>2. ASSUME NEW maker \in Users, NEW taker \in Users, NEW give \in Currencies,
             NEW take \in Currencies, NEW given \in Amounts, NEW taken \in Amounts,
             NEW unlock \in BOOLEAN,
             SettleTrade(maker, taker, give, take, given, taken, unlock)
      PROVE  TradingStepped
  BY <1>2, TradeSettled
<1> QED BY <1>1, <1>2 DEF TradingNext

-----------------------------------------------------------------------------
\* All services together.

\* A call that is cut off.
LEMMA CallCutOff ==
  ASSUME CallsOK, LedgerOK, NEW c \in Workers, CutOff(c)
  PROVE  /\ CallsOK' /\ LedgerOK' /\ Covered /\ Records({}) /\ hurt \subseteq hurt'
         /\ \A ops : "idle" \notin ops => Spares(ops)
<1>1. /\ calls' = [calls EXCEPT ![c] = Idle] /\ work' = work /\ faults' = faults + 1
      /\ faults < MaxFaults /\ hurt' = hurt \cup {calls[c].on}
      /\ UNCHANGED <<wallets, ledger>>
      /\ rowLock' = [w \in Wallets |-> IF rowLock[w] = c THEN NoCall ELSE rowLock[w]]
  BY DEF CutOff
<1>2. Turns(c, "idle", "idle", Nothing, Nothing)
  BY <1>1, Replaces DEF Idle, CallsOK
<1>3. faults' \in 0..MaxFaults
  <2>1. faults \in 0..MaxFaults
    BY DEF CallsOK
  <2> QED BY <1>1, <2>1, LedgerBoundsAssumption
<1>4. CallTyped("idle", "idle", Nothing, Nothing)
  BY DEF CallTyped, DepositTyped, DepositOps, Openers, WithdrawalTyped, CryptoTyped,
         MarketTyped, MarketOps
<1>5. CallsOK'
  BY <1>1, <1>2, <1>3, <1>4, CallTurns
<1>6. rowLock' \in [Wallets -> Workers \cup {NoCall}]
  BY <1>1 DEF LedgerOK
<1>7. LedgerOK' /\ Records({})
  BY <1>1, <1>6, MoneyKept
<1>8. Covered
  BY <1>1 DEF Covered, LedgerOK, Wallet
<1>9. ASSUME NEW ops, "idle" \notin ops PROVE Spares(ops)
  BY <1>1, <1>2, <1>9 DEF Turns, Spares
<1> QED BY <1>1, <1>5, <1>7, <1>8, <1>9

\* The workload of a behaviour stays what it is.
LEMMA WorkStays ==
  ASSUME Next
  PROVE  work' = work
<1>1. CASE Deposited
  BY <1>1 DEF Deposited, DepositNext, DepositStep, OpenWallet, OpenPayment, SaveDeposit,
     VerifyPayment, ReadDeposit, CreditDeposit, InitiateDeposit, CreateDepositIntent,
     Pay, Expire, DepositWebhook, VerifyDeposit, Goto, Finish, Begin, control
<1>2. CASE Withdrawn
  BY <1>2 DEF Withdrawn, WithdrawalNext, WithdrawalStep, Reserve, Payout, PayoutRefused,
     TakenAsRefused, PayoutLost, Settle, ReleaseLock, Credit, Debit, InitiateWithdrawal, AdminCredit, AdminDebit,
     ApproveWithdrawal, RejectWithdrawal, Goto, Finish, Begin
<1>3. CASE OnChain
  <2>1. ASSUME NEW c \in Workers, CryptoStep(c) PROVE work' = work
    BY <2>1 DEF CryptoStep, DeriveAddress, SaveAddress, AlreadySeen, FindWallet, CreditTx,
       LockFirst, LockSecond, DebitSend, SendTransaction, SendFails, Goto, GotoWith, Finish
  <2>2. ASSUME NEW t, NEW w, NEW amount, SendOnChain(t, w, amount) PROVE work' = work
    BY <2>2 DEF SendOnChain, control
  <2>3. ASSUME NEW c, NEW w, NEW t, CryptoWebhook(c, t, w) \/ GetDepositAddress(c, w)
        PROVE  work' = work
    BY <2>3 DEF CryptoWebhook, GetDepositAddress, Begin
  <2>4. ASSUME NEW c, NEW w, NEW v, NEW amount,
               Transfer(c, w, v, amount) \/ InitiateCryptoWithdrawal(c, v, w, amount)
        PROVE  work' = work
    BY <2>4 DEF Transfer, InitiateCryptoWithdrawal, Begin
  <2> QED BY <1>3, <2>1, <2>2, <2>3, <2>4 DEF OnChain, CryptoNext
<1>4. CASE Traded
  BY <1>4 DEF Traded, P2PNext, P2PStep, DebitAd, InsertAd, InsertAdFails, UndoAd, LookAtAd,
     WriteAdStatus, RefundAd, ReadAd, DebitTaker, CreditTaker, CreditMaker, UpdateAd,
     InsertOrder, CreateAd, SetAdStatus, CreateOrder, Goto, GotoWith, Finish, Begin
<1>5. CASE Escrowed
  BY <1>5 DEF Escrowed, control
<1>6. CASE Interrupted
  BY <1>6 DEF Interrupted, CutOff
<1>7. CASE Exchanged
  <2>1. UNCHANGED control
    <3>1. ASSUME NEW w, EnsureBalance(w) \/ \E a \in Amounts : LockBalance(w, a) \/ UnlockBalance(w, a)
          PROVE  UNCHANGED control
      BY <3>1 DEF LockBalance, UnlockBalance, EnsureBalance
    <3>2. ASSUME NEW maker, NEW taker, NEW give, NEW take, NEW given, NEW taken, NEW unlock,
                 SettleTrade(maker, taker, give, take, given, taken, unlock)
          PROVE  UNCHANGED control
      BY <3>2 DEF SettleTrade
    <3> QED BY <1>7, <3>1, <3>2 DEF Exchanged, TradingNext
  <2> QED BY <2>1 DEF control
<1> QED BY <1>1, <1>2, <1>3, <1>4, <1>5, <1>6, <1>7 DEF Next

\* What a call holds is freed when it is cut off, and only that.
LEMMA CopiesCutOff ==
  ASSUME CallsOK, CopiesOK, NEW c \in Workers, CutOff(c)
  PROVE  CopiesOK'
<1>1. /\ calls' = [calls EXCEPT ![c] = Idle] /\ wallets' = wallets
      /\ rowLock' = [w \in Wallets |-> IF rowLock[w] = c THEN NoCall ELSE rowLock[w]]
  BY DEF CutOff
<1>2. Turns(c, "idle", "idle", Nothing, Nothing)
  BY <1>1, Replaces DEF Idle, CallsOK
<1>3. ASSUME NEW d \in Workers PROVE CopyOK(d)'
  <2>1. CASE d = c
    BY <1>2, <2>1 DEF CopyOK, Turns, At
  <2>2. CASE d # c /\ At(d, "transfer", "second")
    <3>1. PICK w : w = LowFirst(calls[d].mem)[1] /\ w \in Wallets
      BY <2>2, PairOfTransfer DEF At
    <3>2. /\ rowLock[w] = d /\ calls[d].mem.row.balance = wallets[w].balance
          /\ calls[d].mem.row.locked = wallets[w].locked
      BY <2>2, <3>1 DEF CopiesOK, CopyOK
    <3>3. calls'[d] = calls[d] /\ rowLock'[w] = d
      BY <1>1, <1>2, <2>2, <3>1, <3>2 DEF Turns
    <3> QED BY <1>1, <3>1, <3>2, <3>3 DEF CopyOK
  <2>3. CASE d # c /\ ~At(d, "transfer", "second")
    BY <1>2, <2>3 DEF CopyOK, Turns, At
  <2> QED BY <2>1, <2>2, <2>3
<1> QED BY <1>3 DEF CopiesOK

\* A step that leaves the services' tables and calls alone but may cut a call
\* off, and may record trades.
LEMMA AllKeep ==
  ASSUME Inv, Grows, CallsOK', LedgerOK', RacesOK', TradingTypeOK', LocksOK', CopiesOK',
         NEW kinds, kinds \subseteq {"trade"}, Records(kinds),
         Spares(DepositOps), Spares(WithdrawalOps), Spares(CryptoOps), Spares(MarketOps),
         UNCHANGED <<depositVars, withdrawalVars, cryptoVars, p2pVars>>
  PROVE  Inv'
<1>1. /\ UNCHANGED depositVars /\ UNCHANGED withdrawalVars /\ UNCHANGED cryptoVars
      /\ UNCHANGED p2pVars
  OBVIOUS
<1>2. CallsOK /\ LedgerOK /\ DepositOK /\ WithdrawalOK /\ CryptoOK /\ MarketOK
  BY DEF Inv
<1>3. {"deposit", "withdrawal", "tx", "send", "ad"} \cap kinds = {}
  OBVIOUS
<1>4. DepositOK'
  BY <1>1, <1>2, <1>3, DepositKeeps
<1>5. WithdrawalOK'
  <2>1. Spares(Payers)
    BY SparesFewer DEF Payers, WithdrawalOps
  <2> QED BY <1>1, <1>2, <1>3, <2>1, WithdrawalKeeps
<1>6. CryptoOK'
  BY <1>1, <1>2, <1>3, CryptoKeeps
<1>7. MarketOK'
  BY <1>1, <1>2, <1>3, MarketKeeps
<1> QED BY <1>4, <1>5, <1>6, <1>7 DEF Inv

LEMMA NextInv ==
  ASSUME Inv, Next
  PROVE  Inv'
<1>1. /\ CallsOK /\ LedgerOK /\ RacesOK /\ DepositOK /\ WithdrawalOK /\ CryptoOK /\ MarketOK
      /\ TradingTypeOK /\ LocksOK /\ CopiesOK
  BY DEF Inv
<1>2. RacesOK' /\ raced \subseteq raced'
  BY RacesAreKnown DEF Next
<1>3. UNCHANGED tradingVars => TradingTypeOK' /\ (LocksStay => LocksOK')
  BY <1>1 DEF LocksStay, TradingTypeOK, tradingVars
<1>4. CASE Deposited
  <2>1. /\ DepositStepped /\ UNCHANGED withdrawalVars /\ UNCHANGED cryptoVars
        /\ UNCHANGED p2pVars /\ UNCHANGED tradingVars
    BY <1>1, <1>2, <1>4, DepositSteps DEF Deposited
  <2>2. /\ CallsOK' /\ LedgerOK' /\ DepositOK' /\ Covered /\ Records({"deposit"}) /\ Grows
        /\ Spares(WithdrawalOps) /\ Spares(CryptoOps) /\ Spares(MarketOps)
    BY <1>2, <2>1 DEF DepositStepped, Grows
  <2>3. WithdrawalOK'
    <3>1. Spares(Payers)
      BY <2>2, SparesFewer DEF Payers, WithdrawalOps
    <3> QED BY <1>1, <2>1, <2>2, <3>1, WithdrawalKeeps
  <2>4. CryptoOK'
    BY <1>1, <2>1, <2>2, CryptoKeeps
  <2>5. MarketOK'
    BY <1>1, <2>1, <2>2, MarketKeeps
  <2>6. TradingTypeOK' /\ LocksOK'
    BY <1>1, <1>3, <2>1, <2>2, LocksKeep DEF withdrawalVars
  <2>7. CopiesOK'
    BY <1>1, <1>4, <2>2, CopiesSpared, DepositHolds DEF Deposited
  <2> QED BY <1>2, <2>2, <2>3, <2>4, <2>5, <2>6, <2>7 DEF Inv
<1>5. CASE Withdrawn
  <2>1. /\ WithdrawalStepped /\ UNCHANGED depositVars /\ UNCHANGED cryptoVars
        /\ UNCHANGED p2pVars /\ UNCHANGED tradingVars
    BY <1>1, <1>2, <1>5, WithdrawalSteps DEF Withdrawn
  <2>2. /\ CallsOK' /\ LedgerOK' /\ WithdrawalOK' /\ LocksStay /\ Grows
        /\ Records({"withdrawal", "admin"})
        /\ Spares(DepositOps) /\ Spares(CryptoOps) /\ Spares(MarketOps)
    BY <1>2, <2>1 DEF WithdrawalStepped, Grows
  <2>3. DepositOK'
    BY <1>1, <2>1, <2>2, DepositKeeps
  <2>4. CryptoOK'
    BY <1>1, <2>1, <2>2, CryptoKeeps
  <2>5. MarketOK'
    BY <1>1, <2>1, <2>2, MarketKeeps
  <2>6. CopiesOK'
    BY <1>1, <1>5, <2>2, CopiesSpared, WithdrawalHolds DEF Withdrawn
  <2> QED BY <1>1, <1>2, <1>3, <2>1, <2>2, <2>3, <2>4, <2>5, <2>6 DEF Inv
<1>6. CASE OnChain
  <2>1. /\ CryptoStepped /\ UNCHANGED depositVars /\ UNCHANGED withdrawalVars
        /\ UNCHANGED p2pVars /\ UNCHANGED tradingVars
    BY <1>1, <1>2, <1>6, CryptoSteps DEF OnChain
  <2>2. /\ CallsOK' /\ LedgerOK' /\ CryptoOK' /\ Covered /\ Records(CryptoKinds) /\ Grows
        /\ Spares(DepositOps) /\ Spares(WithdrawalOps) /\ Spares(MarketOps)
    BY <1>2, <2>1 DEF CryptoStepped, Grows
  <2>3. {"deposit", "withdrawal", "ad"} \cap CryptoKinds = {}
    BY DEF CryptoKinds
  <2>4. DepositOK'
    BY <1>1, <2>1, <2>2, <2>3, DepositKeeps
  <2>5. WithdrawalOK'
    <3>1. Spares(Payers)
      BY <2>2, SparesFewer DEF Payers, WithdrawalOps
    <3> QED BY <1>1, <2>1, <2>2, <2>3, <3>1, WithdrawalKeeps
  <2>6. MarketOK'
    BY <1>1, <2>1, <2>2, <2>3, MarketKeeps
  <2>7. TradingTypeOK' /\ LocksOK'
    BY <1>1, <1>3, <2>1, <2>2, LocksKeep DEF withdrawalVars
  <2>8. CopiesOK'
    BY <1>1, <1>6, CryptoCopies DEF OnChain
  <2> QED BY <1>2, <2>2, <2>4, <2>5, <2>6, <2>7, <2>8 DEF Inv
<1>7. CASE Traded
  <2>1. /\ MarketStepped /\ UNCHANGED depositVars /\ UNCHANGED withdrawalVars
        /\ UNCHANGED cryptoVars /\ UNCHANGED tradingVars
    BY <1>1, <1>7, MarketSteps DEF Traded
  <2>2. /\ CallsOK' /\ LedgerOK' /\ MarketOK' /\ Covered /\ Records(MarketKinds)
        /\ Grows /\ Spares(DepositOps) /\ Spares(WithdrawalOps) /\ Spares(CryptoOps)
    BY <1>2, <2>1 DEF MarketStepped, Grows
  <2>3. {"deposit", "withdrawal", "tx", "send"} \cap MarketKinds = {}
    BY DEF MarketKinds
  <2>4. DepositOK'
    BY <1>1, <2>1, <2>2, <2>3, DepositKeeps
  <2>5. WithdrawalOK'
    <3>1. Spares(Payers)
      BY <2>2, SparesFewer DEF Payers, WithdrawalOps
    <3> QED BY <1>1, <2>1, <2>2, <2>3, <3>1, WithdrawalKeeps
  <2>6. CryptoOK'
    BY <1>1, <2>1, <2>2, <2>3, CryptoKeeps
  <2>7. TradingTypeOK' /\ LocksOK'
    BY <1>1, <1>3, <2>1, <2>2, LocksKeep DEF withdrawalVars
  <2>8. CopiesOK'
    BY <1>1, <1>7, <2>2, CopiesSpared, MarketHolds DEF Traded
  <2> QED BY <1>2, <2>2, <2>4, <2>5, <2>6, <2>7, <2>8 DEF Inv
<1>8. CASE Exchanged
  <2>1. /\ UNCHANGED <<depositVars, withdrawalVars, cryptoVars, p2pVars>>
        /\ UNCHANGED withdrawals
    BY <1>8 DEF Exchanged, withdrawalVars
  <2>2. TradingStepped
    BY <1>1, <1>2, <1>8, <2>1, TradingSteps DEF Exchanged, WithdrawalOK
  <2>3. /\ LedgerOK' /\ Records({"trade"}) /\ TradingTypeOK' /\ RowsHeld /\ LocksOK'
        /\ UNCHANGED <<calls, work, faults, hurt>>
    BY <1>1, <2>2 DEF TradingStepped, control
  <2>4. CallsOK'
    BY <1>1, <2>3 DEF CallsOK, Shape
  <2>5. Grows /\ \A ops : Spares(ops)
    BY <1>2, <2>3 DEF Grows, Spares
  <2>6. CopiesOK'
    BY <1>1, <2>3, <2>5, CopiesSpared
  <2> QED BY <1>2, <2>1, <2>3, <2>4, <2>5, <2>6, AllKeep
<1>9. CASE Escrowed
  <2>1. /\ UNCHANGED money /\ UNCHANGED <<calls, work, faults, hurt>>
        /\ UNCHANGED <<depositVars, withdrawalVars, cryptoVars, p2pVars>>
        /\ UNCHANGED tradingVars /\ UNCHANGED withdrawals
    BY <1>9 DEF Escrowed, control, withdrawalVars
  <2>2. LedgerOK' /\ Covered /\ Records({})
    BY <1>1, <2>1, MoneyCovered
  <2>3. CallsOK'
    BY <1>1, <2>1 DEF CallsOK, Shape
  <2>4. Grows /\ \A ops : Spares(ops)
    BY <1>2, <2>1 DEF Grows, Spares
  <2>5. TradingTypeOK' /\ LocksOK'
    BY <1>1, <1>3, <2>1, <2>2, <2>4, LocksKeep
  <2>6. CopiesOK'
    BY <1>1, <2>1, <2>4, CopiesSpared, MoneyHolds DEF money
  <2> QED BY <1>2, <2>1, <2>2, <2>3, <2>4, <2>5, <2>6, AllKeep
<1>10. CASE Interrupted
  <2>1. PICK c \in Workers : CutOff(c)
    BY <1>10 DEF Interrupted
  <2>2. /\ CallsOK' /\ LedgerOK' /\ Covered /\ Records({}) /\ hurt \subseteq hurt'
        /\ \A ops : "idle" \notin ops => Spares(ops)
    BY <1>1, <2>1, CallCutOff
  <2>3. Spares(DepositOps) /\ Spares(WithdrawalOps) /\ Spares(CryptoOps) /\ Spares(MarketOps)
    BY <2>2 DEF DepositOps, WithdrawalOps, CryptoOps, MarketOps
  <2>4. /\ UNCHANGED <<depositVars, withdrawalVars, cryptoVars, p2pVars>>
        /\ UNCHANGED tradingVars /\ UNCHANGED withdrawals
    BY <1>10 DEF Interrupted, withdrawalVars
  <2>5. Grows
    BY <1>2, <2>2 DEF Grows
  <2>6. TradingTypeOK' /\ LocksOK'
    BY <1>1, <1>3, <2>2, <2>4, <2>5, LocksKeep
  <2>7. CopiesOK'
    BY <1>1, <2>1, CopiesCutOff
  <2> QED BY <1>2, <2>2, <2>3, <2>4, <2>5, <2>6, <2>7, AllKeep
<1> QED BY <1>4, <1>5, <1>6, <1>7, <1>8, <1>9, <1>10 DEF Next

LEMMA StutterInv ==
  ASSUME Inv, UNCHANGED vars
  PROVE  Inv'
<1>1. /\ UNCHANGED money /\ UNCHANGED <<calls, work, faults, hurt>> /\ raced' = raced
      /\ UNCHANGED <<depositVars, withdrawalVars, cryptoVars, p2pVars>>
      /\ UNCHANGED tradingVars /\ UNCHANGED withdrawals
  BY DEF vars, control, withdrawalVars
<1>2. CallsOK /\ LedgerOK /\ RacesOK /\ TradingTypeOK /\ LocksOK /\ CopiesOK
  BY DEF Inv
<1>3. LedgerOK' /\ Covered /\ Records({})
  BY <1>1, <1>2, MoneyCovered
<1>4. CallsOK' /\ RacesOK'
  BY <1>1, <1>2 DEF CallsOK, Shape, RacesOK
<1>5. Grows /\ \A ops : Spares(ops)
  BY <1>1 DEF Grows, Spares
<1>6. TradingTypeOK' /\ LocksOK'
  BY <1>1, <1>2, <1>3, <1>5, LocksKeep DEF LocksStay, TradingTypeOK, tradingVars
<1>7. CopiesOK'
  BY <1>1, <1>2, <1>5, CopiesSpared, MoneyHolds DEF money
<1> QED BY <1>1, <1>3, <1>4, <1>5, <1>6, <1>7, AllKeep

LEMMA InitInv ==
  ASSUME Init
  PROVE  Inv
<1>1. /\ work \in Workloads /\ faults = 0 /\ raced = {} /\ hurt = {}
      /\ calls = [c \in Workers |-> Idle]
      /\ wallets = [w \in Wallets |-> [made |-> w \in Funded, locked |-> 0,
                                       balance |-> OpeningOf(w)]]
      /\ ledger = [w \in Wallets |-> <<>>]
      /\ rowLock = [w \in Wallets |-> NoCall]
  BY DEF Init, LedgerInit
<1>2. \A c \in Workers : /\ calls[c].op = "idle" /\ calls[c].pc = "idle"
                         /\ calls[c].on = Nothing /\ calls[c].mem = Nothing
  BY <1>1 DEF Idle
<1>3. CallsOK
  <2>1. Shape
    BY <1>1 DEF Shape, Idle
  <2>2. faults \in 0..MaxFaults
    BY <1>1, LedgerBoundsAssumption
  <2>3. CallTyped("idle", "idle", Nothing, Nothing)
    BY DEF CallTyped, DepositTyped, DepositOps, Openers, WithdrawalTyped, CryptoTyped,
           MarketTyped, MarketOps
  <2> QED BY <1>1, <1>2, <2>1, <2>2, <2>3 DEF CallsOK
<1>4. \A w \in Wallets : /\ OpeningOf(w) \in Int /\ OpeningOf(w) >= 0 /\ wallets[w].locked = 0
                         /\ wallets[w].balance = OpeningOf(w)
  BY <1>1, FundedAssumption DEF OpeningOf
<1>5. LedgerOK
  <2>1. wallets \in [Wallets -> Wallet]
    BY <1>1, <1>4 DEF Wallet
  <2>2. ledger \in [Wallets -> Seq(Entries)]
    BY <1>1
  <2>3. \A w \in Wallets : Trail(w, ledger[w], wallets[w].balance)
    <3>1. Len(<<>>) = 0
      OBVIOUS
    <3> QED BY <1>1, <1>4, <3>1 DEF Trail, After, GoesOn
  <2>4. AuditTrail
    BY <2>3, AuditTrailIs
  <2> QED BY <1>1, <2>1, <2>2, <2>4 DEF LedgerOK
<1>6. RacesOK
  BY <1>2 DEF RacesOK
<1>7. \A ref : \A w \in Wallets : EntriesOf(w, ref) = {}
  BY <1>1 DEF EntriesOf
<1>8. \A ref : ~Recorded(ref) /\ ~RecordedTwice(ref)
  BY <1>7 DEF Recorded, RecordedTwice
<1>9. DepositOK
  <2>1. /\ deposits = [d \in DepositIds |-> NoDeposit]
        /\ provider = [d \in DepositIds |-> "unknown"] /\ handed = {}
    BY DEF Init, DepositsInit
  <2>2. NoDeposit.status = "none"
    BY DEF NoDeposit
  <2>3. \A d \in DepositIds : DepositRow(d)
    BY <1>8, <2>1, <2>2 DEF DepositRow
  <2>4. DepositsTypeOK
    BY <2>1 DEF DepositsTypeOK
  <2>5. (\A c \in Workers : DepositCall(c)) /\ OpenersDiffer
    BY <1>2 DEF DepositCall, OpenersDiffer, Openers
  <2> QED BY <2>3, <2>4, <2>5 DEF DepositOK
<1>10. /\ withdrawals = [x \in WithdrawalIds |-> NoWithdrawal]
       /\ paid = [x \in WithdrawalIds |-> 0] /\ lost = [x \in WithdrawalIds |-> 0]
       /\ NoWithdrawal.status = "none"
  BY DEF Init, WithdrawalsInit, NoWithdrawal
<1>11. WithdrawalOK
  <2>1. \A x \in WithdrawalIds : WithdrawalRow(x)
    <3> SUFFICES ASSUME NEW x \in WithdrawalIds PROVE WithdrawalRow(x)
      OBVIOUS
    <3>1. Settling(x) = {} /\ \A w \in Wallets : EntriesOf(w, WithdrawalRef(x)) = {}
      BY <1>2, <1>7 DEF Settling
    <3>2. PICK none : none = {} /\ Cardinality(none) = 0
      BY FS_EmptySet
    <3>3. Cardinality(Settling(x)) = 0
      BY <3>1, <3>2
    <3>4. \A w \in Wallets : Cardinality(EntriesOf(w, WithdrawalRef(x))) = 0
      BY <3>1, <3>2
    <3>5. Answered(x) = 0
      BY <1>10 DEF Answered
    <3> QED BY <1>10, <3>1, <3>3, <3>4, <3>5 DEF WithdrawalRow
  <2>2. WithdrawalsTypeOK
    BY <1>10 DEF WithdrawalsTypeOK
  <2>3. (\A c \in Workers : WithdrawalCall(c)) /\ ReserversDiffer
    BY <1>2 DEF WithdrawalCall, ReserversDiffer, At
  <2>4. OnePending
    BY <1>10 DEF OnePending
  <2> QED BY <2>1, <2>2, <2>3, <2>4 DEF WithdrawalOK
<1>12. TradingTypeOK /\ LocksOK /\ CopiesOK
  <2>1. \A w \in Wallets : PendingOn(w) = {}
    BY <1>10 DEF PendingOn
  <2>2. held = [w \in Wallets |-> 0] /\ excess = {}
    BY DEF Init, TradingInit
  <2>3. TradingTypeOK
    BY <2>2 DEF TradingTypeOK
  <2>4. LocksOK
    BY <1>4, <2>1, <2>2 DEF LocksOK, LockRight
  <2>5. CopiesOK
    BY <1>2 DEF CopiesOK, CopyOK, At
  <2> QED BY <2>3, <2>4, <2>5
<1>13. CryptoOK
  <2>1. /\ addresses = IF "transfer" \in DOMAIN work THEN FirstAddresses
                       ELSE [w \in Wallets |-> NoAddress]
        /\ onchain = [t \in TxIds |-> NoTx] /\ sent = [x \in SendIds |-> 0]
    BY DEF Init, CryptoInit
  <2>2. \A w \in Wallets : UserOf(w) \in Nat /\ CurrencyOf(w) \in Currencies
    BY UsersAssumption DEF Wallets, UserOf, CurrencyOf
  <2>3. \A w \in Wallets : CurrencyOf(w) = "ETH" => "ethereum" \in Chains
    <3>1. ChainFor("ETH") = "ethereum"
      BY DEF ChainFor
    <3> QED BY <2>2, <3>1 DEF Chains
  <2>4. \A w \in Wallets : FirstAddresses[w] \in {NoAddress} \cup [chain : Chains, index : Nat]
    BY <2>2, <2>3 DEF FirstAddresses, Address
  <2>5. FirstAddresses = [w \in Wallets |-> FirstAddresses[w]]
    BY DEF FirstAddresses
  <2>6. addresses \in [Wallets -> {NoAddress} \cup [chain : Chains, index : Nat]]
    BY <2>1, <2>4, <2>5
  <2>7. CryptoTypeOK
    BY <2>1, <2>6 DEF CryptoTypeOK
  <2>8. AddressesDiffer
    <3>1. ASSUME NEW v \in Wallets, NEW w \in Wallets,
                 FirstAddresses[v] = FirstAddresses[w], FirstAddresses[v] # NoAddress
          PROVE  v = w
      <4>1. /\ CurrencyOf(v) = "ETH" /\ CurrencyOf(w) = "ETH"
            /\ Address("ethereum", UserOf(v)) = Address("ethereum", UserOf(w))
        BY <3>1 DEF FirstAddresses
      <4>2. UserOf(v) = UserOf(w)
        BY <4>1 DEF Address
      <4> QED BY <4>1, <4>2 DEF UserOf, CurrencyOf, Wallets
    <3>2. CASE "transfer" \in DOMAIN work
      BY <2>1, <3>1, <3>2 DEF AddressesDiffer
    <3>3. CASE "transfer" \notin DOMAIN work
      BY <2>1, <3>3 DEF AddressesDiffer
    <3> QED BY <3>2, <3>3
  <2>9. \A t \in TxIds : TxRow(t)
    BY <1>7, <1>8, <2>1 DEF TxRow
  <2>10. \A x \in SendIds : SendRow(x)
    BY <1>8, <2>1 DEF SendRow
  <2>11. (\A c \in Workers : CryptoCall(c)) /\ SendersDiffer
    BY <1>2 DEF CryptoCall, At, SendersDiffer
  <2> QED BY <2>7, <2>8, <2>9, <2>10, <2>11 DEF CryptoOK
<1>14. MarketOK
  <2>1. ads = [a \in AdIds |-> NoAd] /\ p2pOrders = [o \in OrderIds |-> NoOrder]
    BY DEF Init, P2PInit
  <2>2. P2PTypeOK
    BY <2>1 DEF P2PTypeOK
  <2>3. (\A a \in AdIds : AdRow(a)) /\ \A o \in OrderIds : OrderRow(o)
    BY <2>1 DEF AdRow, OrderRow
  <2>4. (\A c \in Workers : MarketCall(c)) /\ MakersDiffer
    BY <1>2 DEF MarketCall, MakersDiffer
  <2> QED BY <2>2, <2>3, <2>4 DEF MarketOK
<1> QED BY <1>3, <1>5, <1>6, <1>9, <1>11, <1>12, <1>13, <1>14 DEF Inv

\* The inductive invariant of the custody services.
THEOREM InvHolds == Spec => []Inv
<1>1. Init => Inv
  BY InitInv
<1>2. Inv /\ [Next]_vars => Inv'
  BY NextInv, StutterInv
<1> QED BY <1>1, <1>2, PTL DEF Spec

-----------------------------------------------------------------------------
\* What follows from it.

\* The escrow contract and its client, beside the other services, behave as
\* they do alone: what was proved of them holds here.
THEOREM EscrowRuns == Spec => EscrowSpec
<1>1. Init => EscrowInit
  BY DEF Init
<1>2. [Next]_vars => [EscrowNext]_escrowVars
  <2> SUFFICES ASSUME [Next]_vars PROVE [EscrowNext]_escrowVars
    OBVIOUS
  <2>1. CASE UNCHANGED vars
    BY <2>1 DEF vars
  <2>2. CASE Next
    BY <2>2 DEF Next, Deposited, Withdrawn, OnChain, Traded, Exchanged, Escrowed, Interrupted
  <2> QED BY <2>1, <2>2
<1> QED BY <1>1, <1>2, PTL DEF Spec, EscrowSpec

\* The variables keep their types, and the transactions table is the audit
\* trail its comment says it is: the rows of every wallet chain from its
\* opening balance to the balance it has now, whatever calls overlap or are
\* cut off, and though transfers write balances they computed from rows they
\* read earlier.  Only the house's wallets may have risen between two rows.
THEOREM LedgerAlwaysSound == Spec => []LedgerIsSound
<1>1. Inv /\ EscrowTypeOK => LedgerIsSound
  <2> SUFFICES ASSUME Inv, EscrowTypeOK PROVE LedgerIsSound
    OBVIOUS
  <2>1. \A c \in Workers : calls[c].op \in Operations \cup {"idle"}
    <3>1. DOMAIN work \subseteq Operations
      BY WorkloadsAssumption DEF Inv, CallsOK
    <3> QED BY <3>1 DEF Inv, CallsOK
  <2>2. LedgerTypeOK
    BY <2>1 DEF Inv, CallsOK, LedgerOK, LedgerTypeOK
  <2>3. DepositsTypeOK /\ WithdrawalsTypeOK /\ CryptoTypeOK /\ P2PTypeOK /\ TradingTypeOK
    BY DEF Inv, DepositOK, WithdrawalOK, CryptoOK, MarketOK
  <2> QED BY <2>2, <2>3 DEF LedgerIsSound, TypeOK, Inv, LedgerOK
<1> QED BY <1>1, InvHolds, EscrowRuns, EscrowTypes, PTL

\* A deposit is completed exactly when its credit is recorded, is credited
\* only when it was paid for, and once unless two confirmations overlapped; and
\* a payment that a client can make, or has made, has its row.
THEOREM DepositsAlwaysAccounted == Spec => []DepositsAccounted
<1>1. Inv => DepositsAccounted
  <2> SUFFICES ASSUME Inv PROVE DepositsAccounted
    OBVIOUS
  <2>1. DepositsTypeOK /\ \A d \in DepositIds : DepositRow(d)
    BY DEF Inv, DepositOK
  <2>2. \A d \in DepositIds : deposits[d] # NoDeposit => deposits[d].status # "none"
    BY <2>1 DEF DepositsTypeOK
  <2>3. PaymentsHaveRows
    BY <2>1, <2>2 DEF DepositRow, PaymentsHaveRows
  <2>4. DepositsMatchLedger /\ NoCreditWithoutPayment /\ DepositedOnce
    BY <2>1 DEF DepositRow, DepositsMatchLedger, NoCreditWithoutPayment, DepositedOnce
  <2> QED BY <2>3, <2>4 DEF DepositsAccounted
<1> QED BY <1>1, InvHolds, PTL

\* A withdrawal is debited no more often than a payout of it was answered with
\* success, and one that was worked on by one call at a time has the answered
\* payouts and the debits its status tells.
THEOREM WithdrawalsAlwaysAccounted == Spec => []WithdrawalsAccounted
<1>1. Inv => WithdrawalsAccounted
  <2> SUFFICES ASSUME Inv PROVE WithdrawalsAccounted
    OBVIOUS
  <2>1. WithdrawalOK /\ LedgerOK
    BY DEF Inv
  <2>2. NeverDebitedUnpaid
    <3> SUFFICES ASSUME NEW x \in WithdrawalIds, NEW w \in Wallets
                 PROVE  Cardinality(EntriesOf(w, WithdrawalRef(x))) <= paid[x] - lost[x]
      BY DEF NeverDebitedUnpaid
    <3>1. PICK entries, settling : /\ entries = Cardinality(EntriesOf(w, WithdrawalRef(x)))
                                   /\ settling = Cardinality(Settling(x))
      OBVIOUS
    <3>2. /\ entries \in Nat /\ settling \in Nat /\ paid[x] \in Nat /\ lost[x] \in Nat
      <4>1. IsFiniteSet(Settling(x))
        BY SettlingFinite
      <4>2. settling \in Nat
        BY <3>1, <4>1, FS_CardinalityType
      <4> QED BY <2>1, <3>1, <4>2, EntriesFinite DEF WithdrawalOK, WithdrawalsTypeOK
    <3>3. entries + settling <= paid[x] - lost[x]
      BY <2>1, <3>1 DEF WithdrawalOK, WithdrawalRow, Answered
    <3> QED BY <3>1, <3>2, <3>3
  <2>3. ASSUME NEW x \in WithdrawalIds, NEW w, w = withdrawals[x].wallet, NEW debits,
               debits = IF w = NoWallet THEN 0
                        ELSE Cardinality(EntriesOf(w, WithdrawalRef(x))),
               Undisturbed(WithdrawalRef(x)),
               \A c \in Workers : calls[c].on # WithdrawalRef(x)
        PROVE  CASE withdrawals[x].status = "completed" -> paid[x] = lost[x] + 1 /\ debits = 1
                 [] OTHER -> paid[x] = lost[x] /\ debits = 0
    <3>1. Settling(x) = {}
      BY <2>3 DEF Settling
    <3>2. /\ paid[x] - lost[x] = IF withdrawals[x].status = "completed" THEN 1 ELSE 0
          /\ \A v \in Wallets :
                Cardinality(EntriesOf(v, WithdrawalRef(x))) =
                    IF withdrawals[x].status = "completed" /\ w = v THEN 1 ELSE 0
          /\ paid[x] \in Nat /\ lost[x] \in Nat
      BY <2>1, <2>3, <3>1 DEF WithdrawalOK, WithdrawalRow, Answered, WithdrawalsTypeOK
    <3>3. NoWithdrawal.status = "none" /\ NoWithdrawal.wallet = NoWallet
      BY DEF NoWithdrawal
    <3>4. NoWallet \notin Wallets
      BY UsersAssumption DEF NoWallet, Wallets
    <3>5. CASE withdrawals[x] = NoWithdrawal
      BY <2>3, <3>2, <3>3, <3>5
    <3>6. CASE withdrawals[x] # NoWithdrawal
      <4>1. w \in Wallets
        BY <2>1, <2>3, <3>6 DEF WithdrawalOK, WithdrawalsTypeOK
      <4> QED BY <2>3, <3>2, <3>4, <4>1
    <3> QED BY <3>5, <3>6
  <2>4. PayoutsMatchStatus
    BY <2>3 DEF PayoutsMatchStatus
  <2> QED BY <2>2, <2>4 DEF WithdrawalsAccounted
<1> QED BY <1>1, InvHolds, PTL

\* No index of a chain is given to two wallets, what arrives at an address is
\* credited to the one user it was given to, once, and what is sent was
\* debited once; but for what two calls worked on at once.
THEOREM ChainsAlwaysMatch == Spec => []ChainsMatchLedger
<1>1. Inv => ChainsMatchLedger
  BY DEF Inv, CryptoOK, TxRow, SendRow, ChainsMatchLedger, CreditedOnceToOwner, SendsAreDebited
<1> QED BY <1>1, InvHolds, PTL

\* An order in the marketplace's table was paid for on both sides, and an
\* advertisement was funded once, whatever calls overlap or are cut off.
THEOREM NothingEverUnpaid == Spec => []NothingUnpaid
<1>1. Inv => NothingUnpaid
  <2> SUFFICES ASSUME Inv PROVE NothingUnpaid
    OBVIOUS
  <2>1. MarketOK
    BY DEF Inv
  <2>2. AdsAreFunded
    BY <2>1 DEF MarketOK, AdRow, AdsAreFunded
  <2>3. OrdersArePaid
    <3> SUFFICES ASSUME NEW o \in OrderIds, p2pOrders[o] # NoOrder, NEW order, NEW ad,
                        order = p2pOrders[o], ad = ads[order.ad], NEW base, NEW quote,
                        base = (IF ad.type = "buy" THEN -order.amount ELSE order.amount),
                        quote = (IF ad.type = "buy" THEN order.total ELSE -order.total)
                 PROVE  /\ WasMoved(<<order.taker, Base>>, OrderRef(o), base)
                        /\ WasMoved(<<order.taker, Quote>>, OrderRef(o), quote)
                        /\ IF ad.type = "buy"
                           THEN WasMoved(<<ad.maker, Base>>, OrderRef(o), -base)
                           ELSE WasMoved(<<ad.maker, Quote>>, OrderRef(o), -quote)
      BY DEF OrdersArePaid
    <3>1. OrderPaid(o, order, ad)
      BY <2>1 DEF MarketOK, OrderRow
    <3>2. order.amount \in Nat /\ order.total \in Nat
      <4>1. order \in [ad : AdIds, taker : Users, amount : Amounts, total : Nat]
        BY <2>1 DEF MarketOK, P2PTypeOK
      <4>2. PICK amount : amount = order.amount /\ amount \in Amounts
        BY <4>1
      <4> QED BY <4>1, <4>2, AmountsAssumption
    <3>3. /\ ad.type = "buy" => -base = order.amount
          /\ ad.type # "buy" => -quote = order.total
      BY <3>2
    <3> QED BY <3>1, <3>3 DEF OrderPaid
  <2> QED BY <2>2, <2>3 DEF NothingUnpaid
<1> QED BY <1>1, InvHolds, PTL

\* What a wallet has locked is what its pending withdrawals reserved and what
\* the order service holds, and its balance covers it unless the marketplace
\* took from the wallet; but where two calls worked on one of the withdrawals,
\* or the order service gave up more than it held.
THEOREM LocksAlwaysPending == Spec => []LocksArePending
<1>1. Inv => LocksArePending
  <2> SUFFICES ASSUME Inv, NEW w \in Wallets,
                      \A x \in WithdrawalIds :
                          withdrawals[x].wallet = w => WithdrawalRef(x) \notin raced,
                      w \notin excess
               PROVE  /\ wallets[w].locked =
                            held[w] + SumOver([x \in WithdrawalIds |-> withdrawals[x].amount],
                                              PendingOn(w))
                      /\ MarketTook(w) \/ wallets[w].locked <= wallets[w].balance
    BY DEF LocksArePending, SumOver
  <2>1. LockRight(w)
    BY DEF Inv, LocksOK, Alone
  <2>2. OnePending
    BY DEF Inv, WithdrawalOK
  <2>3. MarketTook(w) \/ wallets[w].locked <= wallets[w].balance
    BY <2>1 DEF LockRight
  <2>4. held[w] \in Nat /\ WithdrawalsTypeOK
    BY DEF Inv, TradingTypeOK, WithdrawalOK
  <2>5. CASE PendingOn(w) = {}
    <3>1. PICK f : f = [x \in WithdrawalIds |-> withdrawals[x].amount]
      OBVIOUS
    <3>2. SumOver(f, {}) = 0
      BY SumOfNone
    <3>3. wallets[w].locked = held[w] + 0
      BY <2>1, <2>4, <2>5 DEF LockRight
    <3> QED BY <2>3, <2>5, <3>1, <3>2, <3>3
  <2>6. CASE PendingOn(w) # {}
    <3>1. PICK x : x \in PendingOn(w)
      BY <2>6
    <3>2. x \in WithdrawalIds /\ PendingOn(w) = {x}
      BY <2>2, <3>1 DEF OnePending, PendingOn
    <3>3. PICK f : f = [y \in WithdrawalIds |-> withdrawals[y].amount]
      OBVIOUS
    <3>4. f[x] = withdrawals[x].amount /\ f[x] \in Nat
      BY <2>4, <3>1, <3>2, <3>3, PendingAmount
    <3>5. SumOver(f, {x}) = f[x]
      <4>1. f[x] \in Int
        BY <3>4
      <4> QED BY <4>1, SumOfOne
    <3>6. wallets[w].locked = f[x] + held[w]
      BY <2>1, <3>1, <3>4 DEF LockRight
    <3>7. wallets[w].locked = held[w] + f[x]
      BY <2>4, <3>4, <3>6
    <3> QED BY <2>3, <3>2, <3>3, <3>5, <3>7
  <2> QED BY <2>5, <2>6
<1> QED BY <1>1, InvHolds, PTL

-----------------------------------------------------------------------------
\* The marketplace makes and loses nothing.

\* The sums of P2PConserves, of one currency.
Balances(cur) == [u \in Users |-> wallets[<<u, cur>>].balance]
Openings(cur) == [u \in Users |-> OpeningOf(<<u, cur>>)]
Holdings(cur) == [a \in AdIds |-> HeldBy(a, cur)]
Flights(cur) == [c \in Workers |-> InFlightOf(c, cur)]
Deltas(w) == [i \in DOMAIN ledger[w] |-> ledger[w][i].after - ledger[w][i].before]
MovedSum(w, ref) == SumOver(Deltas(w), EntriesOf(w, ref))
RefundParts(a, cur) == [u \in Users |-> MovedSum(<<u, cur>>, RefundRef(a))]
RefundSum(a, cur) == SumOver(RefundParts(a, cur), Users)
Refunds(cur) == [a \in AdIds |-> RefundSum(a, cur)]
AllBalances(cur) == SumOver(Balances(cur), Users)
AllHeld(cur) == SumOver(Holdings(cur), AdIds)
AllInFlight(cur) == SumOver(Flights(cur), Workers)
AllRefunds(cur) == SumOver(Refunds(cur), AdIds)
AllOpened(cur) == SumOver(Openings(cur), Users)
AddsUp(cur) == AllBalances(cur) + AllHeld(cur) + AllInFlight(cur)
               = AllOpened(cur) + AllRefunds(cur)

\* An order's call has the advertisement as it is, until it has updated it.
Fresh(c) ==
    calls[c].op = "order" /\ calls[c].pc \in {"debit", "taker", "maker", "update"}
    => calls[c].mem.ad = ads[TheAd(c)]
MarketAlone == DOMAIN work \subseteq MarketOps /\ \A a \in AdIds : Undisturbed(AdRef(a))
MarketInv ==
    MarketAlone => /\ \A c \in Workers : Fresh(c)
                   /\ \A cur \in Currencies : AddsUp(cur)

LEMMA DeltasTyped ==
  ASSUME LedgerOK, NEW w \in Wallets, NEW ref
  PROVE  /\ \A i \in EntriesOf(w, ref) : Deltas(w)[i] \in Int
         /\ MovedSum(w, ref) \in Int
<1>1. PICK log : log = ledger[w]
  OBVIOUS
<1>2. log \in Seq(Entries)
  BY <1>1 DEF LedgerOK
<1>3. \A i \in DOMAIN log : log[i] \in Entries
  BY <1>2
<1>4. \A i \in DOMAIN log : log[i].after - log[i].before \in Int
  BY <1>3 DEF Entries
<1>5. \A i \in EntriesOf(w, ref) : Deltas(w)[i] \in Int
  BY <1>1, <1>4 DEF EntriesOf, Deltas
<1>6. IsFiniteSet(EntriesOf(w, ref))
  BY EntriesFinite
<1>7. SumOver(Deltas(w), EntriesOf(w, ref)) \in Int
  BY <1>5, <1>6, SumType
<1> QED BY <1>5, <1>7 DEF MovedSum

\* The sums are numbers, of balances and refunds.
LEMMA MoneyTyped ==
  ASSUME LedgerOK, NEW cur \in Currencies
  PROVE  /\ \A u \in Users : <<u, cur>> \in Wallets /\ Balances(cur)[u] \in Int
         /\ AllBalances(cur) \in Int
         /\ \A a \in AdIds : /\ \A u \in Users : RefundParts(a, cur)[u] \in Int
                             /\ Refunds(cur)[a] \in Int
         /\ AllRefunds(cur) \in Int
<1>1. \A u \in Users : <<u, cur>> \in Wallets
  BY DEF Wallets
<1>2. \A u \in Users : Balances(cur)[u] \in Int
  BY <1>1 DEF Balances, LedgerOK, Wallet
<1>3. AllBalances(cur) \in Int
  BY <1>2, UsersAssumption, SumType DEF AllBalances
<1>4. \A a \in AdIds : \A u \in Users : RefundParts(a, cur)[u] \in Int
  BY <1>1, DeltasTyped DEF RefundParts
<1>5. ASSUME NEW a \in AdIds PROVE Refunds(cur)[a] \in Int
  <2>1. SumOver(RefundParts(a, cur), Users) \in Int
    BY <1>4, UsersAssumption, SumType
  <2> QED BY <2>1 DEF Refunds, RefundSum
<1>6. AllRefunds(cur) \in Int
  BY <1>5, MarketAssumption, SumType DEF AllRefunds
<1> QED BY <1>1, <1>2, <1>3, <1>4, <1>5, <1>6

\* What a call at pc with memory m carries, and what a row of an advertisement
\* holds.
Carried(op, pc, m, cur) ==
    (IF op = "ad" /\ pc \in {"insert", "undo"} /\ CurrencyOf(HeldIn(m)) = cur
     THEN HeldFor(m, m.remaining) ELSE 0)
    + (IF op = "order" /\ pc \in {"taker", "maker"} /\ CurrencyOf(TakerGives(m)) = cur
       THEN Given(m) ELSE 0)
    - (IF op = "order" /\ pc \in {"maker", "update"} /\ CurrencyOf(TakerGets(m)) = cur
       THEN Gotten(m) ELSE 0)
HeldOf(row, cur) ==
    IF row # NoAd /\ CurrencyOf(HeldIn(row)) = cur THEN HeldFor(row, row.remaining) ELSE 0

LEMMA CarriedIs ==
  ASSUME NEW c, NEW cur
  PROVE  /\ InFlightOf(c, cur) = Carried(calls[c].op, calls[c].pc, calls[c].mem, cur)
         /\ InFlightOf(c, cur)' = Carried(calls'[c].op, calls'[c].pc, calls'[c].mem, cur)
BY DEF InFlightOf, Carried, CurrencyOf, HeldIn, HeldFor, TakerGives, TakerGets, Given, Gotten,
       Total

LEMMA HeldByIs ==
  ASSUME NEW a, NEW cur
  PROVE  HeldBy(a, cur) = HeldOf(ads[a], cur) /\ HeldBy(a, cur)' = HeldOf(ads'[a], cur)
BY DEF HeldBy, HeldOf, CurrencyOf, HeldIn, HeldFor

LEMMA CarriedTyped ==
  ASSUME NEW op, NEW pc, NEW on, NEW m, MarketTyped(op, pc, on, m), NEW cur
  PROVE  Carried(op, pc, m, cur) \in Int
<1>1. op = "ad" => HeldFor(m, m.remaining) \in Int
  <2>1. op = "ad" => m \in AdRows
    BY DEF MarketTyped
  <2> QED BY <2>1, HeldTyped
<1>2. op = "order" /\ pc \in {"taker", "maker", "update"} => Given(m) \in Int /\ Gotten(m) \in Int
  <2>1. op = "order" /\ pc \in {"taker", "maker", "update"} =>
           m.ad \in AdRows /\ m.taker \in Users /\ m.amount \in Amounts
    BY DEF MarketTyped, Sold
  <2> QED BY <2>1, SwapTyped
<1>3. PICK x, y, z :
        /\ x = IF op = "ad" /\ pc \in {"insert", "undo"} /\ CurrencyOf(HeldIn(m)) = cur
               THEN HeldFor(m, m.remaining) ELSE 0
        /\ y = IF op = "order" /\ pc \in {"taker", "maker"} /\ CurrencyOf(TakerGives(m)) = cur
               THEN Given(m) ELSE 0
        /\ z = IF op = "order" /\ pc \in {"maker", "update"} /\ CurrencyOf(TakerGets(m)) = cur
               THEN Gotten(m) ELSE 0
  OBVIOUS
<1>4. x \in Int /\ y \in Int /\ z \in Int
  BY <1>1, <1>2, <1>3
<1>5. Carried(op, pc, m, cur) = x + y - z
  BY <1>3 DEF Carried
<1> QED BY <1>4, <1>5

LEMMA HeldOfTyped ==
  ASSUME NEW row \in AdRows \cup {NoAd}, NEW cur
  PROVE  HeldOf(row, cur) \in Int
<1>1. row # NoAd => HeldFor(row, row.remaining) \in Int
  BY HeldTyped
<1> QED BY <1>1 DEF HeldOf

\* What one call's turn does to what all carry, and one advertisement's change
\* to what all hold.
LEMMA FlightTurns ==
  ASSUME CallsOK, NEW c \in Workers, NEW op, NEW pc, NEW on, NEW mem,
         Turns(c, op, pc, on, mem), MarketTyped(op, pc, on, mem), NEW cur
  PROVE  /\ AllInFlight(cur) \in Int
         /\ InFlightOf(c, cur) \in Int /\ Carried(op, pc, mem, cur) \in Int
         /\ AllInFlight(cur)' = AllInFlight(cur) + (Carried(op, pc, mem, cur) - InFlightOf(c, cur))
<1>1. PICK f, g : f = Flights(cur) /\ g = Flights(cur)'
  OBVIOUS
<1>2. \A d \in Workers : f[d] = InFlightOf(d, cur) /\ g[d] = InFlightOf(d, cur)'
  BY <1>1 DEF Flights
<1>3. \A d \in Workers : f[d] \in Int
  <2> SUFFICES ASSUME NEW d \in Workers PROVE f[d] \in Int
    OBVIOUS
  <2>1. MarketTyped(calls[d].op, calls[d].pc, calls[d].on, calls[d].mem)
    BY DEF CallsOK, CallTyped
  <2> QED BY <1>2, <2>1, CarriedIs, CarriedTyped
<1>4. Carried(op, pc, mem, cur) \in Int /\ g[c] = Carried(op, pc, mem, cur)
  BY <1>2, CarriedIs, CarriedTyped DEF Turns
<1>5. \A d \in Workers \ {c} : f[d] = g[d]
  BY <1>2, CarriedIs DEF Turns
<1>6. \A d \in Workers : f[d] \in Int /\ g[d] \in Int
  BY <1>3, <1>4, <1>5
<1>7. SumOver(g, Workers) = SumOver(f, Workers) + (g[c] - f[c])
  BY ZenonT(40), <1>5, <1>6, WorkersAssumption, SumChange
<1>8. SumOver(f, Workers) \in Int
  BY <1>6, WorkersAssumption, SumType
<1>9. AllInFlight(cur) = SumOver(f, Workers) /\ AllInFlight(cur)' = SumOver(g, Workers)
  BY <1>1 DEF AllInFlight
<1> QED BY <1>2, <1>4, <1>6, <1>7, <1>8, <1>9

LEMMA HoldingChanges ==
  ASSUME MarketOK, NEW a \in AdIds, NEW row \in AdRows, ads' = [ads EXCEPT ![a] = row], NEW cur
  PROVE  /\ AllHeld(cur) \in Int /\ HeldOf(row, cur) \in Int /\ HeldBy(a, cur) \in Int
         /\ AllHeld(cur)' = AllHeld(cur) + (HeldOf(row, cur) - HeldBy(a, cur))
<1>1. PICK f, g : f = Holdings(cur) /\ g = Holdings(cur)'
  OBVIOUS
<1>2. \A b \in AdIds : f[b] = HeldOf(ads[b], cur) /\ g[b] = HeldOf(ads'[b], cur)
  BY <1>1, HeldByIs DEF Holdings
<1>3. \A b \in AdIds : ads[b] \in AdRows \cup {NoAd}
  BY DEF MarketOK, P2PTypeOK, AdRows
<1>4. ads'[a] = row /\ \A b \in AdIds : b # a => ads'[b] = ads[b]
  BY DEF MarketOK, P2PTypeOK
<1>5. \A b \in AdIds : f[b] \in Int /\ g[b] \in Int
  BY <1>2, <1>3, <1>4, HeldOfTyped
<1>6. SumOver(g, AdIds) = SumOver(f, AdIds) + (g[a] - f[a])
  BY <1>2, <1>4, <1>5, MarketAssumption, SumChange
<1>7. SumOver(f, AdIds) \in Int
  BY <1>5, MarketAssumption, SumType
<1>8. AllHeld(cur) = SumOver(f, AdIds) /\ AllHeld(cur)' = SumOver(g, AdIds)
  BY <1>1 DEF AllHeld
<1>9. g[a] = HeldOf(row, cur) /\ f[a] = HeldBy(a, cur)
  BY <1>2, <1>4, HeldByIs
<1> QED BY <1>5, <1>6, <1>7, <1>8, <1>9

LEMMA HoldingTyped ==
  ASSUME MarketOK, NEW cur
  PROVE  AllHeld(cur) \in Int
<1>1. \A b \in AdIds : Holdings(cur)[b] = HeldOf(ads[b], cur)
  BY HeldByIs DEF Holdings
<1>2. \A b \in AdIds : ads[b] \in AdRows \cup {NoAd}
  BY DEF MarketOK, P2PTypeOK, AdRows
<1>3. \A b \in AdIds : Holdings(cur)[b] \in Int
  BY <1>1, <1>2, HeldOfTyped
<1> QED BY <1>3, MarketAssumption, SumType DEF AllHeld

\* What a move of one wallet does to all balances and all refunds.
LEMMA BalanceMoves ==
  ASSUME LedgerOK, NEW w \in Wallets, NEW delta \in Int, NEW lock, NEW ref,
         Changed(w, delta, lock, ref), \A v \in Wallets : v # w => Left(v),
         NEW cur \in Currencies
  PROVE  AllBalances(cur)' = AllBalances(cur) + (IF CurrencyOf(w) = cur THEN delta ELSE 0)
<1>1. PICK f, g : f = Balances(cur) /\ g = Balances(cur)'
  OBVIOUS
<1>2. \A u \in Users : f[u] = wallets[<<u, cur>>].balance /\ g[u] = wallets'[<<u, cur>>].balance
  BY <1>1 DEF Balances
<1>3. AllBalances(cur) = SumOver(f, Users) /\ AllBalances(cur)' = SumOver(g, Users)
  BY <1>1 DEF AllBalances
<1>4. AllBalances(cur) \in Int /\ \A u \in Users : f[u] \in Int /\ <<u, cur>> \in Wallets
  BY <1>1, MoneyTyped
<1>5. PICK x, y : w = <<x, y>> /\ x \in Users /\ y \in Currencies
  BY DEF Wallets
<1>6. CurrencyOf(w) = y
  BY <1>5 DEF CurrencyOf
<1>7. CASE y = cur
  <2>1. g[x] = f[x] + delta
    BY <1>2, <1>5, <1>7 DEF Changed
  <2>2. \A u \in Users \ {x} : f[u] = g[u]
    <3> SUFFICES ASSUME NEW u \in Users, u # x PROVE f[u] = g[u]
      OBVIOUS
    <3>1. <<u, cur>> # w /\ <<u, cur>> \in Wallets
      BY <1>4, <1>5
    <3> QED BY <1>2, <3>1 DEF Left
  <2>3. \A u \in Users : f[u] \in Int /\ g[u] \in Int
    <3>1. f[x] + delta \in Int
      <4>1. f[x] \in Int
        BY <1>4, <1>5
      <4> QED BY ONLY <4>1, delta \in Int
    <3> QED BY <1>4, <2>1, <2>2, <3>1
  <2>4. SumOver(g, Users) = SumOver(f, Users) + (g[x] - f[x])
    BY ZenonT(40), <1>5, <2>2, <2>3, UsersAssumption, SumChange
  <2> QED BY <1>3, <1>4, <1>5, <1>6, <1>7, <2>1, <2>3, <2>4
<1>8. CASE y # cur
  <2>1. \A u \in Users : f[u] = g[u]
    <3> SUFFICES ASSUME NEW u \in Users PROVE f[u] = g[u]
      OBVIOUS
    <3>1. <<u, cur>> # w /\ <<u, cur>> \in Wallets
      BY <1>4, <1>5, <1>8
    <3> QED BY <1>2, <3>1 DEF Left
  <2>2. SumOver(f, Users) = SumOver(g, Users)
    BY <2>1, UsersAssumption, SumSame
  <2> QED BY <1>3, <1>4, <1>6, <1>8, <2>2
<1> QED BY <1>7, <1>8

\* A row more of ref in wallet w, in what is recorded of ref there.
LEMMA MovedSumGrows ==
  ASSUME LedgerOK, NEW w \in Wallets, NEW delta \in Int, NEW ref,
         RecordsOne(w, ref, delta), NEW v \in Wallets, NEW r
  PROVE  MovedSum(v, r)' = MovedSum(v, r) + (IF v = w /\ r = ref THEN delta ELSE 0)
<1>1. PICK f, g, S, T : /\ f = Deltas(v) /\ g = Deltas(v)'
                        /\ S = EntriesOf(v, r) /\ T = EntriesOf(v, r)'
  OBVIOUS
<1>2. MovedSum(v, r) = SumOver(f, S) /\ MovedSum(v, r)' = SumOver(g, T)
  BY <1>1 DEF MovedSum
<1>3. IsFiniteSet(S) /\ (\A i \in S : f[i] \in Int) /\ SumOver(f, S) \in Int
  BY <1>1, <1>2, EntriesFinite, DeltasTyped
<1>4. CASE v # w
  <2>1. ledger'[v] = ledger[v]
    BY <1>4 DEF RecordsOne
  <2>2. f = g /\ S = T
    BY <1>1, <2>1 DEF Deltas, EntriesOf
  <2> QED BY <1>2, <1>3, <1>4, <2>2
<1>5. CASE v = w
  <2>1. PICK n, log, t : n = Len(ledger[w]) + 1 /\ log = ledger[w] /\ t = ledger'[w]
    OBVIOUS
  <2>2. /\ T = S \cup (IF r = ref THEN {n} ELSE {}) /\ n \notin DOMAIN log
        /\ \A i \in DOMAIN log : t[i] = log[i]
        /\ t[n].after - t[n].before = delta
    BY <1>1, <1>5, <2>1 DEF RecordsOne
  <2>3. S \subseteq DOMAIN log /\ T \subseteq DOMAIN t
    BY <1>1, <1>5, <2>1 DEF EntriesOf
  <2>4. /\ \A i \in DOMAIN log : f[i] = log[i].after - log[i].before
        /\ \A i \in DOMAIN t : g[i] = t[i].after - t[i].before
    BY <1>1, <1>5, <2>1 DEF Deltas
  <2>5. \A i \in S : f[i] = g[i]
    BY <2>2, <2>3, <2>4
  <2>6. SumOver(f, S) = SumOver(g, S)
    BY <1>3, <2>5, SumSame
  <2>7. CASE r # ref
    <3>1. T = S
      BY <2>2, <2>7
    <3> QED BY <1>2, <1>3, <2>6, <2>7, <3>1
  <2>8. CASE r = ref
    <3>1. T = S \cup {n} /\ n \notin S
      BY <2>2, <2>3, <2>8
    <3>2. g[n] = delta
      BY <2>2, <2>3, <2>4, <3>1
    <3>3. \A i \in S \cup {n} : g[i] \in Int
      BY <1>3, <2>5, <3>2
    <3>4. SumOver(g, S \cup {n}) = g[n] + SumOver(g, S)
      BY <1>3, <3>1, <3>3, SumAdd
    <3> QED BY <1>2, <1>3, <1>5, <2>6, <2>8, <3>1, <3>2, <3>4
  <2> QED BY <2>7, <2>8
<1> QED BY <1>4, <1>5

\* A row that speaks of no refund leaves the refunds as they are, and one that
\* does adds to them.
LEMMA RefundsKept ==
  ASSUME LedgerOK, NEW w \in Wallets, NEW delta \in Int, NEW ref,
         RecordsOne(w, ref, delta), ref[1] # "refund", NEW cur \in Currencies
  PROVE  AllRefunds(cur)' = AllRefunds(cur)
<1>1. \A a \in AdIds : RefundRef(a) # ref /\ RefundRef(a)' = RefundRef(a)
  BY DEF RefundRef
<1>2. ASSUME NEW a \in AdIds PROVE RefundSum(a, cur)' = RefundSum(a, cur)
  <2>1. PICK f, g : f = RefundParts(a, cur) /\ g = RefundParts(a, cur)'
    OBVIOUS
  <2>2. \A u \in Users : /\ f[u] = MovedSum(<<u, cur>>, RefundRef(a))
                         /\ g[u] = MovedSum(<<u, cur>>, RefundRef(a))'
    BY <2>1 DEF RefundParts
  <2>3. \A u \in Users : g[u] = f[u]
    <3> SUFFICES ASSUME NEW u \in Users PROVE g[u] = f[u]
      OBVIOUS
    <3>1. PICK v, r : v = <<u, cur>> /\ r = RefundRef(a)
      OBVIOUS
    <3>2. v \in Wallets
      BY <3>1 DEF Wallets
    <3>3. MovedSum(v, r)' = MovedSum(v, r) + 0 /\ MovedSum(v, r) \in Int
      BY <1>1, <3>1, <3>2, MovedSumGrows, DeltasTyped
    <3>4. MovedSum(<<u, cur>>, RefundRef(a))' = MovedSum(v, r)'
      BY <3>1 DEF MovedSum, Deltas, EntriesOf, RefundRef
    <3> QED BY <2>2, <3>1, <3>3, <3>4
  <2>4. SumOver(g, Users) = SumOver(f, Users)
    BY <2>3, UsersAssumption, SumSame
  <2> QED BY <2>1, <2>4 DEF RefundSum
<1>3. PICK f, g : f = Refunds(cur) /\ g = Refunds(cur)'
  OBVIOUS
<1>4. \A a \in AdIds : g[a] = f[a]
  BY <1>2, <1>3 DEF Refunds
<1>5. SumOver(g, AdIds) = SumOver(f, AdIds)
  BY <1>4, MarketAssumption, SumSame
<1> QED BY <1>3, <1>5 DEF AllRefunds

LEMMA RefundAdded ==
  ASSUME LedgerOK, NEW w \in Wallets, NEW delta \in Int, NEW a \in AdIds,
         RecordsOne(w, RefundRef(a), delta), NEW cur \in Currencies
  PROVE  AllRefunds(cur)' = AllRefunds(cur) + (IF CurrencyOf(w) = cur THEN delta ELSE 0)
<1>1. \A b \in AdIds : (RefundRef(b) = RefundRef(a) <=> b = a) /\ RefundRef(b)' = RefundRef(b)
  BY DEF RefundRef
<1>2. PICK x, y : w = <<x, y>> /\ x \in Users /\ y \in Currencies /\ CurrencyOf(w) = y
  BY DEF Wallets, CurrencyOf
<1>3. ASSUME NEW b \in AdIds, NEW u \in Users
      PROVE  /\ RefundParts(b, cur)[u] \in Int
             /\ RefundParts(b, cur)'[u] = RefundParts(b, cur)[u] +
                  (IF b = a /\ u = x /\ y = cur THEN delta ELSE 0)
  <2>1. PICK v, r, ref : v = <<u, cur>> /\ r = RefundRef(b) /\ ref = RefundRef(a)
    OBVIOUS
  <2>2. v \in Wallets
    BY <2>1 DEF Wallets
  <2>3. MovedSum(v, r)' = MovedSum(v, r) + (IF v = w /\ r = ref THEN delta ELSE 0)
    BY <2>1, <2>2, MovedSumGrows
  <2>4. MovedSum(<<u, cur>>, RefundRef(b))' = MovedSum(v, r)'
    BY <2>1 DEF MovedSum, Deltas, EntriesOf, RefundRef
  <2>5. (v = w /\ r = ref) <=> (b = a /\ u = x /\ y = cur)
    BY <1>1, <1>2, <2>1
  <2>6. MovedSum(v, r) \in Int
    BY <2>2, DeltasTyped
  <2>7. /\ RefundParts(b, cur)[u] = MovedSum(v, r)
        /\ RefundParts(b, cur)'[u] = MovedSum(v, r)'
    BY <2>1, <2>4 DEF RefundParts
  <2> QED BY <2>3, <2>5, <2>6, <2>7
<1>4. ASSUME NEW b \in AdIds
      PROVE  /\ RefundSum(b, cur) \in Int
             /\ RefundSum(b, cur)' = RefundSum(b, cur) + (IF b = a /\ y = cur THEN delta ELSE 0)
  <2>1. PICK f, g : f = RefundParts(b, cur) /\ g = RefundParts(b, cur)'
    OBVIOUS
  <2>2. RefundSum(b, cur) = SumOver(f, Users) /\ RefundSum(b, cur)' = SumOver(g, Users)
    BY <2>1 DEF RefundSum
  <2>3. \A u \in Users : f[u] \in Int
    BY <1>3, <2>1
  <2>4. SumOver(f, Users) \in Int
    BY <2>3, UsersAssumption, SumType
  <2>5. CASE b = a /\ y = cur
    <3>1. \A u \in Users : g[u] = f[u] + (IF u = x THEN delta ELSE 0)
      BY <1>3, <2>1, <2>5
    <3>2. g[x] = f[x] + delta /\ f[x] + delta \in Int
      BY <1>2, <2>3, <3>1
    <3>3. \A u \in Users \ {x} : f[u] = g[u]
      BY <2>3, <3>1
    <3>4. \A u \in Users : f[u] \in Int /\ g[u] \in Int
      BY <2>3, <3>2, <3>3
    <3>5. SumOver(g, Users) = SumOver(f, Users) + (g[x] - f[x])
      BY ZenonT(40), <1>2, <3>3, <3>4, UsersAssumption, SumChange
    <3>6. SumOver(g, Users) = SumOver(f, Users) + delta
      BY <1>2, <2>3, <2>4, <3>2, <3>5
    <3> QED BY <2>2, <2>4, <2>5, <3>6
  <2>6. CASE ~(b = a /\ y = cur)
    <3>1. \A u \in Users : g[u] = f[u]
      BY <1>3, <2>1, <2>6
    <3>2. SumOver(g, Users) = SumOver(f, Users)
      BY <3>1, UsersAssumption, SumSame
    <3> QED BY <2>2, <2>4, <2>6, <3>2
  <2> QED BY <2>5, <2>6
<1>5. PICK f, g : f = Refunds(cur) /\ g = Refunds(cur)'
  OBVIOUS
<1>6. \A b \in AdIds : /\ f[b] \in Int
                       /\ g[b] = f[b] + (IF b = a /\ y = cur THEN delta ELSE 0)
  BY <1>4, <1>5 DEF Refunds
<1>7. g[a] = f[a] + (IF y = cur THEN delta ELSE 0) /\ g[a] \in Int
  BY <1>6
<1>8. \A b \in AdIds \ {a} : f[b] = g[b]
  BY <1>6
<1>9. \A b \in AdIds : f[b] \in Int /\ g[b] \in Int
  BY <1>6, <1>7, <1>8
<1>10. SumOver(g, AdIds) = SumOver(f, AdIds) + (g[a] - f[a])
  BY <1>8, <1>9, MarketAssumption, SumChange
<1>11. SumOver(f, AdIds) \in Int
  BY <1>9, MarketAssumption, SumType
<1> QED BY <1>2, <1>5, <1>6, <1>7, <1>10, <1>11 DEF AllRefunds

\* What adds up, in numbers.
LEMMA SumsMove ==
  ASSUME CallsOK, LedgerOK, MarketOK, NEW cur \in Currencies, AddsUp(cur),
         NEW db \in Int, NEW dh \in Int, NEW df \in Int, NEW dr \in Int,
         AllBalances(cur)' = AllBalances(cur) + db, AllHeld(cur)' = AllHeld(cur) + dh,
         AllInFlight(cur)' = AllInFlight(cur) + df, AllRefunds(cur)' = AllRefunds(cur) + dr,
         AllInFlight(cur) \in Int, db + dh + df = dr
  PROVE  AddsUp(cur)'
<1>1. AllOpened(cur)' = AllOpened(cur)
  BY DEF AllOpened, Openings, OpeningOf
<1>2. /\ AllBalances(cur) \in Int /\ AllHeld(cur) \in Int /\ AllRefunds(cur) \in Int
  BY MoneyTyped, HoldingTyped
<1>3. \A u \in Users : Openings(cur)[u] \in Int
  BY FundedAssumption DEF Openings, OpeningOf
<1>4. AllOpened(cur) \in Int
  BY <1>3, UsersAssumption, SumType DEF AllOpened
<1>5. PICK b, h, f, r, o, bb, hh, ff, rr :
        /\ b = AllBalances(cur) /\ h = AllHeld(cur) /\ f = AllInFlight(cur)
        /\ r = AllRefunds(cur) /\ o = AllOpened(cur)
        /\ bb = AllBalances(cur)' /\ hh = AllHeld(cur)' /\ ff = AllInFlight(cur)'
        /\ rr = AllRefunds(cur)'
  OBVIOUS
<1>6. b + h + f = o + r
  BY <1>5 DEF AddsUp
<1>7. /\ b \in Int /\ h \in Int /\ f \in Int /\ r \in Int /\ o \in Int
      /\ bb = b + db /\ hh = h + dh /\ ff = f + df /\ rr = r + dr
  BY <1>2, <1>4, <1>5
<1>8. bb + hh + ff = o + rr
  BY ONLY <1>6, <1>7, db \in Int, dh \in Int, df \in Int, dr \in Int, db + dh + df = dr
<1> QED BY <1>1, <1>5, <1>8 DEF AddsUp

\* Where nothing is written to wallets, or to advertisements.
LEMMA MoneyStays ==
  ASSUME NEW cur, UNCHANGED <<wallets, ledger>>
  PROVE  AllBalances(cur)' = AllBalances(cur) /\ AllRefunds(cur)' = AllRefunds(cur)
BY DEF AllBalances, AllRefunds, Balances, Refunds, RefundSum, RefundParts, MovedSum, Deltas,
       EntriesOf, RefundRef

LEMMA HoldingStays ==
  ASSUME NEW cur, ads' = ads
  PROVE  AllHeld(cur)' = AllHeld(cur)
BY DEF AllHeld, Holdings, HeldBy, HeldIn, HeldFor, CurrencyOf

-----------------------------------------------------------------------------
\* The steps of the marketplace where no two calls are about one advertisement.

Steady == (\A c \in Workers : Fresh(c)) /\ \A cur \in Currencies : AddsUp(cur)

\* Only the marketplace's operations are called, and a call of it is the only
\* one about its advertisement.
LEMMA AloneCalls ==
  ASSUME CallsOK, RacesOK, MarketOK, MarketAlone
  PROVE  /\ \A c \in Workers : calls[c].op \in MarketOps \cup {"idle"}
         /\ \A c, d \in Workers :
               c # d /\ calls[c].op \in MarketOps /\ calls[d].op \in MarketOps
               => TheAd(c) # TheAd(d)
<1>1. \A c \in Workers : calls[c].op \in MarketOps \cup {"idle"}
  BY DEF CallsOK, MarketAlone
<1>2. ASSUME NEW c \in Workers, NEW d \in Workers, c # d, calls[c].op \in MarketOps,
             calls[d].op \in MarketOps, TheAd(c) = TheAd(d)
      PROVE  FALSE
  <2>1. PICK a : a = TheAd(c)
    OBVIOUS
  <2>2. a \in AdIds /\ calls[c].on = AdRef(a) /\ calls[d].on = AdRef(a)
    BY <1>2, <2>1, MarketCallKnown
  <2>3. AdRef(a) # Nothing
    BY DEF AdRef, Nothing
  <2>4. AdRef(a) \in raced
    BY <1>2, <2>2, <2>3 DEF RacesOK
  <2> QED BY <2>2, <2>4 DEF MarketAlone, Undisturbed
<1> QED BY <1>1, <1>2

\* A call's turn, with the advertisements as they are but for its own.
LEMMA FreshTurns ==
  ASSUME CallsOK, RacesOK, MarketOK, MarketAlone, \A d \in Workers : Fresh(d),
         NEW c \in Workers, NEW op, NEW pc, NEW on, NEW mem, Turns(c, op, pc, on, mem),
         \/ ads' = ads
         \/ calls[c].op \in MarketOps /\ \A a \in AdIds : a # TheAd(c) => ads'[a] = ads[a],
         op = "order" /\ pc \in {"debit", "taker", "maker", "update"} => mem.ad = ads'[on[2]]
  PROVE  \A d \in Workers : Fresh(d)'
<1> SUFFICES ASSUME NEW d \in Workers PROVE Fresh(d)'
  OBVIOUS
<1>1. CASE d = c
  BY <1>1 DEF Fresh, Turns, TheAd
<1>2. CASE d # c
  <2>1. calls'[d] = calls[d]
    BY <1>2 DEF Turns
  <2>2. SUFFICES ASSUME calls[d].op = "order", calls[d].pc \in {"debit", "taker", "maker", "update"}
                 PROVE  calls[d].mem.ad = ads'[TheAd(d)]
    BY <2>1 DEF Fresh, TheAd
  <2>3. calls[d].mem.ad = ads[TheAd(d)] /\ calls[d].op \in MarketOps
    BY <2>2 DEF Fresh, MarketOps
  <2>4. TheAd(d) \in AdIds /\ (calls[c].op \in MarketOps => TheAd(d) # TheAd(c))
    BY <1>2, <2>3, MarketCallKnown, AloneCalls
  <2> QED BY <2>3, <2>4
<1> QED BY <1>1, <1>2

\* A step that moves no money and changes no advertisement.
LEMMA SteadyLooks ==
  ASSUME CallsOK, RacesOK, LedgerOK, MarketOK, MarketAlone, Steady,
         NEW c \in Workers, NEW op, NEW pc, NEW on, NEW mem, Turns(c, op, pc, on, mem),
         MarketTyped(op, pc, on, mem), UNCHANGED <<wallets, ledger>>, ads' = ads,
         \A cur \in Currencies : Carried(op, pc, mem, cur) = InFlightOf(c, cur),
         op = "order" /\ pc \in {"debit", "taker", "maker", "update"} => mem.ad = ads[on[2]]
  PROVE  Steady'
<1>1. \A d \in Workers : Fresh(d)'
  BY FreshTurns DEF Steady
<1>2. ASSUME NEW cur \in Currencies PROVE AddsUp(cur)'
  <2>1. /\ AllInFlight(cur) \in Int
        /\ InFlightOf(c, cur) \in Int /\ Carried(op, pc, mem, cur) \in Int
        /\ AllInFlight(cur)' = AllInFlight(cur) + (Carried(op, pc, mem, cur) - InFlightOf(c, cur))
    BY FlightTurns
  <2>2. AllInFlight(cur)' = AllInFlight(cur) + 0
    BY <2>1
  <2>3. /\ AllBalances(cur) \in Int /\ AllHeld(cur) \in Int /\ AllRefunds(cur) \in Int
    BY MoneyTyped, HoldingTyped
  <2>4. /\ AllBalances(cur)' = AllBalances(cur) + 0 /\ AllHeld(cur)' = AllHeld(cur) + 0
        /\ AllRefunds(cur)' = AllRefunds(cur) + 0
    BY <2>3, MoneyStays, HoldingStays
  <2>5. AddsUp(cur) /\ 0 \in Int /\ 0 + 0 + 0 = 0
    BY DEF Steady
  <2> QED BY <2>1, <2>2, <2>4, <2>5, SumsMove
<1> QED BY <1>1, <1>2 DEF Steady

\* A step that moves the balance of one wallet, by what its call carries less
\* than before.
LEMMA SteadyPosts ==
  ASSUME CallsOK, RacesOK, LedgerOK, MarketOK, MarketAlone, Steady,
         NEW c \in Workers, NEW op, NEW pc, NEW on, NEW mem, Turns(c, op, pc, on, mem),
         MarketTyped(op, pc, on, mem), ads' = ads, rowLock' = rowLock,
         NEW w \in Wallets, NEW delta \in Int, NEW ref \in Refs, ref[1] # "refund",
         Post(Moves(w, delta, 0, ref)),
         \A cur \in Currencies :
            Carried(op, pc, mem, cur) + (IF CurrencyOf(w) = cur THEN delta ELSE 0)
            = InFlightOf(c, cur),
         op = "order" /\ pc \in {"debit", "taker", "maker", "update"} => mem.ad = ads[on[2]]
  PROVE  Steady'
<1>1. \A d \in Workers : Fresh(d)'
  BY FreshTurns DEF Steady
<1>2. rowLock' \in [Wallets -> Workers \cup {NoCall}] /\ 0 \in Int
  BY DEF LedgerOK
<1>3. /\ RecordsOne(w, ref, delta) /\ Changed(w, delta, 0, ref)
      /\ \A v \in Wallets : v # w => Left(v)
  BY <1>2, PostOne
<1>4. ASSUME NEW cur \in Currencies PROVE AddsUp(cur)'
  <2>1. PICK db, carried, before : /\ db = IF CurrencyOf(w) = cur THEN delta ELSE 0
                                   /\ carried = Carried(op, pc, mem, cur)
                                   /\ before = InFlightOf(c, cur)
    OBVIOUS
  <2>2. /\ AllInFlight(cur) \in Int /\ before \in Int /\ carried \in Int
        /\ AllInFlight(cur)' = AllInFlight(cur) + (carried - before)
    BY <2>1, FlightTurns
  <2>3. carried + db = before /\ db \in Int
    BY <2>1
  <2>4. AllBalances(cur)' = AllBalances(cur) + db
    BY <1>3, <2>1, BalanceMoves
  <2>5. AllRefunds(cur)' = AllRefunds(cur) + 0
    BY <1>3, RefundsKept, MoneyTyped
  <2>6. AllHeld(cur)' = AllHeld(cur) + 0
    BY HoldingStays, HoldingTyped
  <2>7. carried - before \in Int /\ db + 0 + (carried - before) = 0
    BY ONLY <2>2, <2>3
  <2>8. AddsUp(cur)
    BY DEF Steady
  <2> QED BY <1>2, <2>2, <2>3, <2>4, <2>5, <2>6, <2>7, <2>8, SumsMove
<1> QED BY <1>1, <1>4 DEF Steady

\* A step that changes an advertisement, and what its call carries by as much.
LEMMA HoldsAddUp ==
  ASSUME CallsOK, LedgerOK, MarketOK, NEW cur \in Currencies, AddsUp(cur),
         NEW c \in Workers, NEW op, NEW pc, NEW on, NEW mem, Turns(c, op, pc, on, mem),
         MarketTyped(op, pc, on, mem), UNCHANGED <<wallets, ledger>>,
         NEW a \in AdIds, NEW row \in AdRows, ads' = [ads EXCEPT ![a] = row],
         Carried(op, pc, mem, cur) + HeldOf(row, cur) = InFlightOf(c, cur) + HeldBy(a, cur)
  PROVE  AddsUp(cur)'
<1>1. PICK carried, before, kept, old : /\ carried = Carried(op, pc, mem, cur)
                                        /\ before = InFlightOf(c, cur)
                                        /\ kept = HeldOf(row, cur) /\ old = HeldBy(a, cur)
  OBVIOUS
<1>2. /\ AllInFlight(cur) \in Int /\ before \in Int /\ carried \in Int
      /\ AllInFlight(cur)' = AllInFlight(cur) + (carried - before)
  BY <1>1, FlightTurns
<1>3. /\ kept \in Int /\ old \in Int
      /\ AllHeld(cur)' = AllHeld(cur) + (kept - old)
  BY <1>1, HoldingChanges
<1>4. AllBalances(cur) \in Int /\ AllRefunds(cur) \in Int
  BY MoneyTyped
<1>5. AllBalances(cur)' = AllBalances(cur) + 0 /\ AllRefunds(cur)' = AllRefunds(cur) + 0
  BY <1>4, MoneyStays
<1>6. carried + kept = before + old
  BY <1>1
<1>7. /\ carried - before \in Int /\ kept - old \in Int
      /\ 0 + (kept - old) + (carried - before) = 0
  BY ONLY <1>2, <1>3, <1>6
<1>8. AddsUp(cur) /\ 0 \in Int
  OBVIOUS
<1> QED BY <1>2, <1>3, <1>5, <1>7, <1>8, SumsMove

\* Most calls carry nothing.
LEMMA CarriesNone ==
  ASSUME NEW op, NEW pc, NEW m, NEW cur,
         ~(op = "ad" /\ pc \in {"insert", "undo"}),
         ~(op = "order" /\ pc \in {"taker", "maker", "update"})
  PROVE  Carried(op, pc, m, cur) = 0
BY DEF Carried

LEMMA CarriesHeld ==
  ASSUME NEW pc \in {"insert", "undo"}, NEW ad \in AdRows, NEW cur
  PROVE  Carried("ad", pc, ad, cur) = HeldOf(ad, cur)
<1>1. ad # NoAd
  BY DEF AdRows, AdStatuses, NoAd
<1>2. HeldFor(ad, ad.remaining) \in Int
  BY HeldTyped
<1> QED BY <1>1, <1>2 DEF Carried, HeldOf

LEMMA CarriesSwap ==
  ASSUME NEW m, m.ad \in AdRows, m.taker \in Users, m.amount \in Amounts, NEW cur
  PROVE  LET given == IF CurrencyOf(TakerGives(m)) = cur THEN Given(m) ELSE 0
             gotten == IF CurrencyOf(TakerGets(m)) = cur THEN Gotten(m) ELSE 0
         IN  /\ given \in Int /\ gotten \in Int
             /\ Carried("order", "taker", m, cur) = given
             /\ Carried("order", "maker", m, cur) = given - gotten
             /\ Carried("order", "update", m, cur) = -gotten
<1>1. Given(m) \in Int /\ Gotten(m) \in Int
  BY SwapTyped
<1> QED BY <1>1 DEF Carried

\* What call c's turn leaves it with is typed.
LEMMA TurnTyped ==
  ASSUME CallsOK', NEW c \in Workers, NEW op, NEW pc, NEW on, NEW mem,
         Turns(c, op, pc, on, mem)
  PROVE  MarketTyped(op, pc, on, mem)
<1>1. CallTyped(calls'[c].op, calls'[c].pc, calls'[c].on, calls'[c].mem)
  BY DEF CallsOK
<1> QED BY <1>1 DEF Turns, CallTyped

LEMMA CallsBegin ==
  ASSUME CallsOK, RacesOK, LedgerOK, MarketOK, MarketAlone, Steady, CallsOK',
         NEW c \in Workers, NEW op, NEW pc, NEW on, NEW mem, Begin(c, op, pc, on, mem),
         op \in {"ad", "status", "order"}, pc \in {"debit", "look"}, op = "order" => pc = "look",
         UNCHANGED money, UNCHANGED p2pVars
  PROVE  Steady'
<1>1. Turns(c, op, pc, on, mem) /\ calls[c].op = "idle"
  BY BeginTurns DEF CallsOK
<1>2. MarketTyped(op, pc, on, mem)
  BY <1>1, TurnTyped
<1>3. \A cur \in Currencies : InFlightOf(c, cur) = 0
  BY <1>1, CarriedIs, CarriesNone
<1>4. \A cur \in Currencies : Carried(op, pc, mem, cur) = 0
  BY CarriesNone
<1>5. UNCHANGED <<wallets, ledger>> /\ ads' = ads
  BY DEF money, p2pVars
<1> QED BY <1>1, <1>2, <1>3, <1>4, <1>5, SteadyLooks

\* A call ends that carries nothing.
LEMMA CallsEnd ==
  ASSUME CallsOK, RacesOK, LedgerOK, MarketOK, MarketAlone, Steady,
         NEW c \in Workers, Finish(c), UNCHANGED <<wallets, ledger>>, ads' = ads,
         \A cur \in Currencies : InFlightOf(c, cur) = 0
  PROVE  Steady'
<1>1. Turns(c, "idle", "idle", Nothing, Nothing)
  BY FinishTurns DEF CallsOK
<1>2. MarketTyped("idle", "idle", Nothing, Nothing)
  BY DEF MarketTyped, MarketOps
<1>3. \A cur \in Currencies : Carried("idle", "idle", Nothing, cur) = 0
  BY CarriesNone
<1> QED BY <1>1, <1>2, <1>3, SteadyLooks

\* What a call for a new advertisement takes from its maker.
LEMMA AdSteady ==
  ASSUME CallsOK, RacesOK, LedgerOK, MarketOK, MarketAlone, Steady, CallsOK',
         NEW c \in Workers, DebitAd(c) \/ InsertAd(c) \/ InsertAdFails(c) \/ UndoAd(c)
  PROVE  Steady'
<1>1. PICK a, on, pc, ad, w, kept, less, ref :
        /\ a = TheAd(c) /\ on = calls[c].on /\ pc = calls[c].pc /\ ad = calls[c].mem
        /\ w = HeldIn(calls[c].mem) /\ kept = HeldFor(calls[c].mem, calls[c].mem.remaining)
        /\ less = -HeldFor(calls[c].mem, calls[c].mem.remaining) /\ ref = AdRef(TheAd(c))
  OBVIOUS
<1>2. calls[c].op = "ad" /\ pc \in {"debit", "insert", "undo"}
  BY <1>1 DEF DebitAd, InsertAd, InsertAdFails, UndoAd, At
<1>3. /\ a \in AdIds /\ ad \in AdRows /\ ads[a] = NoAd
      /\ MarketTyped("ad", pc, on, ad)
  BY <1>1, <1>2, MarketCallKnown DEF MarketOps, MarketTyped, MarketCall
<1>4. w \in Wallets /\ kept \in Int /\ less \in Int /\ less = -kept
  <2>1. HeldIn(ad) \in Wallets /\ HeldFor(ad, ad.remaining) \in Nat
    BY <1>3, HeldTyped
  <2> QED BY <1>1, <2>1
<1>5. ref \in Refs /\ ref[1] # "refund"
  BY <1>1, <1>3 DEF AdRef, Refs
<1>6. \A cur \in Currencies :
         InFlightOf(c, cur) = IF pc = "debit" THEN 0
                              ELSE IF CurrencyOf(w) = cur THEN kept ELSE 0
  BY <1>1, <1>2, <1>3, CarriedIs, CarriesNone, CarriesHeld DEF HeldOf, AdRows, AdStatuses, NoAd
<1>7. \A cur \in Currencies : HeldOf(ad, cur) = IF CurrencyOf(w) = cur THEN kept ELSE 0
  <2>1. ad # NoAd
    BY <1>3 DEF AdRows, AdStatuses, NoAd
  <2> QED BY <1>1, <2>1 DEF HeldOf
<1>8. \A cur \in Currencies : Carried("idle", "idle", Nothing, cur) = 0
  BY CarriesNone
<1>9. MarketTyped("idle", "idle", Nothing, Nothing)
  BY DEF MarketTyped, MarketOps
<1>10. Finish(c) => Turns(c, "idle", "idle", Nothing, Nothing)
  BY FinishTurns DEF CallsOK
<1>11. CASE DebitAd(c)
  <2>1. CASE Finish(c)
    <3>1. UNCHANGED <<wallets, ledger>> \/ Goto(c, "insert")
      BY <1>11 DEF DebitAd, Refused
    <3>2. ~Goto(c, "insert")
      <4>1. SUFFICES ASSUME Goto(c, "insert") PROVE FALSE
        OBVIOUS
      <4>2. Turns(c, "ad", "insert", on, ad)
        BY <1>1, <1>2, <4>1, GotoTurns DEF CallsOK
      <4> QED BY <1>10, <2>1, <4>2 DEF Turns
    <3>3. ads' = ads /\ pc = "debit"
      BY <1>1, <1>11 DEF DebitAd, At, p2pVars
    <3> QED BY <1>6, <2>1, <3>1, <3>2, <3>3, CallsEnd
  <2>2. CASE Goto(c, "insert") /\ Post(Moves(w, less, 0, ref))
    <3>1. Turns(c, "ad", "insert", on, ad)
      BY <1>1, <1>2, <2>2, GotoTurns DEF CallsOK
    <3>2. MarketTyped("ad", "insert", on, ad)
      BY <3>1, TurnTyped
    <3>3. ads' = ads /\ rowLock' = rowLock /\ pc = "debit"
      BY <1>1, <1>11 DEF DebitAd, At, p2pVars
    <3>4. \A cur \in Currencies :
             Carried("ad", "insert", ad, cur) + (IF CurrencyOf(w) = cur THEN less ELSE 0)
             = InFlightOf(c, cur)
      BY <1>3, <1>4, <1>6, <1>7, <3>3, CarriesHeld
    <3> QED BY <1>4, <1>5, <2>2, <3>1, <3>2, <3>3, <3>4, SteadyPosts
  <2> QED BY <1>1, <1>11, <2>1, <2>2 DEF DebitAd, DebitBalance
<1>12. CASE InsertAd(c)
  <2>1. /\ ads' = [ads EXCEPT ![a] = ad] /\ Finish(c) /\ pc = "insert"
        /\ UNCHANGED <<wallets, ledger>>
    BY <1>1, <1>12 DEF InsertAd, At, money
  <2>2. \A cur \in Currencies :
           Carried("idle", "idle", Nothing, cur) + HeldOf(ad, cur)
           = InFlightOf(c, cur) + HeldBy(a, cur)
    <3>1. \A cur \in Currencies : HeldBy(a, cur) = 0
      BY <1>1, <1>3, HeldByIs DEF HeldOf
    <3> QED BY <1>4, <1>6, <1>7, <1>8, <2>1, <3>1
  <2>3. calls[c].op \in MarketOps /\ Turns(c, "idle", "idle", Nothing, Nothing)
    BY <1>2, <1>10, <2>1 DEF MarketOps
  <2>4. \A b \in AdIds : b # a => ads'[b] = ads[b]
    BY <1>3, <2>1 DEF MarketOK, P2PTypeOK
  <2>5. \A d \in Workers : Fresh(d)'
    BY <1>1, <2>3, <2>4, FreshTurns DEF Steady
  <2>6. \A cur \in Currencies : AddsUp(cur)'
    BY <1>3, <1>9, <2>1, <2>2, <2>3, HoldsAddUp DEF Steady
  <2> QED BY <2>5, <2>6 DEF Steady
<1>13. CASE InsertAdFails(c)
  <2>1. /\ Goto(c, "undo") /\ pc = "insert" /\ UNCHANGED <<wallets, ledger>> /\ ads' = ads
    BY <1>1, <1>13 DEF InsertAdFails, At, money, p2pVars
  <2>2. Turns(c, "ad", "undo", on, ad)
    BY <1>1, <1>2, <2>1, GotoTurns DEF CallsOK
  <2>3. MarketTyped("ad", "undo", on, ad)
    BY <2>2, TurnTyped
  <2>4. \A cur \in Currencies : Carried("ad", "undo", ad, cur) = InFlightOf(c, cur)
    BY <1>3, <1>6, <1>7, <2>1, CarriesHeld
  <2> QED BY <2>1, <2>2, <2>3, <2>4, SteadyLooks
<1>14. CASE UndoAd(c)
  <2>1. /\ Finish(c) /\ pc = "undo" /\ ads' = ads /\ rowLock' = rowLock
        /\ Post(Moves(w, kept, 0, ref))
    BY <1>1, <1>14 DEF UndoAd, At, p2pVars, CreditBalance
  <2>2. \A cur \in Currencies :
           Carried("idle", "idle", Nothing, cur) + (IF CurrencyOf(w) = cur THEN kept ELSE 0)
           = InFlightOf(c, cur)
    BY <1>4, <1>6, <1>8, <2>1
  <2> QED BY <1>4, <1>5, <1>9, <1>10, <2>1, <2>2, SteadyPosts
<1> QED BY <1>11, <1>12, <1>13, <1>14

\* The maker's changes of status, and the refunds of those that cancel.
LEMMA StatusSteady ==
  ASSUME CallsOK, RacesOK, LedgerOK, MarketOK, MarketAlone, Steady, CallsOK',
         NEW c \in Workers, LookAtAd(c) \/ WriteAdStatus(c) \/ RefundAd(c)
  PROVE  Steady'
<1>1. PICK a, on, pc, mem : /\ a = TheAd(c) /\ on = calls[c].on /\ pc = calls[c].pc
                            /\ mem = calls[c].mem
  OBVIOUS
<1>2. calls[c].op = "status"
  BY DEF LookAtAd, WriteAdStatus, RefundAd, At
<1>3. /\ a \in AdIds /\ ads[a] # NoAd /\ MarketTyped("status", pc, on, mem)
  BY <1>1, <1>2, MarketCallKnown DEF MarketOps, MarketCall
<1>4. \A cur \in Currencies : InFlightOf(c, cur) = 0
  BY <1>2, CarriedIs, CarriesNone
<1>5. \A cur \in Currencies : Carried("idle", "idle", Nothing, cur) = 0
  BY CarriesNone
<1>6. MarketTyped("idle", "idle", Nothing, Nothing)
  BY DEF MarketTyped, MarketOps
<1>7. Finish(c) => Turns(c, "idle", "idle", Nothing, Nothing)
  BY FinishTurns DEF CallsOK
<1>8. CASE LookAtAd(c)
  <2>1. UNCHANGED <<wallets, ledger>> /\ ads' = ads
    BY <1>8 DEF LookAtAd, money, p2pVars
  <2>2. CASE Finish(c)
    BY <1>4, <2>1, <2>2, CallsEnd
  <2>3. ASSUME NEW to, NEW m, Turns(c, "status", to, on, m) PROVE Steady'
    <3>1. MarketTyped("status", to, on, m)
      BY <2>3, TurnTyped
    <3>2. \A cur \in Currencies : Carried("status", to, m, cur) = InFlightOf(c, cur)
      BY <1>4, CarriesNone
    <3> QED BY <2>1, <2>3, <3>1, <3>2, SteadyLooks
  <2>4. CASE Goto(c, "write")
    <3>1. Turns(c, "status", "write", on, mem)
      BY <1>1, <1>2, <2>4, GotoTurns DEF CallsOK
    <3> QED BY <2>3, <3>1
  <2>5. CASE GotoWith(c, "refund", ads[a])
    <3>1. Turns(c, "status", "refund", on, ads[a])
      BY <1>1, <1>2, <2>5, GotoWithTurns DEF CallsOK
    <3> QED BY <2>3, <3>1
  <2> QED BY <1>1, <1>8, <2>2, <2>4, <2>5 DEF LookAtAd
<1>9. CASE WriteAdStatus(c)
  <2>1. /\ UNCHANGED <<wallets, ledger>> /\ Finish(c)
        /\ ads' = IF mem \in AdStatuses THEN [ads EXCEPT ![a].status = mem] ELSE ads
    BY <1>1, <1>9 DEF WriteAdStatus, money
  <2>2. CASE mem \notin AdStatuses
    BY <1>4, <2>1, <2>2, CallsEnd
  <2>3. CASE mem \in AdStatuses
    <3>1. PICK ad, row : ad = ads[a] /\ row = [ad EXCEPT !.status = mem]
      OBVIOUS
    <3>2. ad \in AdRows
      BY <1>3, <3>1 DEF MarketOK, P2PTypeOK, AdRows
    <3>3. /\ row \in AdRows /\ row.type = ad.type /\ row.maker = ad.maker
          /\ row.price = ad.price /\ row.remaining = ad.remaining
      BY ONLY <2>3, <3>1, <3>2 DEF AdRows
    <3>4. ad # NoAd /\ row # NoAd
      BY <3>2, <3>3 DEF AdRows, AdStatuses, NoAd
    <3>5. HeldIn(row) = HeldIn(ad) /\ HeldFor(row, row.remaining) = HeldFor(ad, ad.remaining)
      BY <3>3 DEF HeldIn, HeldFor
    <3>6. \A cur \in Currencies : HeldOf(row, cur) = HeldBy(a, cur)
      BY <1>1, <3>1, <3>4, <3>5, HeldByIs DEF HeldOf
    <3>7. \A cur \in Currencies : HeldOf(row, cur) \in Int
      BY <3>3, HeldOfTyped
    <3>8. \A cur \in Currencies : Carried("idle", "idle", Nothing, cur) + HeldOf(row, cur)
                                  = InFlightOf(c, cur) + HeldBy(a, cur)
      BY <1>4, <1>5, <3>6, <3>7
    <3>9. ads' = [ads EXCEPT ![a] = row] /\ calls[c].op \in MarketOps
      BY <1>1, <1>2, <2>1, <2>3, <3>1 DEF MarketOps
    <3>10. Turns(c, "idle", "idle", Nothing, Nothing)
      BY <1>7, <2>1
    <3>11. \A b \in AdIds : b # a => ads'[b] = ads[b]
      BY <1>3, <3>9 DEF MarketOK, P2PTypeOK
    <3>12. \A d \in Workers : Fresh(d)'
      BY <1>1, <3>9, <3>10, <3>11, FreshTurns DEF Steady
    <3>13. ASSUME NEW cur \in Currencies PROVE AddsUp(cur)'
      <4>1. AddsUp(cur)
        BY DEF Steady
      <4>2. CallsOK /\ LedgerOK /\ MarketOK /\ c \in Workers /\ a \in AdIds
            /\ UNCHANGED <<wallets, ledger>>
        BY <1>3, <2>1
      <4>3. Carried("idle", "idle", Nothing, cur) + HeldOf(row, cur)
            = InFlightOf(c, cur) + HeldBy(a, cur)
        BY <3>8
      <4> QED BY ONLY cur \in Currencies, <1>6, <3>3, <3>9, <3>10, <4>1, <4>2, <4>3, HoldsAddUp
    <3> QED BY <3>12, <3>13 DEF Steady
  <2> QED BY <2>2, <2>3
<1>10. CASE RefundAd(c)
  <2>1. PICK w, kept, ref : /\ w = HeldIn(mem) /\ kept = HeldFor(mem, mem.remaining)
                            /\ ref = RefundRef(a)
    OBVIOUS
  <2>2. /\ pc = "refund" /\ Finish(c) /\ ads' = ads /\ rowLock' = rowLock
        /\ Post(Moves(w, kept, 0, ref))
    BY <1>1, <1>10, <2>1 DEF RefundAd, At, CreditBalance, p2pVars
  <2>3. mem \in AdRows
    BY <1>3, <2>2 DEF MarketTyped
  <2>4. w \in Wallets /\ kept \in Int
    BY <2>1, <2>3, HeldTyped
  <2>5. ref \in Refs
    BY <1>3, <2>1 DEF RefundRef, Refs
  <2>6. rowLock' \in [Wallets -> Workers \cup {NoCall}] /\ 0 \in Int
    BY <2>2 DEF LedgerOK
  <2>7. /\ RecordsOne(w, ref, kept) /\ Changed(w, kept, 0, ref)
        /\ \A v \in Wallets : v # w => Left(v)
    BY <2>2, <2>4, <2>5, <2>6, PostOne
  <2>8. Turns(c, "idle", "idle", Nothing, Nothing)
    BY <1>7, <2>2
  <2>9. \A d \in Workers : Fresh(d)'
    BY <2>2, <2>8, FreshTurns DEF Steady
  <2>10. ASSUME NEW cur \in Currencies PROVE AddsUp(cur)'
    <3>1. PICK db : db = IF CurrencyOf(w) = cur THEN kept ELSE 0
      OBVIOUS
    <3>2. db \in Int
      BY <2>4, <3>1
    <3>3. /\ AllInFlight(cur) \in Int
          /\ AllInFlight(cur)' = AllInFlight(cur)
                + (Carried("idle", "idle", Nothing, cur) - InFlightOf(c, cur))
      BY <1>6, <2>8, FlightTurns
    <3>4. AllInFlight(cur)' = AllInFlight(cur) + 0
      BY <1>4, <1>5, <3>3
    <3>5. AllBalances(cur)' = AllBalances(cur) + db
      BY <2>4, <2>7, <3>1, BalanceMoves
    <3>6. AllRefunds(cur)' = AllRefunds(cur) + db
      BY <1>3, <2>1, <2>4, <2>7, <3>1, RefundAdded
    <3>7. AllHeld(cur)' = AllHeld(cur) + 0
      BY <2>2, HoldingStays, HoldingTyped
    <3>8. AddsUp(cur) /\ db + 0 + 0 = db
      BY <3>2 DEF Steady
    <3> QED BY <2>6, <3>2, <3>3, <3>4, <3>5, <3>6, <3>7, <3>8, SumsMove
  <2> QED BY <2>9, <2>10 DEF Steady
<1> QED BY <1>8, <1>9, <1>10

\* An advertisement that gives up an order's amount.
LEMMA FilledHolds ==
  ASSUME NEW ad \in AdRows, NEW amount \in Amounts, amount <= ad.remaining,
         NEW row \in AdRows, row = Filled(ad, amount)
  PROVE  /\ HeldIn(row) = HeldIn(ad)
         /\ HeldFor(row, row.remaining) = HeldFor(ad, ad.remaining) - HeldFor(ad, amount)
         /\ HeldFor(row, row.remaining) \in Int /\ HeldFor(ad, ad.remaining) \in Int
         /\ HeldFor(ad, amount) \in Int
<1>1. PICK left, status : /\ left = ad.remaining - amount
                          /\ status = IF ad.remaining = amount THEN "completed" ELSE ad.status
  OBVIOUS
<1>2. PICK half : half = [ad EXCEPT !.remaining = left]
  OBVIOUS
<1>3. row = [half EXCEPT !.status = status]
  <2>1. row = [[ad EXCEPT !.remaining = ad.remaining - amount] EXCEPT !.status =
                  IF ad.remaining = amount THEN "completed" ELSE ad.status]
    BY ONLY ad \in AdRows, row = Filled(ad, amount) DEF Filled, AdRows
  <2> QED BY <1>1, <1>2, <2>1
<1>4. amount \in Nat /\ ad.remaining \in Nat /\ ad.price \in Nat
  <2>1. ad.price \in Prices /\ ad.remaining \in Nat
    BY DEF AdRows
  <2> QED BY <2>1, AmountsAssumption, MarketAssumption
<1>5. left \in Nat
  BY <1>1, <1>4
<1>6. /\ half \in AdRows /\ half.remaining = left /\ half.type = ad.type
      /\ half.maker = ad.maker /\ half.price = ad.price
  BY ONLY <1>2, <1>5, ad \in AdRows DEF AdRows
<1>7. /\ row.remaining = left /\ row.type = ad.type /\ row.maker = ad.maker
      /\ row.price = ad.price
  BY ONLY <1>3, <1>6 DEF AdRows
<1>8. PICK r, p : r = ad.remaining /\ p = ad.price
  OBVIOUS
<1>9. /\ left * p = r * p - amount * p /\ left * p \in Int /\ r * p \in Int /\ amount * p \in Int
  BY ONLY <1>1, <1>4, <1>5, <1>8
<1>10. HeldIn(row) = HeldIn(ad)
  BY <1>7 DEF HeldIn
<1>11. CASE ad.type = "buy"
  <2>1. /\ HeldFor(row, row.remaining) = left * p /\ HeldFor(ad, ad.remaining) = r * p
        /\ HeldFor(ad, amount) = amount * p
    BY <1>7, <1>8, <1>11 DEF HeldFor
  <2> QED BY <1>9, <1>10, <2>1
<1>12. CASE ad.type # "buy"
  <2>1. /\ HeldFor(row, row.remaining) = left /\ HeldFor(ad, ad.remaining) = r
        /\ HeldFor(ad, amount) = amount
    BY <1>7, <1>8, <1>12 DEF HeldFor
  <2> QED BY <1>1, <1>4, <1>5, <1>8, <1>10, <2>1
<1> QED BY <1>11, <1>12

\* An order's call that has read its advertisement: the swap, in three moves.
LEMMA SwapSteady ==
  ASSUME CallsOK, RacesOK, LedgerOK, MarketOK, MarketAlone, Steady, CallsOK',
         NEW c \in Workers, DebitTaker(c) \/ CreditTaker(c) \/ CreditMaker(c)
  PROVE  Steady'
<1>1. PICK on, pc, m, ref : /\ on = calls[c].on /\ pc = calls[c].pc /\ m = calls[c].mem
                            /\ ref = OrderRef(calls[c].mem.id)
  OBVIOUS
<1>2. /\ calls[c].op = "order" /\ pc \in {"debit", "taker", "maker"}
      /\ ads' = ads /\ rowLock' = rowLock
  BY <1>1 DEF DebitTaker, CreditTaker, CreditMaker, At, p2pVars
<1>3. /\ m.ad \in AdRows /\ m.taker \in Users /\ m.amount \in Amounts
      /\ ref \in Refs /\ ref[1] = "order"
  <2>1. pc # "look"
    BY <1>2
  <2> QED BY <1>1, <1>2, <2>1, OrderKnown
<1>4. m.ad = ads[on[2]]
  BY <1>1, <1>2 DEF Steady, Fresh, TheAd
<1>5. PICK v, w, u, given, less, gotten :
        /\ v = TakerGives(m) /\ w = TakerGets(m) /\ u = MakerGets(m)
        /\ given = Given(m) /\ less = -Given(m) /\ gotten = Gotten(m)
  OBVIOUS
<1>6. /\ v \in Wallets /\ w \in Wallets /\ u \in Wallets /\ CurrencyOf(u) = CurrencyOf(v)
      /\ given \in Int /\ gotten \in Int /\ less \in Int /\ less = -given
  <2>1. /\ TakerGives(m) \in Wallets /\ TakerGets(m) \in Wallets /\ MakerGets(m) \in Wallets
        /\ Given(m) \in Nat /\ Gotten(m) \in Nat
    BY <1>3, SwapTyped
  <2>2. CurrencyOf(MakerGets(m)) = CurrencyOf(TakerGives(m))
    BY DEF MakerGets, CurrencyOf
  <2> QED BY <1>5, <2>1, <2>2
<1>7. ASSUME NEW cur \in Currencies
      PROVE  LET x == IF CurrencyOf(v) = cur THEN given ELSE 0
                 y == IF CurrencyOf(w) = cur THEN gotten ELSE 0
             IN  /\ Carried("order", "debit", m, cur) = 0
                 /\ Carried("order", "taker", m, cur) = x
                 /\ Carried("order", "maker", m, cur) = x - y
                 /\ Carried("order", "update", m, cur) = -y
                 /\ InFlightOf(c, cur) = Carried("order", pc, m, cur)
  <2>1. Carried("order", "debit", m, cur) = 0
    BY CarriesNone
  <2>2. InFlightOf(c, cur) = Carried("order", pc, m, cur)
    BY <1>1, <1>2, CarriedIs
  <2> QED BY <1>3, <1>5, <2>1, <2>2, CarriesSwap
<1>8. ASSUME NEW to, Goto(c, to)
      PROVE  Turns(c, "order", to, on, m) /\ MarketTyped("order", to, on, m)
  <2>1. Turns(c, "order", to, on, m)
    BY <1>1, <1>2, <1>8, GotoTurns DEF CallsOK
  <2> QED BY <2>1, TurnTyped
<1>9. ref[1] # "refund"
  BY <1>3
<1>10. CASE Finish(c) /\ UNCHANGED <<wallets, ledger>> /\ pc = "debit"
  <2>1. \A cur \in Currencies : InFlightOf(c, cur) = 0
    BY <1>7, <1>10
  <2> QED BY <1>2, <1>10, <2>1, CallsEnd
<1>11. CASE Post(Moves(v, less, 0, ref)) /\ Goto(c, "taker") /\ pc = "debit"
  <2>1. \A cur \in Currencies :
           Carried("order", "taker", m, cur) + (IF CurrencyOf(v) = cur THEN less ELSE 0)
           = InFlightOf(c, cur)
    BY <1>6, <1>7, <1>11
  <2>2. Turns(c, "order", "taker", on, m) /\ MarketTyped("order", "taker", on, m)
    BY <1>8, <1>11
  <2> QED BY <1>2, <1>3, <1>4, <1>6, <1>9, <1>11, <2>1, <2>2, SteadyPosts
<1>12. CASE Post(Moves(w, gotten, 0, ref)) /\ Goto(c, "maker") /\ pc = "taker"
  <2>1. \A cur \in Currencies :
           Carried("order", "maker", m, cur) + (IF CurrencyOf(w) = cur THEN gotten ELSE 0)
           = InFlightOf(c, cur)
    BY <1>6, <1>7, <1>12
  <2>2. Turns(c, "order", "maker", on, m) /\ MarketTyped("order", "maker", on, m)
    BY <1>8, <1>12
  <2> QED BY <1>2, <1>3, <1>4, <1>6, <1>9, <1>12, <2>1, <2>2, SteadyPosts
<1>13. CASE Post(Moves(u, given, 0, ref)) /\ Goto(c, "update") /\ pc = "maker"
  <2>1. \A cur \in Currencies :
           Carried("order", "update", m, cur) + (IF CurrencyOf(u) = cur THEN given ELSE 0)
           = InFlightOf(c, cur)
    BY <1>6, <1>7, <1>13
  <2>2. Turns(c, "order", "update", on, m) /\ MarketTyped("order", "update", on, m)
    BY <1>8, <1>13
  <2> QED BY <1>2, <1>3, <1>4, <1>6, <1>9, <1>13, <2>1, <2>2, SteadyPosts
<1>14. \/ Finish(c) /\ UNCHANGED <<wallets, ledger>> /\ pc = "debit"
       \/ Post(Moves(v, less, 0, ref)) /\ Goto(c, "taker") /\ pc = "debit"
       \/ Post(Moves(w, gotten, 0, ref)) /\ Goto(c, "maker") /\ pc = "taker"
       \/ Post(Moves(u, given, 0, ref)) /\ Goto(c, "update") /\ pc = "maker"
  BY <1>1, <1>5 DEF DebitTaker, CreditTaker, CreditMaker, At, DebitBalance, Refused,
                    CreditBalance
<1> QED BY <1>10, <1>11, <1>12, <1>13, <1>14

\* The other steps of an order.
LEMMA OrderSteady ==
  ASSUME CallsOK, RacesOK, LedgerOK, MarketOK, MarketAlone, Steady, CallsOK', MarketOK',
         NEW c \in Workers, ReadAd(c) \/ UpdateAd(c) \/ InsertOrder(c)
  PROVE  Steady'
<1>1. PICK a, on, pc, m : /\ a = TheAd(c) /\ on = calls[c].on /\ pc = calls[c].pc
                          /\ m = calls[c].mem
  OBVIOUS
<1>2. calls[c].op = "order" /\ UNCHANGED <<wallets, ledger>>
  BY DEF ReadAd, UpdateAd, InsertOrder, At, money
<1>3. a \in AdIds /\ a = on[2] /\ calls[c].op \in MarketOps
  BY <1>1, <1>2, MarketCallKnown DEF MarketOps
<1>4. \A cur \in Currencies : InFlightOf(c, cur) = Carried("order", pc, m, cur)
  BY <1>1, <1>2, CarriedIs
<1>5. CASE ReadAd(c)
  <2>1. ads' = ads /\ pc = "look"
    BY <1>1, <1>5 DEF ReadAd, At, p2pVars
  <2>2. \A cur \in Currencies : InFlightOf(c, cur) = 0
    BY <1>4, <2>1, CarriesNone
  <2>3. CASE Finish(c)
    BY <1>2, <2>1, <2>2, <2>3, CallsEnd
  <2>4. CASE GotoWith(c, "debit", [m EXCEPT !.ad = ads[a]])
    <3>1. PICK ad, n : ad = ads[a] /\ n = [m EXCEPT !.ad = ads[a]]
      OBVIOUS
    <3>2. m = [id |-> m.id, ad |-> m.ad, taker |-> m.taker, amount |-> m.amount]
      BY <1>1, <1>2, <2>1, MarketCallKnown DEF MarketOps, MarketTyped
    <3>3. n.ad = ad
      BY ONLY <3>1, <3>2
    <3>4. Turns(c, "order", "debit", on, n)
      BY <1>1, <1>2, <2>4, <3>1, GotoWithTurns DEF CallsOK
    <3>5. MarketTyped("order", "debit", on, n)
      BY <3>4, TurnTyped
    <3>6. \A cur \in Currencies : Carried("order", "debit", n, cur) = InFlightOf(c, cur)
      BY <2>2, CarriesNone
    <3>7. n.ad = ads[on[2]]
      BY <1>3, <3>1, <3>3
    <3> QED BY <1>2, <2>1, <3>4, <3>5, <3>6, <3>7, SteadyLooks
  <2> QED BY <1>1, <1>5, <2>3, <2>4 DEF ReadAd
<1>6. CASE InsertOrder(c)
  <2>1. ads' = ads /\ pc = "insert" /\ Finish(c)
    BY <1>1, <1>6 DEF InsertOrder, At
  <2>2. \A cur \in Currencies : InFlightOf(c, cur) = 0
    BY <1>4, <2>1, CarriesNone
  <2> QED BY <1>2, <2>1, <2>2, CallsEnd
<1>7. CASE UpdateAd(c)
  <2>1. PICK row : row = Filled(m.ad, m.amount)
    OBVIOUS
  <2>2. pc = "update" /\ Goto(c, "insert") /\ ads' = [ads EXCEPT ![a] = row]
    BY <1>1, <1>7, <2>1 DEF UpdateAd, At
  <2>3. /\ m.ad \in AdRows /\ m.taker \in Users /\ m.amount \in Amounts
        /\ m.amount <= m.ad.remaining /\ ads[a] # NoAd
    BY <1>1, <1>2, <2>2, OrderKnown
  <2>4. Turns(c, "order", "insert", on, m)
    BY <1>1, <1>2, <2>2, GotoTurns DEF CallsOK
  <2>5. MarketTyped("order", "insert", on, m)
    BY <2>4, TurnTyped
  <2>6. m.ad = ads[a]
    BY <1>1, <1>2, <2>2 DEF Steady, Fresh
  <2>7. row \in AdRows
    <3>1. ads'[a] = row
      BY <1>1, <1>3, <2>2 DEF MarketOK, P2PTypeOK
    <3>2. ads'[a] \in AdRows \cup {NoAd}
      BY <1>3 DEF MarketOK, P2PTypeOK, AdRows
    <3>3. ads'[a] # NoAd
      <4>1. OrderCall(calls[c].pc, TheAd(c), calls[c].mem)'
        BY <2>4 DEF MarketOK, MarketCall, Turns
      <4>2. TheAd(c)' = a /\ calls'[c].pc = "insert"
        BY <1>1, <2>4 DEF Turns, TheAd
      <4> QED BY <4>1, <4>2 DEF OrderCall
    <3> QED BY <3>1, <3>2, <3>3
  <2>8. PICK ad, amount : ad = m.ad /\ amount = m.amount
    OBVIOUS
  <2>9. /\ HeldIn(row) = HeldIn(ad)
        /\ HeldFor(row, row.remaining) = HeldFor(ad, ad.remaining) - HeldFor(ad, amount)
        /\ HeldFor(row, row.remaining) \in Int /\ HeldFor(ad, ad.remaining) \in Int
        /\ HeldFor(ad, amount) \in Int
    BY <2>1, <2>3, <2>7, <2>8, FilledHolds
  <2>10. CurrencyOf(HeldIn(ad)) = CurrencyOf(TakerGets(m)) /\ HeldFor(ad, amount) = Gotten(m)
    <3>1. CASE ad.type = "buy"
      BY <2>8, <3>1 DEF HeldIn, TakerGets, CurrencyOf, HeldFor, Gotten, Total
    <3>2. CASE ad.type # "buy"
      BY <2>8, <3>2 DEF HeldIn, TakerGets, CurrencyOf, HeldFor, Gotten, Total
    <3> QED BY <3>1, <3>2
  <2>11. ASSUME NEW cur \in Currencies
         PROVE  Carried("order", "insert", m, cur) + HeldOf(row, cur)
                = InFlightOf(c, cur) + HeldBy(a, cur)
    <3>1. Carried("order", "insert", m, cur) = 0
      BY CarriesNone
    <3>2. InFlightOf(c, cur) = -(IF CurrencyOf(TakerGets(m)) = cur THEN Gotten(m) ELSE 0)
      BY <1>4, <2>2, <2>3, CarriesSwap
    <3>3. row # NoAd /\ ad # NoAd
      BY <2>3, <2>7, <2>8 DEF AdRows, AdStatuses, NoAd
    <3>4. HeldBy(a, cur) = HeldOf(ad, cur)
      BY <1>1, <2>6, <2>8, HeldByIs
    <3>5. PICK x, y, z, cy : /\ x = HeldFor(row, row.remaining) /\ y = HeldFor(ad, ad.remaining)
                             /\ z = Gotten(m) /\ cy = CurrencyOf(TakerGets(m))
      OBVIOUS
    <3>6. x = y - z /\ x \in Int /\ y \in Int /\ z \in Int
      BY <2>9, <2>10, <3>5
    <3>7. /\ HeldOf(row, cur) = IF cy = cur THEN x ELSE 0
          /\ HeldOf(ad, cur) = IF cy = cur THEN y ELSE 0
      BY <2>9, <2>10, <3>3, <3>5 DEF HeldOf
    <3> QED BY <3>1, <3>2, <3>4, <3>5, <3>6, <3>7
  <2>12. UNCHANGED <<wallets, ledger>>
    BY <1>7 DEF UpdateAd, money
  <2>13. \A b \in AdIds : b # a => ads'[b] = ads[b]
    BY <1>3, <2>2 DEF MarketOK, P2PTypeOK
  <2>14. \A d \in Workers : Fresh(d)'
    BY <1>1, <1>2, <1>3, <2>4, <2>13, FreshTurns DEF Steady
  <2>15. ASSUME NEW cur \in Currencies PROVE AddsUp(cur)'
    <3>1. AddsUp(cur)
      BY DEF Steady
    <3>2. CallsOK /\ LedgerOK /\ MarketOK /\ c \in Workers /\ a \in AdIds
          /\ ads' = [ads EXCEPT ![a] = row]
      BY <1>3, <2>2
    <3>3. Carried("order", "insert", m, cur) + HeldOf(row, cur)
          = InFlightOf(c, cur) + HeldBy(a, cur)
      BY <2>11
    <3> QED BY ONLY cur \in Currencies, <2>4, <2>5, <2>7, <2>12, <3>1, <3>2, <3>3, HoldsAddUp
  <2> QED BY <2>14, <2>15 DEF Steady
<1> QED BY <1>5, <1>6, <1>7

\* A step where the marketplace alone is at work, on each advertisement one
\* call, and none is cut off.
LEMMA TradedSteady ==
  ASSUME CallsOK, RacesOK, LedgerOK, MarketOK, MarketAlone, Steady, CallsOK', MarketOK', P2PNext
  PROVE  Steady'
<1>1. ASSUME NEW c \in Workers, P2PStep(c) PROVE Steady'
  BY <1>1, AdSteady, StatusSteady, SwapSteady, OrderSteady DEF P2PStep
<1>2. ASSUME NEW c \in Workers, NEW a \in AdIds, NEW u, NEW type, NEW price, NEW amount,
             CreateAd(c, a, u, type, price, amount)
      PROVE  Steady'
  BY <1>2, CallsBegin DEF CreateAd
<1>3. ASSUME NEW c \in Workers, NEW a \in AdIds, NEW status, SetAdStatus(c, a, status)
      PROVE  Steady'
  BY <1>3, CallsBegin DEF SetAdStatus
<1>4. ASSUME NEW c \in Workers, NEW a \in AdIds, NEW o, NEW u, NEW amount,
             CreateOrder(c, o, a, u, amount)
      PROVE  Steady'
  BY <1>4, CallsBegin DEF CreateOrder
<1> QED BY <1>1, <1>2, <1>3, <1>4 DEF P2PNext

\* A step that is none of the calls.
LEMMA SteadyStays ==
  ASSUME Steady, UNCHANGED <<wallets, ledger, calls, ads>>
  PROVE  Steady'
<1>1. ASSUME NEW cur \in Currencies PROVE AddsUp(cur)'
  <2>1. /\ AllBalances(cur)' = AllBalances(cur) /\ AllRefunds(cur)' = AllRefunds(cur)
        /\ AllHeld(cur)' = AllHeld(cur)
    BY MoneyStays, HoldingStays
  <2>2. AllInFlight(cur)' = AllInFlight(cur)
    BY DEF AllInFlight, Flights, InFlightOf, HeldIn, HeldFor, CurrencyOf, TakerGives, TakerGets,
           Given, Gotten, Total
  <2>3. AllOpened(cur)' = AllOpened(cur)
    BY DEF AllOpened, Openings, OpeningOf
  <2> QED BY <2>1, <2>2, <2>3 DEF Steady, AddsUp
<1>2. \A c \in Workers : Fresh(c)'
  BY DEF Steady, Fresh, TheAd
<1> QED BY <1>1, <1>2 DEF Steady

\* Where only the marketplace's operations are called, the other services do
\* nothing to wallets or calls.
LEMMA OthersIdle ==
  ASSUME CallsOK, DOMAIN work \subseteq MarketOps,
         Deposited \/ Withdrawn \/ OnChain \/ Exchanged \/ Escrowed
  PROVE  UNCHANGED <<wallets, ledger, calls, ads>>
<1>1. \A c \in Workers : calls[c].op \in {"ad", "status", "order", "idle"}
  BY DEF CallsOK, MarketOps
<1>2. \A op : op \in DOMAIN work => op \in {"ad", "status", "order"}
  BY DEF MarketOps
<1>3. CASE Deposited
  <2>1. ASSUME NEW c \in Workers, DepositStep(c) PROVE FALSE
    BY <1>1, <2>1 DEF DepositStep, OpenWallet, OpenPayment, SaveDeposit, VerifyPayment,
       ReadDeposit, CreditDeposit, At
  <2>2. ASSUME NEW c \in Workers, NEW d, NEW w, NEW amount,
               InitiateDeposit(c, d, w, amount) \/ CreateDepositIntent(c, d, w, amount)
        PROVE  FALSE
    BY <1>2, <2>2 DEF InitiateDeposit, CreateDepositIntent, Begin
  <2>3. ASSUME NEW c \in Workers, NEW d, DepositWebhook(c, d) \/ VerifyDeposit(c, d)
        PROVE  FALSE
    BY <1>2, <2>3 DEF DepositWebhook, VerifyDeposit, Begin
  <2>4. PICK d \in DepositIds : Pay(d) \/ Expire(d)
    BY <1>3, <2>1, <2>2, <2>3 DEF Deposited, DepositNext
  <2>5. UNCHANGED money /\ UNCHANGED control /\ UNCHANGED p2pVars
    BY <1>3, <2>4 DEF Deposited, Pay, Expire, money, control
  <2> QED BY <2>5 DEF money, control, p2pVars
<1>4. CASE Withdrawn
  <2>1. ASSUME NEW c \in Workers, WithdrawalStep(c) PROVE FALSE
    BY <1>1, <2>1 DEF WithdrawalStep, Reserve, AtPayout, Payout, PayoutRefused, PayoutLost,
       Settle, ReleaseLock, Credit, Debit, At
  <2>2. ASSUME NEW c \in Workers, NEW w, NEW amount,
               \/ \E x \in WithdrawalIds : InitiateWithdrawal(c, x, w, amount)
               \/ AdminCredit(c, w, amount) \/ AdminDebit(c, w, amount)
        PROVE  FALSE
    BY <1>2, <2>2 DEF InitiateWithdrawal, AdminCredit, AdminDebit, Begin
  <2>3. ASSUME NEW c \in Workers, NEW x, ApproveWithdrawal(c, x) \/ RejectWithdrawal(c, x)
        PROVE  FALSE
    BY <1>2, <2>3 DEF ApproveWithdrawal, RejectWithdrawal, Begin
  <2> QED BY <1>4, <2>1, <2>2, <2>3 DEF Withdrawn, WithdrawalNext
<1>5. CASE OnChain
  <2>1. ASSUME NEW c \in Workers, CryptoStep(c) PROVE FALSE
    BY <1>1, <2>1 DEF CryptoStep, DeriveAddress, SaveAddress, AlreadySeen, FindWallet, CreditTx,
       LockFirst, LockSecond, DebitSend, SendTransaction, SendFails, At
  <2>2. ASSUME NEW c \in Workers, NEW w,
               GetDepositAddress(c, w) \/ \E t \in TxIds : CryptoWebhook(c, t, w)
        PROVE  FALSE
    BY <1>2, <2>2 DEF GetDepositAddress, CryptoWebhook, Begin
  <2>3. ASSUME NEW c \in Workers, NEW w, NEW v, NEW amount,
               Transfer(c, w, v, amount) \/ InitiateCryptoWithdrawal(c, v, w, amount)
        PROVE  FALSE
    BY <1>2, <2>3 DEF Transfer, InitiateCryptoWithdrawal, Begin
  <2>4. ASSUME NEW t, NEW w, NEW amount, SendOnChain(t, w, amount) PROVE FALSE
    BY <1>2, <2>4 DEF SendOnChain, MayName
  <2> QED BY <1>5, <2>1, <2>2, <2>3, <2>4 DEF OnChain, CryptoNext
<1>6. CASE Escrowed
  BY <1>2, <1>6 DEF Escrowed
<1>7. CASE Exchanged
  <2>1. ASSUME NEW w, EnsureBalance(w) \/ \E a \in Amounts : LockBalance(w, a) \/ UnlockBalance(w, a)
        PROVE  FALSE
    BY <1>2, <2>1 DEF LockBalance, UnlockBalance, EnsureBalance, MayName
  <2>2. ASSUME NEW maker, NEW taker, NEW give, NEW take, NEW given, NEW taken, NEW unlock,
               SettleTrade(maker, taker, give, take, given, taken, unlock)
        PROVE  FALSE
    BY <1>2, <2>2 DEF SettleTrade, MayName
  <2> QED BY <1>7, <2>1, <2>2 DEF Exchanged, TradingNext
<1> QED BY <1>3, <1>4, <1>5, <1>6, <1>7

\* What was not disturbed after a step was not before it.
LEMMA AloneBefore ==
  ASSUME raced \subseteq raced', hurt \subseteq hurt', work' = work, MarketAlone'
  PROVE  MarketAlone
BY DEF MarketAlone, Undisturbed, AdRef

LEMMA HurtGrows ==
  ASSUME Inv, Next
  PROVE  hurt \subseteq hurt'
<1>1. /\ CallsOK /\ LedgerOK /\ RacesOK /\ DepositOK /\ WithdrawalOK /\ CryptoOK /\ MarketOK
      /\ TradingTypeOK /\ CopiesOK
  BY DEF Inv
<1>2. RacesOK' /\ raced \subseteq raced'
  BY <1>1, RacesAreKnown DEF Next
<1>3. CASE Deposited
  BY <1>1, <1>2, <1>3, DepositSteps DEF Deposited, DepositStepped
<1>4. CASE Withdrawn
  BY <1>1, <1>2, <1>4, WithdrawalSteps DEF Withdrawn, WithdrawalStepped
<1>5. CASE OnChain
  BY <1>1, <1>2, <1>5, CryptoSteps DEF OnChain, CryptoStepped
<1>6. CASE Traded
  BY <1>1, <1>6, MarketSteps DEF Traded, MarketStepped
<1>7. CASE Escrowed
  BY <1>7 DEF Escrowed, control
<1>8. CASE Interrupted
  BY <1>8 DEF Interrupted, CutOff
<1>9. CASE Exchanged
  <2>1. UNCHANGED withdrawals
    BY <1>9 DEF Exchanged, withdrawalVars
  <2>2. TradingStepped
    BY <1>1, <1>2, <1>9, <2>1, TradingSteps DEF Exchanged, WithdrawalOK
  <2> QED BY <2>2 DEF TradingStepped, control
<1> QED BY <1>3, <1>4, <1>5, <1>6, <1>7, <1>8, <1>9 DEF Next

LEMMA MarketInvNext ==
  ASSUME Inv, Inv', MarketInv, Next
  PROVE  MarketInv'
<1> SUFFICES ASSUME MarketAlone' PROVE Steady'
  BY DEF MarketInv, Steady
<1>1. /\ CallsOK /\ LedgerOK /\ RacesOK /\ MarketOK /\ CallsOK' /\ MarketOK'
  BY DEF Inv
<1>2. raced \subseteq raced' /\ hurt \subseteq hurt' /\ work' = work
  BY <1>1, RacesAreKnown, HurtGrows, WorkStays DEF Next
<1>3. MarketAlone
  BY <1>2, AloneBefore
<1>4. Steady
  BY <1>3 DEF MarketInv, Steady
<1>5. CASE Traded
  BY <1>1, <1>3, <1>4, <1>5, TradedSteady DEF Traded
<1>6. CASE Deposited \/ Withdrawn \/ OnChain \/ Exchanged \/ Escrowed
  <2>1. UNCHANGED <<wallets, ledger, calls, ads>>
    BY <1>1, <1>3, <1>6, OthersIdle DEF MarketAlone
  <2> QED BY <1>4, <2>1, SteadyStays
<1>7. CASE Interrupted
  <2>1. PICK c \in Workers : CutOff(c)
    BY <1>7 DEF Interrupted
  <2>2. calls[c].op \in DOMAIN work /\ calls[c].on \in hurt'
    BY <1>1, <2>1 DEF CutOff, Busy, CallsOK
  <2>3. TheAd(c) \in AdIds /\ calls[c].on = AdRef(TheAd(c))
    BY <1>1, <1>3, <2>2, MarketCallKnown DEF MarketAlone
  <2>4. \A a \in AdIds : AdRef(a) \notin hurt'
    BY DEF MarketAlone, Undisturbed, AdRef
  <2> QED BY <2>2, <2>3, <2>4
<1> QED BY <1>5, <1>6, <1>7 DEF Next

LEMMA MarketInvStays ==
  ASSUME MarketInv, UNCHANGED vars
  PROVE  MarketInv'
<1>1. /\ UNCHANGED <<wallets, ledger, calls, ads>> /\ raced' = raced /\ hurt' = hurt
      /\ work' = work
  BY DEF vars, money, control, p2pVars
<1> SUFFICES ASSUME MarketAlone' PROVE Steady'
  BY DEF MarketInv, Steady
<1>2. Steady
  BY <1>1, AloneBefore DEF MarketInv, Steady
<1> QED BY <1>1, <1>2, SteadyStays

LEMMA SumNothing ==
  ASSUME NEW f, NEW S, IsFiniteSet(S), \A x \in S : f[x] = 0
  PROVE  SumOver(f, S) = 0
<1>1. Cardinality(S) \in Nat
  BY FS_CardinalityType
<1>2. SumOver(f, S) = 0 * Cardinality(S)
  BY SumConstant
<1> QED BY <1>1, <1>2

LEMMA MarketInvInit ==
  ASSUME Init
  PROVE  MarketInv
<1>1. /\ wallets = [w \in Wallets |-> [made |-> w \in Funded, locked |-> 0,
                                       balance |-> OpeningOf(w)]]
      /\ ledger = [w \in Wallets |-> <<>>] /\ calls = [c \in Workers |-> Idle]
      /\ ads = [a \in AdIds |-> NoAd]
  BY DEF Init, LedgerInit, P2PInit
<1>2. \A c \in Workers : calls[c].op = "idle"
  BY <1>1 DEF Idle
<1>3. \A c \in Workers : Fresh(c)
  BY <1>2 DEF Fresh
<1>4. ASSUME NEW cur \in Currencies PROVE AddsUp(cur)
  <2>1. PICK balances, openings : balances = Balances(cur) /\ openings = Openings(cur)
    OBVIOUS
  <2>2. \A u \in Users : balances[u] = openings[u]
    BY <1>1, <2>1 DEF Balances, Openings, Wallets
  <2>3. AllBalances(cur) = AllOpened(cur)
    BY <2>1, <2>2, UsersAssumption, SumSame DEF AllBalances, AllOpened
  <2>4. AllHeld(cur) = 0
    <3>1. PICK f : f = Holdings(cur)
      OBVIOUS
    <3>2. \A a \in AdIds : f[a] = 0
      BY <1>1, <3>1 DEF Holdings, HeldBy
    <3> QED BY <3>1, <3>2, MarketAssumption, SumNothing DEF AllHeld
  <2>5. AllInFlight(cur) = 0
    <3>1. PICK f : f = Flights(cur)
      OBVIOUS
    <3>2. \A c \in Workers : InFlightOf(c, cur) = 0
      BY <1>2, CarriedIs, CarriesNone
    <3>3. \A c \in Workers : f[c] = 0
      BY <3>1, <3>2 DEF Flights
    <3> QED BY <3>1, <3>3, WorkersAssumption, SumNothing DEF AllInFlight
  <2>6. AllRefunds(cur) = 0
    <3>1. ASSUME NEW w \in Wallets, NEW ref PROVE MovedSum(w, ref) = 0
      <4>1. EntriesOf(w, ref) = {}
        BY <1>1 DEF EntriesOf
      <4> QED BY <4>1, SumOfNone DEF MovedSum
    <3>2. ASSUME NEW a \in AdIds PROVE RefundSum(a, cur) = 0
      <4>1. PICK f : f = RefundParts(a, cur)
        OBVIOUS
      <4>2. \A u \in Users : f[u] = 0
        BY <3>1, <4>1 DEF RefundParts, Wallets
      <4> QED BY <4>1, <4>2, UsersAssumption, SumNothing DEF RefundSum
    <3>3. PICK f : f = Refunds(cur)
      OBVIOUS
    <3>4. \A a \in AdIds : f[a] = 0
      BY <3>2, <3>3 DEF Refunds
    <3> QED BY <3>3, <3>4, MarketAssumption, SumNothing DEF AllRefunds
  <2>7. AllOpened(cur) \in Int
    <3>1. \A u \in Users : openings[u] \in Int
      BY <2>1, FundedAssumption DEF Openings, OpeningOf
    <3> QED BY <2>1, <3>1, UsersAssumption, SumType DEF AllOpened
  <2> QED BY <2>3, <2>4, <2>5, <2>6, <2>7 DEF AddsUp
<1> QED BY <1>3, <1>4 DEF MarketInv

THEOREM MarketInvHolds == Spec => []MarketInv
<1>1. Init => MarketInv
  BY MarketInvInit
<1>2. Inv /\ Inv' /\ MarketInv /\ [Next]_vars => MarketInv'
  BY MarketInvNext, MarketInvStays
<1> QED BY <1>1, <1>2, InvHolds, PTL DEF Spec

\* No currency is made or lost by the marketplace, at any step of an order, an
\* advertisement or a cancellation whose calls were not cut off and had their
\* advertisement to themselves: what its services debit, credit and hold in
\* service.go adds up to the opening balances and the refunds.
THEOREM MarketAlwaysConserves == Spec => []P2PConserves
<1>1. MarketInv => P2PConserves
  <2> SUFFICES ASSUME MarketInv, DOMAIN work \subseteq {"ad", "status", "order"},
                      \A a \in AdIds : Undisturbed(AdRef(a)), NEW cur \in Currencies
               PROVE  AddsUp(cur)
    BY DEF P2PConserves, AddsUp, AllBalances, AllHeld, AllInFlight, AllRefunds, AllOpened,
           Balances, Holdings, Flights, Refunds, RefundSum, RefundParts, MovedSum, Deltas,
           Openings, SumOver, RefundsOf, MovedFor
  <2> QED BY DEF MarketInv, MarketAlone, MarketOps
<1> QED BY <1>1, MarketInvHolds, PTL

=============================================================================
