---------------------------- MODULE WalletLedger ----------------------------
(***************************************************************************)
(* The wallet rows and the transactions table (internal/wallet) that every *)
(* custody service writes, and the calls that write them.  A call is the   *)
(* handling of one request or one provider callback: it runs in steps, and *)
(* the steps of different calls interleave.  A database transaction is one *)
(* step when it locks one row; a row lock that is held between two steps   *)
(* is in rowLock.                                                          *)
(*                                                                         *)
(* raced and hurt are history: the things two calls worked on at once, and *)
(* the things a call left half done when it was cut off.                   *)
(***************************************************************************)
EXTENDS Integers, Sequences, FiniteSets

CONSTANTS
    Users,       \* user ids: numbers, since Transfer orders its locks by them
    Currencies,
    Funded,      \* the wallets that exist at the start
    Opening,     \* their balance
    Workers,     \* bound: calls in progress at a time
    Workloads,   \* bound: what the clients of a behaviour do: a function from
                 \* the operations they call to the wallets they name in them
    Amounts,
    House,       \* the market maker's user, whose wallets are topped up
    Target,      \* to this balance
    MaxEntries,  \* bound: a wallet's transactions, for calls that repeat freely
    MaxFaults    \* bound: calls that are cut off between two steps, or get no
                 \* answer to what they asked a provider to do

ASSUME UsersAssumption == Users \subseteq Nat \ {0} /\ IsFiniteSet(Users)
ASSUME CurrenciesAssumption == IsFiniteSet(Currencies)
ASSUME FundedAssumption == Funded \subseteq Users \X Currencies /\ Opening \in Nat
ASSUME AmountsAssumption == Amounts \subseteq Nat \ {0}
ASSUME TargetAssumption == Target \in Nat
ASSUME LedgerBoundsAssumption == MaxEntries \in Nat /\ MaxFaults \in Nat

VARIABLES
    wallets,  \* the wallets table, by <<user, currency>>
    ledger,   \* the transactions table, by wallet, oldest first
    rowLock,  \* the call that holds a wallet's row FOR UPDATE, or NoCall
    calls,    \* the calls in progress, one per worker
    work,     \* the workload of this behaviour
    faults,   \* calls that were cut off or got no answer
    raced, hurt

money == <<wallets, ledger, rowLock>>
control == <<calls, work, faults, hurt>>

-----------------------------------------------------------------------------
Wallets == Users \X Currencies
UserOf(w) == w[1]
CurrencyOf(w) == w[2]
Wallet == [made : BOOLEAN, balance : Int, locked : Int]
OpeningOf(w) == IF w \in Funded THEN Opening ELSE 0
NoCall == 0
NoWallet == <<0, "none">>
Nothing == <<"nothing", 0>>
Idle == [op |-> "idle", pc |-> "idle", on |-> Nothing, mem |-> Nothing]

\* What the transactions table says of thing ref: a ref is <<kind, id>>.
EntriesOf(w, ref) == {i \in DOMAIN ledger[w] : ledger[w][i].ref = ref}
Recorded(ref) == \E w \in Wallets : EntriesOf(w, ref) # {}
RecordedTwice(ref) ==
    \E v, w \in Wallets : \E i \in EntriesOf(v, ref), j \in EntriesOf(w, ref) :
        <<v, i>> # <<w, j>>

Available(w) == wallets[w].balance - wallets[w].locked
MayName(op, w) == op \in DOMAIN work /\ w \in work[op]
Room == \A w \in Wallets : Len(ledger[w]) < MaxEntries
Free(w) == rowLock[w] = NoCall

\* The moves of a transaction: what it adds to a balance and to a lock; a
\* transfer takes from one wallet what it adds to another.
Moves(w, delta, lock, ref) ==
    [v \in {w} |-> [delta |-> delta, lock |-> lock, ref |-> ref]]
MovesBetween(from, to, amount, ref) ==
    [w \in {from, to} |-> [delta |-> IF w = from THEN -amount ELSE amount,
                           lock |-> 0, ref |-> ref]]
EntryOf(row, m) == [ref |-> m.ref, before |-> row.balance, after |-> row.balance + m.delta]
Moved(w, row, m) == [made |-> TRUE, balance |-> row.balance + m.delta,
                     locked |-> wallets[w].locked + m.lock]

\* A transaction commits: every wallet it moves has its new balance and one
\* new row in the transactions table, both computed from the row as the
\* transaction read it.
Commit(rows, moves) ==
    /\ wallets' = [w \in Wallets |-> IF w \in DOMAIN moves
                                     THEN Moved(w, rows[w], moves[w]) ELSE wallets[w]]
    /\ ledger' = [w \in Wallets |->
                    IF w \in DOMAIN moves
                    THEN Append(ledger[w], EntryOf(rows[w], moves[w])) ELSE ledger[w]]

\* The transactions that read a row and write it in one step.
Post(moves) == Commit(wallets, moves)

\* UpdateLocked alone: the balance does not move, nothing is recorded.
Relock(w, lock) ==
    /\ wallets' = [wallets EXCEPT ![w].locked = @ + lock]
    /\ UNCHANGED ledger

\* GetOrCreate of a wallet.
MakeWallet(w) ==
    /\ wallets' = [wallets EXCEPT ![w].made = TRUE]
    /\ UNCHANGED ledger

Busy(c) == calls[c].op # "idle"
At(c, op, pc) == calls[c].op = op /\ calls[c].pc = pc
Goto(c, pc) == calls' = [calls EXCEPT ![c].pc = pc] /\ UNCHANGED <<work, faults, hurt>>
GotoWith(c, pc, mem) ==
    /\ calls' = [calls EXCEPT ![c].pc = pc, ![c].mem = mem]
    /\ UNCHANGED <<work, faults, hurt>>
Finish(c) == calls' = [calls EXCEPT ![c] = Idle] /\ UNCHANGED <<work, faults, hurt>>

\* A request arrives for the first idle worker.
Begin(c, op, pc, on, mem) ==
    /\ op \in DOMAIN work
    /\ ~Busy(c)
    /\ \A b \in Workers : b < c => Busy(b)
    /\ calls' = [calls EXCEPT ![c] = [op |-> op, pc |-> pc, on |-> on, mem |-> mem]]
    /\ UNCHANGED <<work, faults, hurt>>

\* The server stops, the client is gone or the database is away: the call's
\* remaining steps never happen and an open transaction is rolled back.
CutOff(c) ==
    /\ Busy(c)
    /\ faults < MaxFaults
    /\ faults' = faults + 1
    /\ hurt' = hurt \cup {calls[c].on}
    /\ calls' = [calls EXCEPT ![c] = Idle]
    /\ rowLock' = [w \in Wallets |-> IF rowLock[w] = c THEN NoCall ELSE rowLock[w]]
    /\ UNCHANGED <<wallets, ledger, work>>

\* The things two calls are working on.
Overlapping ==
    {calls[c].on : c \in {b \in Workers : \E d \in Workers \ {b} :
                              calls[d].on = calls[b].on}} \ {Nothing}
Undisturbed(thing) == thing \notin raced \cup hurt

-----------------------------------------------------------------------------
LedgerInit ==
    /\ work \in Workloads
    /\ wallets = [w \in Wallets |-> [made |-> w \in Funded, locked |-> 0,
                                     balance |-> OpeningOf(w)]]
    /\ ledger = [w \in Wallets |-> <<>>]
    /\ rowLock = [w \in Wallets |-> NoCall]
    /\ calls = [c \in Workers |-> Idle]
    /\ faults = 0
    /\ raced = {}
    /\ hurt = {}

\* "Transaction records every balance movement for full audit trail"
\* (domain.go): the rows of a wallet start at its opening balance, each goes
\* on from where the one before it ended, and the last ends at the balance the
\* wallet has now.  A transaction that writes a balance from a row it read
\* before another one wrote it breaks the chain.  The top-ups of the house's
\* wallets are not recorded, so there, and only there, a balance may have
\* risen to the target between two rows.
GoesOn(w, from, to) == to = from \/ (UserOf(w) = House /\ from < Target /\ to = Target)
BalanceAfter(w, i) == IF i = 0 THEN OpeningOf(w) ELSE ledger[w][i].after
AuditTrail ==
    \A w \in Wallets :
        /\ \A i \in DOMAIN ledger[w] : GoesOn(w, BalanceAfter(w, i - 1), ledger[w][i].before)
        /\ GoesOn(w, BalanceAfter(w, Len(ledger[w])), wallets[w].balance)
=============================================================================
