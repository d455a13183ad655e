---------------------------- MODULE OrderService ----------------------------
(***************************************************************************)
(* The order service (internal/order/service.go) between three stores that *)
(* no transaction spans: the in-memory order book of one pair              *)
(* (PriceTimeBook), the order rows and trade rows in Postgres, and the     *)
(* wallets behind orderWalletAdapter (cmd/server/server.go).  CreateOrder, *)
(* CancelOrder and the CleanupOpenOrders of a restart are processes; each  *)
(* database statement or wallet transaction is one step, and the steps of  *)
(* different calls interleave.                                             *)
(*                                                                         *)
(* Amounts are in base units: a buyer pays lots * ticks of quote for lots  *)
(* of base.  Float rounding of amounts is abstracted away.                 *)
(***************************************************************************)
EXTENDS EngineOrders, Integers, Functions, FiniteSetsExt

CONSTANTS
    Funds,        \* the balance every user starts with, per currency
    MaxInFlight,  \* bound: calls in progress at a time
    MaxCrashes,   \* bound: crashes of the server
    DbFaults      \* may a database call of a request fail (its client is gone)?

ASSUME FundsAssumption == Funds \in Nat
ASSUME UsersAssumption == IsFiniteSet(Users)
ASSUME BoundsAssumption == MaxInFlight \in Nat /\ MaxCrashes \in Nat
ASSUME DbFaultsAssumption == DbFaults \in BOOLEAN

VARIABLES
    orders, resting, taker, result,  \* the engine's book: see PriceTimeBook
    uuid,     \* engine sequence number -> the CreateOrder call it came from
    rows,     \* the orders table: status and filled quantity, by call
    trades,   \* the trades table
    bal, locked,  \* the wallets, by user and currency
    create,   \* the CreateOrder calls and their local variables
    cancel,   \* the CancelOrder calls, one per order, and their local copy
    boot,     \* the startup cleanup
    crashes

Book == INSTANCE PriceTimeBook

book == <<orders, resting, taker, result>>
wallets == <<bal, locked>>
vars == <<book, uuid, rows, trades, wallets, create, cancel, boot, crashes>>

-----------------------------------------------------------------------------
Calls == 1..MaxOrders   \* an order is named by the call that creates it
Currencies == {"base", "quote"}
Statuses == {"pending", "open", "partially_filled", "filled", "cancelled"}
OpenStatuses == {"pending", "open", "partially_filled"}
NoRow == [status |-> "none", filled |-> 0]
Rows == [status : Statuses, filled : Nat]

CreatePcs == {"new", "check", "lock", "insert", "undo", "submit", "match",
              "settle", "save", "apply", "writeMaker", "writeDropped",
              "unlockDropped", "done", "rejected", "failed", "lost"}
CreateEnds == {"done", "rejected", "failed", "lost"}
CancelPcs == {"new", "engine", "write", "unlock", "done", "failed", "lost"}

\* Fills of a match, by call; what applyResult still has to do with them.
Fills == [maker : Calls, taker : Calls, price : Prices, qty : Nat]
NewCall == [pc |-> "new", req |-> <<>>, fills |-> <<>>, settled |-> 0,
            makers |-> {}, dropped |-> <<>>, rested |-> FALSE,
            target |-> 0, copy |-> NoRow]
NewCancel == [pc |-> "new", copy |-> NoRow]

Req(c) == create[c].req
Spends(o) == IF o.side = "buy" THEN "quote" ELSE "base"
Gets(o) == IF o.side = "buy" THEN "base" ELSE "quote"
Cost(o, lots, price) == IF o.side = "buy" THEN lots * price ELSE lots
Available(u, cur) == bal[u][cur] - locked[u][cur]
SumOf(fills) == FoldFunction(+, 0, [i \in DOMAIN fills |-> fills[i].qty])
Floor0(n) == IF n < 0 THEN 0 ELSE n

LockOfLots(c, filled) == Req(c).qty - filled   \* faulty: no price in it
\* What order c keeps locked when its row says filled lots are done.
LockOf(c, filled) == Cost(Req(c), Req(c).qty - filled, Req(c).price)

DeriveStatus(filled, qty, rested) ==
    IF filled >= qty THEN "filled"
    ELSE IF filled > 0 THEN "partially_filled"
    ELSE IF rested THEN "open"
    ELSE "cancelled"

Active == {c \in Calls : create[c].pc \notin CreateEnds \cup {"new"}}
Cancelling == {c \in Calls : cancel[c].pc \in {"engine", "write", "unlock"}}
MayStart == /\ boot.pc = "up"
            /\ Cardinality(Active) + Cardinality(Cancelling) < MaxInFlight

\* UnlockBalance: the lock of a wallet is released, never below zero.  It runs
\* in a context of its own, which outlives the request's.
Unlock(u, cur, amount) ==
    /\ locked' = [locked EXCEPT ![u][cur] = Floor0(@ - amount)]
    /\ UNCHANGED bal

Goto(c, pc) == create' = [create EXCEPT ![c].pc = pc]

TypeOK ==
    /\ Book!TypeOK
    /\ uuid \in Seq(Calls) /\ Len(uuid) = Len(orders)
    /\ rows \in [Calls -> Rows \cup {NoRow}]
    /\ trades \subseteq Fills
    /\ bal \in [Users -> [Currencies -> Int]]
    /\ locked \in [Users -> [Currencies -> Nat]]
    /\ \A c \in Calls :
          /\ create[c].pc \in CreatePcs
          /\ create[c].pc # "new" => Req(c) \in NewOrders
          /\ create[c].fills \in Seq(Fills)
          /\ create[c].settled \in 0..Len(create[c].fills)
          /\ create[c].makers \subseteq Fills
          /\ create[c].dropped \in Seq(Calls)
          /\ create[c].copy \in Rows \cup {NoRow}
          /\ cancel[c].pc \in CancelPcs
          /\ cancel[c].copy \in Rows \cup {NoRow}
    /\ boot.pc \in {"up", "list", "next", "close"}
    /\ crashes \in 0..MaxCrashes

Init ==
    /\ Book!Init
    /\ uuid = <<>>
    /\ rows = [c \in Calls |-> NoRow]
    /\ trades = {}
    /\ bal = [u \in Users |-> [cur \in Currencies |-> Funds]]
    /\ locked = [u \in Users |-> [cur \in Currencies |-> 0]]
    /\ create = [c \in Calls |-> NewCall]
    /\ cancel = [c \in Calls |-> NewCancel]
    /\ boot = [pc |-> "up", open |-> {}, at |-> 0]
    /\ crashes = 0

-----------------------------------------------------------------------------
\* CreateOrder, up to the book.

\* A call ends: its locals are gone, its request stays as the row's fields.
End(c, pc) ==
    create' = [create EXCEPT ![c] = [NewCall EXCEPT !.pc = pc, !.req = Req(c)]]

\* A request arrives.  Calls are started in the order of their names.
StartCreate(c, o) ==
    /\ MayStart
    /\ create[c].pc = "new"
    /\ c > 1 => create[c - 1].pc # "new"
    /\ create' = [create EXCEPT ![c] = [NewCall EXCEPT !.pc = "check", !.req = o]]
    /\ UNCHANGED <<book, uuid, rows, trades, wallets, cancel, boot, crashes>>

\* The first look at the balance, outside any lock; a market buy has no price
\* yet and is not looked at.
Check(c) ==
    LET o == Req(c)
        short == /\ o.type = "limit" \/ o.side = "sell"
                 /\ Available(o.user, Spends(o)) < Cost(o, o.qty, o.price)
    IN  /\ create[c].pc = "check"
        /\ IF short THEN End(c, "rejected")
           ELSE Goto(c, IF o.type = "limit" THEN "lock" ELSE "insert")
        /\ UNCHANGED <<book, uuid, rows, trades, wallets, cancel, boot, crashes>>

\* LockBalance, for limit orders: decided again under the wallet's row lock.
Lock(c) ==
    LET o == Req(c)
    IN  /\ create[c].pc = "lock"
        /\ IF Available(o.user, Spends(o)) < LockOf(c, 0)
           THEN End(c, "rejected") /\ UNCHANGED locked
           ELSE /\ locked' = [locked EXCEPT ![o.user][Spends(o)] =
                                @ + LockOf(c, 0)]
                /\ Goto(c, "insert")
        /\ UNCHANGED <<book, uuid, rows, trades, bal, cancel, boot, crashes>>

\* The row is inserted, or the insert fails and a lock must be undone.
Insert(c) ==
    /\ create[c].pc = "insert"
    /\ \/ /\ rows' = [rows EXCEPT ![c] = [status |-> "pending", filled |-> 0]]
          /\ Goto(c, "submit")
       \/ /\ DbFaults
          /\ IF Req(c).type = "limit" THEN Goto(c, "undo") ELSE End(c, "failed")
          /\ UNCHANGED rows
    /\ UNCHANGED <<book, uuid, trades, wallets, cancel, boot, crashes>>

Undo(c) ==
    /\ create[c].pc = "undo"
    /\ Unlock(Req(c).user, Spends(Req(c)), LockOf(c, 0))
    /\ End(c, "failed")
    /\ UNCHANGED <<book, uuid, rows, trades, cancel, boot, crashes>>

\* matcher.Submit: the order enters the book and matches under its mutex.
Submit(c) ==
    /\ create[c].pc = "submit"
    /\ Book!Arrive(Req(c))
    /\ uuid' = Append(uuid, c)
    /\ Goto(c, "match")
    /\ UNCHANGED <<rows, trades, wallets, cancel, boot, crashes>>

Holds(c) == create[c].pc = "match" /\ taker # NoOrder /\ uuid[taker] = c

Match(c) ==
    /\ Holds(c)
    /\ \E m \in resting : Book!CancelOwnMaker(m) \/ Book!Execute(m)
    /\ UNCHANGED <<uuid, rows, trades, wallets, create, cancel, boot, crashes>>

\* Submit returns the MatchResult, by order id.
Matched(c) ==
    /\ Holds(c)
    /\ Book!Complete
    /\ LET fills == [i \in DOMAIN result.trades |->
                        [result.trades[i] EXCEPT !.maker = uuid[@], !.taker = c]]
       IN create' = [create EXCEPT ![c].pc = IF fills = <<>> THEN "apply"
                                             ELSE "settle",
                        ![c].fills = fills,
                        ![c].makers = Range(fills),
                        ![c].dropped = [i \in DOMAIN result.canceled |->
                                           uuid[result.canceled[i]]],
                        ![c].rested = result'.rested]
    /\ UNCHANGED <<uuid, rows, trades, wallets, cancel, boot, crashes>>

-----------------------------------------------------------------------------
\* applyResult.

\* Faulty: the user pays and gets nothing.
PayOnly(w, u, cur, spent, gained) == [w EXCEPT ![u][cur] = @ - spent]

\* One wallet transaction: the user pays spent of cur (out of the lock, floored
\* at zero, if unlock) and gets gained of the other currency.
Pay(w, u, cur, spent, gained) ==
    [w EXCEPT ![u] = [x \in Currencies |-> IF x = cur THEN @[x] - spent
                                           ELSE @[x] + gained]]
Release(l, u, cur, spent) == [l EXCEPT ![u][cur] = Floor0(@ - spent)]

\* SettleTrade for the next fill, maker first.  The maker always pays out of
\* its lock; so does a limit taker.  A market taker must have it available
\* once the maker is settled, or the transaction rolls back and the call ends.
Settle(c) ==
    LET f == create[c].fills[create[c].settled + 1]
        m == Req(f.maker)
        t == Req(c)
        mOut == Cost(m, f.qty, f.price)
        tOut == Cost(t, f.qty, f.price)
        refused == t.type = "market" /\ Available(t.user, Spends(t)) < tOut
    IN  /\ create[c].pc = "settle"
        /\ IF refused
           THEN End(c, "failed") /\ UNCHANGED wallets
           ELSE /\ bal' = Pay(Pay(bal, m.user, Spends(m), mOut, tOut),
                             t.user, Spends(t), tOut, mOut)
                /\ locked' = LET l == Release(locked, m.user, Spends(m), mOut)
                             IN IF t.type = "limit"
                                THEN Release(l, t.user, Spends(t), tOut) ELSE l
                /\ create' = [create EXCEPT ![c].settled = @ + 1,
                                 ![c].pc = IF create[c].settled + 1 =
                                                Len(create[c].fills)
                                           THEN "save" ELSE "settle"]
        /\ UNCHANGED <<book, uuid, rows, trades, cancel, boot, crashes>>

\* Faulty: of several trades only the last is saved.
SaveLastTrade(c) ==
    /\ create[c].pc = "save"
    /\ trades' = trades \cup {create[c].fills[Len(create[c].fills)]}
    /\ Goto(c, "apply")
    /\ UNCHANGED <<book, uuid, rows, wallets, cancel, boot, crashes>>

\* "save" is reached when every fill is settled: SaveTrades.
SaveTrades(c) ==
    /\ create[c].pc = "save"
    /\ trades' = trades \cup Range(create[c].fills)
    /\ Goto(c, "apply")
    /\ UNCHANGED <<book, uuid, rows, wallets, cancel, boot, crashes>>

\* Faulty: the fill replaces what the maker's row had.
ReadMakerReplaces(c) ==
    /\ create[c].pc = "apply"
    /\ \E f \in create[c].makers :
          create' = [create EXCEPT ![c].pc = "writeMaker",
                                   ![c].makers = @ \ {f},
                                   ![c].target = f.maker,
                                   ![c].copy = [rows[f.maker] EXCEPT
                                                  !.filled = f.qty]]
    /\ UNCHANGED <<book, uuid, rows, trades, wallets, cancel, boot, crashes>>

\* Each maker row is read, then written back with the fill added; the map of
\* fills is walked in any order.
ReadMaker(c) ==
    /\ create[c].pc = "apply"
    /\ \E f \in create[c].makers :
          create' = [create EXCEPT ![c].pc = "writeMaker",
                                   ![c].makers = @ \ {f},
                                   ![c].target = f.maker,
                                   ![c].copy = [rows[f.maker] EXCEPT
                                                  !.filled = @ + f.qty]]
    /\ UNCHANGED <<book, uuid, rows, trades, wallets, cancel, boot, crashes>>

WriteMaker(c) ==
    LET m == create[c].target
        filled == create[c].copy.filled
    IN  /\ create[c].pc = "writeMaker"
        /\ rows' = [rows EXCEPT ![m] =
                       [status |-> DeriveStatus(filled, Req(m).qty, TRUE),
                        filled |-> filled]]
        /\ Goto(c, "apply")
        /\ UNCHANGED <<book, uuid, trades, wallets, cancel, boot, crashes>>

\* Then each maker dropped by self-trade prevention: read, write, unlock.
ReadDropped(c) ==
    /\ create[c].pc = "apply"
    /\ create[c].makers = {} /\ create[c].dropped # <<>>
    /\ LET m == Head(create[c].dropped)
       IN create' = [create EXCEPT ![c].pc = "writeDropped",
                                   ![c].dropped = Tail(@),
                                   ![c].target = m,
                                   ![c].copy = rows[m]]
    /\ UNCHANGED <<book, uuid, rows, trades, wallets, cancel, boot, crashes>>

WriteDropped(c) ==
    /\ create[c].pc = "writeDropped"
    /\ rows' = [rows EXCEPT ![create[c].target] =
                   [create[c].copy EXCEPT !.status = "cancelled"]]
    /\ Goto(c, "unlockDropped")
    /\ UNCHANGED <<book, uuid, trades, wallets, cancel, boot, crashes>>

UnlockDropped(c) ==
    LET m == create[c].target
    IN  /\ create[c].pc = "unlockDropped"
        /\ Unlock(Req(m).user, Spends(Req(m)), LockOf(m, create[c].copy.filled))
        /\ Goto(c, "apply")
        /\ UNCHANGED <<book, uuid, rows, trades, cancel, boot, crashes>>

\* Last, the taker's own row is written from the call's memory.
WriteTaker(c) ==
    LET filled == SumOf(create[c].fills)
    IN  /\ create[c].pc = "apply"
        /\ create[c].makers = {} /\ create[c].dropped = <<>>
        /\ rows' = [rows EXCEPT ![c] =
                       [status |-> DeriveStatus(filled, Req(c).qty,
                                                create[c].rested),
                        filled |-> filled]]
        /\ End(c, "done")
        /\ UNCHANGED <<book, uuid, trades, wallets, cancel, boot, crashes>>

\* A database call of CreateOrder (but the insert) or of applyResult fails:
\* the error ends the call there.
CreateFails(c) ==
    /\ DbFaults
    /\ create[c].pc \in {"check", "lock", "settle", "save", "apply",
                          "writeMaker", "writeDropped"}
    /\ End(c, "failed")
    /\ UNCHANGED <<book, uuid, rows, trades, wallets, cancel, boot, crashes>>

-----------------------------------------------------------------------------
\* CancelOrder, by the order's owner.

\* Faulty: the row is closed before the engine is asked.
FindAndWriteFirst(c) ==
    /\ MayStart
    /\ cancel[c].pc = "new"
    /\ rows[c].status \in OpenStatuses
    /\ cancel' = [cancel EXCEPT ![c] = [pc |-> "write", copy |-> rows[c]]]
    /\ UNCHANGED <<book, uuid, rows, trades, wallets, create, boot, crashes>>

FindForCancel(c) ==
    /\ MayStart
    /\ cancel[c].pc = "new"
    /\ rows[c].status \in OpenStatuses
    /\ cancel' = [cancel EXCEPT ![c] = [pc |-> "engine", copy |-> rows[c]]]
    /\ UNCHANGED <<book, uuid, rows, trades, wallets, create, boot, crashes>>

\* matcher.Cancel: an order that is not resting is refused.
EngineCancel(c) ==
    /\ cancel[c].pc = "engine"
    /\ taker = NoOrder
    /\ \/ /\ \E id \in resting : uuid[id] = c /\ Book!Withdraw(id)
          /\ cancel' = [cancel EXCEPT ![c].pc = "write"]
       \/ /\ ~ \E id \in resting : uuid[id] = c
          /\ cancel' = [cancel EXCEPT ![c] = NewCancel]
          /\ UNCHANGED book
    /\ UNCHANGED <<uuid, rows, trades, wallets, create, boot, crashes>>

\* The row is written from the copy read before the engine was asked.
WriteCancel(c) ==
    /\ cancel[c].pc = "write"
    /\ \/ /\ rows' = [rows EXCEPT ![c] =
                         [cancel[c].copy EXCEPT !.status = "cancelled"]]
          /\ cancel' = [cancel EXCEPT ![c].pc = "unlock"]
       \/ /\ DbFaults
          /\ cancel' = [cancel EXCEPT ![c].pc = "failed"]
          /\ UNCHANGED rows
    /\ UNCHANGED <<book, uuid, trades, wallets, create, boot, crashes>>

\* The currency is that of the pair, and the error of reading the pair is
\* dropped: the call breaks off at the pair that is not there.
UnlockCancel(c) ==
    /\ cancel[c].pc = "unlock"
    /\ \/ /\ Unlock(Req(c).user, Spends(Req(c)), LockOf(c, cancel[c].copy.filled))
          /\ cancel' = [cancel EXCEPT ![c].pc = "done"]
       \/ /\ DbFaults
          /\ cancel' = [cancel EXCEPT ![c].pc = "failed"]
          /\ UNCHANGED wallets
    /\ UNCHANGED <<book, uuid, rows, trades, create, boot, crashes>>

-----------------------------------------------------------------------------
\* A crash loses the book and every call in progress; the restarted server
\* runs CleanupOpenOrders before it serves requests, and may crash in it too.

Crash ==
    /\ crashes < MaxCrashes
    /\ crashes' = crashes + 1
    /\ create' = [c \in Calls |-> IF c \in Active
                     THEN [NewCall EXCEPT !.pc = "lost", !.req = Req(c)]
                     ELSE create[c]]
    /\ cancel' = [c \in Calls |-> IF c \in Cancelling
                     THEN [cancel[c] EXCEPT !.pc = "lost"] ELSE cancel[c]]
    /\ resting' = {} /\ taker' = NoOrder /\ result' = EmptyResult
    /\ boot' = [pc |-> "list", open |-> {}, at |-> 0]
    /\ UNCHANGED <<orders, uuid, rows, trades, wallets>>

\* Faulty: orders that were never accepted are not listed.
ListAccepted ==
    /\ boot.pc = "list"
    /\ boot' = [pc |-> "next", at |-> 0,
                open |-> {c \in Calls : rows[c].status \in
                                          OpenStatuses \ {"pending"}}]
    /\ UNCHANGED <<book, uuid, rows, trades, wallets, create, cancel, crashes>>

\* FindAllOpen reads the rows once; nothing else writes them during boot.
ListOpen ==
    /\ boot.pc = "list"
    /\ boot' = [pc |-> "next", at |-> 0,
                open |-> {c \in Calls : rows[c].status \in OpenStatuses}]
    /\ UNCHANGED <<book, uuid, rows, trades, wallets, create, cancel, crashes>>

\* The lock of the next open order is released; market orders have none.
CleanUnlock(c) ==
    /\ boot.pc = "next" /\ c \in boot.open
    /\ IF Req(c).type = "limit"
       THEN Unlock(Req(c).user, Spends(Req(c)), LockOf(c, rows[c].filled))
       ELSE UNCHANGED wallets
    /\ boot' = [boot EXCEPT !.pc = "close", !.at = c]
    /\ UNCHANGED <<book, uuid, rows, trades, create, cancel, crashes>>

\* Faulty: the cleanup does not get past an order.
CleanCloseAgain ==
    /\ boot.pc = "close"
    /\ rows' = [rows EXCEPT ![boot.at].status = "cancelled"]
    /\ boot' = [boot EXCEPT !.pc = "next"]
    /\ UNCHANGED <<book, uuid, trades, wallets, create, cancel, crashes>>

\* and its row is closed.
CleanClose ==
    /\ boot.pc = "close"
    /\ rows' = [rows EXCEPT ![boot.at].status = "cancelled"]
    /\ boot' = [boot EXCEPT !.pc = "next", !.open = @ \ {boot.at}]
    /\ UNCHANGED <<book, uuid, trades, wallets, create, cancel, crashes>>

Serve ==
    /\ boot.pc = "next" /\ boot.open = {}
    /\ boot' = [boot EXCEPT !.pc = "up", !.at = 0]
    /\ UNCHANGED <<book, uuid, rows, trades, wallets, create, cancel, crashes>>

-----------------------------------------------------------------------------
CreateSteps(c) ==
    \/ Check(c) \/ Lock(c) \/ Insert(c) \/ Undo(c)
    \/ Submit(c) \/ Match(c) \/ Matched(c)
    \/ Settle(c) \/ SaveTrades(c) \/ ReadMaker(c) \/ WriteMaker(c)
    \/ ReadDropped(c) \/ WriteDropped(c) \/ UnlockDropped(c) \/ WriteTaker(c)

CancelSteps(c) == EngineCancel(c) \/ WriteCancel(c) \/ UnlockCancel(c)

BootSteps == ListOpen \/ (\E c \in Calls : CleanUnlock(c)) \/ CleanClose \/ Serve

Next ==
    \/ \E c \in Calls :
          \/ \E o \in Inputs : StartCreate(c, o)
          \/ CreateSteps(c) \/ CreateFails(c)
          \/ FindForCancel(c) \/ CancelSteps(c)
    \/ Crash
    \/ BootSteps

Spec == Init /\ [][Next]_vars

\* Calls run on, goroutines get the book's mutex in turn (sync.Mutex hands it
\* over to a starving waiter), and startup runs to its end.
Fairness ==
    /\ \A c \in Calls : SF_vars(CreateSteps(c)) /\ SF_vars(CancelSteps(c))
    /\ WF_vars(BootSteps)

FairSpec == Spec /\ Fairness

-----------------------------------------------------------------------------
\* Properties.

Total(cur) == FoldFunction(+, 0, [u \in Users |-> bal[u][cur]])
Traded(c) == FoldFunctionOnSet(+, 0, [f \in trades |-> f.qty],
                              {f \in trades : c \in {f.maker, f.taker}})
EngineId(c) == {id \in DOMAIN uuid : uuid[id] = c}
EngineFilled(c) == FoldFunctionOnSet(+, 0, [id \in DOMAIN uuid |->
                                              orders[id].filled], EngineId(c))
IsResting(c) == EngineId(c) \cap resting # {}
Idle == Active = {} /\ Cancelling = {} /\ boot.pc = "up"
Owes(u, cur) ==
    FoldFunctionOnSet(+, 0,
        [id \in DOMAIN uuid |-> Cost(orders[id], Remaining(orders[id]),
                                     orders[id].price)],
        {id \in resting : orders[id].user = u /\ Spends(orders[id]) = cur})

\* No interleaving of settlements, unlocks, faults and crashes creates or
\* destroys money: SettleTrade moves both legs of a trade or none.
MoneyConserved == \A cur \in Currencies : Total(cur) = Funds * Cardinality(Users)

\* The wallets stay sound under settlements that fail halfway, overlapping
\* unlocks and crashes: no currency is made or lost, no lock is below zero.
WalletsSound == TypeOK /\ MoneyConserved

\* A row never shows more than was traded, and no trade is recorded that the
\* engine did not execute, whatever is read, overwritten or lost in between.
RowsNeverAhead ==
    \A c \in Calls : rows[c].filled <= Traded(c) /\ Traded(c) <= EngineFilled(c)

\* An order whose row is closed (filled, cancelled) cannot trade any more: the
\* engine lets go of an order before any of the writers closes its row.
ClosedRowsOffBook ==
    \A c \in Calls : IsResting(c) => rows[c].status \in OpenStatuses

\* Between calls that run one at a time, the rows tell what the engine did.
RowsMatchBook ==
    Idle => \A c \in Calls : rows[c] # NoRow =>
        /\ rows[c].filled = EngineFilled(c)
        /\ rows[c].status \in {"pending", "open"} => IsResting(c)
        /\ rows[c].status = "partially_filled" =>
              (IsResting(c) <=> Req(c).type = "limit")

\* Between calls that run one at a time, every user's lock covers what the
\* user's resting orders may still have to pay, and the balance the lock.
LocksCoverBook ==
    Idle => \A u \in Users, cur \in Currencies :
        Owes(u, cur) <= locked[u][cur] /\ locked[u][cur] <= bal[u][cur]

\* Once a restarted server serves, an order whose call the crash cut short is
\* closed and off the book, even if the cleanup itself was cut short before.
CutShortIsClosed ==
    boot.pc = "up" => \A c \in Calls : create[c].pc = "lost" =>
        rows[c].status \notin OpenStatuses /\ ~ IsResting(c)

\* When it begins to serve, no order at all is open: not one that was resting
\* in the lost book after its call had returned, nor one whose cancellation the
\* crash cut short.
NoneOpenAtStart ==
    boot.pc # "up" /\ boot'.pc = "up" => \A c \in Calls :
        rows'[c].status \notin OpenStatuses /\ ~ IsResting(c)'

\* The orders of the lost book are closed before the server takes new ones.
LostOrdersClosed == [][NoneOpenAtStart /\ CutShortIsClosed']_vars

\* Every CreateOrder returns or is lost in a crash: nobody waits forever for
\* the book's mutex.  Every startup ends.
CallsReturn ==
    \A c \in Calls : create[c].pc # "new" ~> create[c].pc \in CreateEnds
StartupEnds == boot.pc # "up" ~> boot.pc = "up"

\* Nothing hangs: a call that is matching, waiting for the book or failing on
\* the way comes to an end, and a start whose cleanup was cut short is followed
\* by one that serves.
NothingHangs == CallsReturn /\ StartupEnds

-----------------------------------------------------------------------------
\* What comments of the code state and runs refute: see the README's findings.

\* service.go:360: CancelOrder "removes a still-open order from the book and
\* marks it cancelled".  A writer with an older copy of the row undoes the mark.
CancelSticks ==
    Idle => \A c \in Calls : cancel[c].pc = "done" => rows[c].status = "cancelled"

\* service.go:51: "Resulting trades are persisted and every affected order's
\* fill/status is updated".  Not when a settlement is refused after the match.
FillsPersisted ==
    Idle => \A c \in Calls : rows[c] # NoRow => rows[c].filled = EngineFilled(c)

=============================================================================
