# Drexa backend: TLA+ verification

Drexa is a crypto exchange backend in Go: an in-memory matching engine, an order
service that settles its trades in Postgres wallets, fiat and crypto deposits and
withdrawals, a P2P marketplace with an (unwired) escrow contract, authentication,
KYC, and a WebSocket market feed. This directory holds TLA+ models of that code,
TLC configurations that check them on small instances, and proofs of what matters
most for every instance. Paths below are relative to the repository (`src/`).

Run from this directory:

    tlc -config OrderBook.cfg MCOrderBook      # a run
    tlapm OrderBookProofs.tla                      # the proofs of a module

`PROJECT.json` lists the components, the runs, the lines each definition models,
the hazards and the theorems.

## 1. The system

| component | code | state | operations | how it meets the others |
|---|---|---|---|---|
| order book | `internal/matching` | two trees of price levels, FIFO queues with cached volumes, an index by id, a version | `Place`, `Cancel`, `Snapshot` | used only under its mutex |
| engine | `internal/matching/engine.go` | map pair -> book, a RWMutex, a mutex per book | `Submit`, `Cancel`, `Depth`, `BestBidAsk` | called by request goroutines, the feed, the market maker |
| red-black tree | `pkg/redblacktree` | nodes | `Put`, `Remove`, `Left`, `Right`, searches, iterator | holds the price levels |
| order service | `internal/order` | rows of `orders` and `trades` | `CreateOrder` (with `applyResult`), `CancelOrder`, `CleanupOpenOrders` | engine, rows and wallets, with no transaction over the three |
| order wallet adapter | `cmd/server/server.go:87-242` | `wallets` rows: balance, locked | `AvailableBalance`, `LockBalance`, `UnlockBalance`, `SettleTrade` | one database transaction each |
| depth feed, hub | `internal/market` | last version sent; the clients and their channels | `publish`; `Run`, `ReadPump`, `WritePump` | polls the order service, broadcasts over channels |
| fiat wallet | `internal/wallet/usecase/wallet_usecase.go` | wallets, deposit and withdrawal rows, transactions | deposits, withdrawals, transfers, admin actions | Stripe and PayPal outside of transactions, webhooks |
| crypto wallet | `internal/wallet/usecase/crypto_wallet_usecase.go` | addresses, wallets, transactions | addresses, deposit webhook, withdrawals | Tatum; webhooks come again |
| P2P market | `internal/p2p`, adapter in `server.go:260-386` | ads, orders | `CreateAd`, `SetAdStatus`, `CreateOrder` | several wallet transactions per call |
| P2PEscrow and its client | `contracts/contracts/P2PEscrow.sol`, `internal/p2p/chain` | escrows on chain; a mutex | create, pay, release, refund, dispute, resolve | not wired into the server |
| market maker | `internal/marketmaker`, treasury in `server.go:395-440` | ids of its quotes; the house's wallets | `requote`; `EnsureBalance` | a client of the order service; its wallets are topped up with no record |
| auth | `internal/auth` | users, refresh tokens, one-time codes | register, login, refresh, logout, 2FA, OTP, PIN | rows without transactions |
| KYC | `internal/kyc` | submissions | submit, approve, reject | writes the user's level |
| the rest | middleware, configuration, provider clients, utilities | none of its own | | |

What makes each correct:

* **Order book.** Never crossed; price-time priority; its four structures agree;
  cached volumes are right; fills balance. **Tree.** A sorted map, balanced.
* **Engine.** One book per pair for ever, one goroutine inside it, no deadlock.
* **Order service.** Money is neither made nor lost; rows follow the engine and
  never run ahead of it; closed rows are off the book; locks cover what resting
  orders owe; a restart closes what a crash left open; calls return.
* **Market feed.** Equal versions mean equal depth; a client has no gap it does not
  know of; a channel is closed once; whoever stays catches up.
* **Wallets.** Every change of a balance but the house's top-ups is recorded, and the
  records chain; each payment is credited at most once, and in the end; what is paid
  out is debited once; what is locked is what is pending and what is on order.
  **P2P.** The swap makes and loses nothing; no order is in the table unpaid.
  **Escrow.** The amount leaves once, to one party.
* **Auth.** A sign-in was right at some moment of its call; a session has one good
  token, and none when its owner has ended it; a second factor that is on was
  confirmed; a code is good once. **KYC.** Level and reviews agree.

The behaviours that are hard: goroutines and requests that interleave between the
statements of a call; copies of rows read early and written back late; an engine in
memory and a database that fail separately; restarts that lose the book; requests
cut off between two transactions; webhooks and providers that answer twice or not
at all. `PROJECT.json` "hazards" lists these, each with its line and the properties
that would notice, or why none does.

## 2. The modules

| module | models | state and actions |
|---|---|---|
| `EngineOrders` | order and trade records, `Remaining`, `crosses`, `min` | operators only; the constants of the engine and their assumptions |
| `PriceTimeBook` | what a book promises | a set of resting orders; `Arrive`, `CancelOwnMaker`, `Execute`, `Complete`, `Withdraw` |
| `OrderBook` | the book as it is built | `tree`, `queue`, `volume`, `byId`, `home` (back-pointers), `version`; `Place` takes the mutex, each turn of the match loop is `PreventSelfTrade` or `Fill`, `Finish` rests the remainder and returns; `Cancel` |
| `EngineBooks` | the registry and its locks | a `pc` per goroutine through `book()` and the book's mutex |
| `SortedMap` | what the book asks of its tree | a function from keys to values |
| `RedBlackTree` | the tree, node by node | one variable, the tree; `Put` and `Remove` are one step each, built from the code's insert and delete cases as operators on trees |
| `DepthFeed` | the feed over `OrderBook` | `Poll` is `publish` up to the channel, `Broadcast` the hub's receipt |
| `MarketHub` | hub, clients and ticker feed over `DepthFeed` | the hub's map, and per client its channel, connection and two goroutines; one action per case of the hub's select and per turn of a pump |
| `OrderService` | order service, rows, wallets over `PriceTimeBook` | one record per `CreateOrder` and per `CancelOrder` call with its locals; one step per statement or wallet transaction; `Crash` and the startup cleanup |
| `WalletLedger` | wallet rows, the transactions table, the calls that write them | a record per worker: operation, `pc`, what it works on, its locals; `Commit` is `UpdateBalance` with its audit record, both computed from the row as the transaction read it (`Post` when it reads and writes in one step), `CutOff` ends a call between two steps |
| `Deposits`, `Withdrawals`, `CryptoWallet`, `P2PMarket` | the four services over `WalletLedger` | one action per transaction, or per statement outside of one, and per call of a provider; the providers' own state is external |
| `TradingWallets` | the order service's and the market maker's transactions over `WalletLedger` | `LockBalance`, `UnlockBalance`, `SettleTrade`, `EnsureBalance`, each one step, with whatever amounts a caller names |
| `EscrowPromise` | what an escrow promises | put in once, paid out once |
| `P2PEscrow` | the contract and the client that operates it | `escrows`, the ether that left, the signer's pool of transactions, the call that waits; `Mine`, `Revert`, `Transact`, `WaitMined`, `GiveUp` |
| `Custody` | the composition of these services | runs them on one ledger with the same workers |
| `Accounts` | the users table and the calls on it | register, password, PIN; one step per statement |
| `Sessions`, `PhoneCodes`, `KycReviews` | refresh tokens and the second factor; one-time codes; submissions and reviews | over `Accounts` |
| `Identity` | the composition of these | |
| `OrderBookProofs`, `EngineBooksProofs`, `MarketHubProofs`, `OrderServiceProofs`, `P2PEscrowProofs`, `IdentityProofs`, `CustodyProofs`, `Sums` | | theorems and lemmas, section 5 |
| `MC*` | | inputs of the runs |

How they compose: `OrderBook` refines `PriceTimeBook` (checked and proved), and
`OrderService` uses an `INSTANCE` of `PriceTimeBook` as its engine; so what
`OrderService` assumes of the engine is what the engine's data structures provide.
`RedBlackTree` refines `SortedMap`, which is how `OrderBook` uses it: there the tree
is its set of keys. `EngineBooks` shows that `Place`, `Cancel` and `Snapshot` are
serialized per pair, which is why `OrderBook` starts none of them while
`taker # NoOrder`. `MarketHub` extends `DepthFeed`, which extends `OrderBook`.
`P2PEscrow` refines `EscrowPromise` (checked and proved).

Choices of abstraction:

* An order is named by its sequence number in the book and by its call in the
  service; `uuid` maps one to the other. In the code an order id is a fresh uuid;
  likewise deposits, withdrawals, users and submissions are numbered.
* Prices, quantities and amounts are small naturals. The conversions of floats to
  ticks, lots and base units are left out, so nothing is said about dust.
* Each statement that reads or writes rows is atomic, and so is each transaction
  that locks one row. A transfer locks two: there the first row lock is held
  between two steps (`rowLock`). One settlement of the order service is one step.
* `DbFaults` allows any database call of `OrderService` to fail: requests carry the
  client's context (`internal/order/handler.go:145`), which ends when the client
  leaves. `UnlockBalance` and the startup cleanup run in a background context and
  do not fail; but `CancelOrder` looks for its pair in the request's, and
  dereferences the missing one (`service.go:393`), so that the call breaks off with
  nothing unlocked. A database that is lost altogether is not modelled. In the
  custody and identity modules a failure, a client that leaves and a crash are all
  `CutOff`: the call does none of its remaining steps. Two failures are steps of
  their own, since the call goes on after them: a payout that was made and answered
  with an error (`PayoutLost`), and a look for the latest submission that fails
  (`LookupFails`).
* A request's validation is the definition of the inputs.
* Custody and identity behaviours start by choosing a workload: the operations its
  clients call, and the wallets they name. It is a bound of the run, no part of the
  code. Services that share wallets do meet: withdrawals with orders, with trades and
  with the marketplace, an administrator's debits with orders, and transfers with
  adjustments and the house's top-ups.
* `TradingWallets` lets the order service lock, unlock and settle any amount at any
  time, so that whatever `OrderService` does to a wallet is among it. `held` is what
  it has locked and not given up yet, and `excess` the wallets of which it gave up
  more than that, where `UnlockBalance` and `SettleTrade` stop at zero.
* The providers are taken at their word: a webhook of Stripe comes after a payment
  and one of Tatum after a transaction of the chain. The code checks Stripe's signature,
  and of Tatum's payload nothing
  (`cmd/server/routes.go:102`, `internal/wallet/crypto_handler.go:60-75`). A checkout
  session is never paid, since the URL of its page reaches nobody
  (`internal/wallet/handler.go:211`), and neither is an intent whose row was not saved,
  since its secret is the answer that follows the insert (`wallet_usecase.go:200-204`).
* `raced` and `hurt` (section 4) are history: they record what two calls worked on
  at once, and what a call left half done.
* A TOTP code is the number of the secret it was computed from; a refresh token is
  its id; a session is the family of the tokens that came from one sign-in. Access
  tokens are stateless, and a logout does not reach them.
* `cancelled` is a status that the table of advertisements refuses
  (`migrations/000001_init.up.sql:267`): cancelling refunds and then fails to write,
  and the model does so too.
* A definition whose comment says "Faulty" is no part of a model. It is the
  definition below it with a likely bug, and is put in its place to show that a
  property would notice (`PROJECT.json` "mutants").

## 3. The runs

| run | bounds | checks | states |
|---|---|---|---|
| `OrderBook` | 2 users, 2 prices, sizes 1-2, 4 orders: limit orders and market orders of size 2; users symmetric | `NotCrossed`, `IndexesAgree`, `QuantitiesAgree`, `GoneForGood`, `ImplementsPriceTime` | 1.4 M |
| `EngineBooks` | 3 goroutines, 2 pairs | `OneBookPerPair`, `OneInside`, `CallsReturn`, deadlock | 21 k |
| `RedBlackTree` | 7 keys, 2 values, any puts and removes | `Balanced`, `AnswersInOrder`, `IsAMap` | 19 k |
| `MarketHub` | 2 users, 1 price, 2 limit orders (bids of 2 lots, asks of 1), 1 client with a buffer of 2 | `FeedIsFaithful`, `ClosedOnce`, `NoGaps`, `EveryoneIsServed` | 229 k |
| `OrderServiceSequential` | 3 orders of 2 prices and sizes, one call at a time | `RowsMatchBook`, `LocksCoverBook` | 277 k |
| `OrderServiceConcurrent` | 3 orders at one price, 2 calls at a time, faults | `WalletsSound`, `RowsNeverAhead`, `ClosedRowsOffBook` | 1.8 M |
| `OrderServiceRestart` | 2 orders, 2 calls at a time, 2 crashes | `LostOrdersClosed`, `NothingHangs` | 70 k |
| `Custody` | 2 users, 3 currencies, 2 calls at a time, 1 call cut off or payout's answer lost; 1 deposit, 2 withdrawals, 1 incoming and 2 outgoing chain transactions, 1 advertisement and 2 orders; 2 records of a wallet before the calls that repeat freely stop (`MaxEntries`), 1 wallet given up too much of before trading stops (`MaxExcess`), top-ups of user 2 (`House`) to 2 (`Target`); 1 escrow, 3 transactions in the pool, 5 in all | `LedgerIsSound`, `DepositsAccounted`, `WithdrawalsAccounted`, `LocksArePending`, `ChainsMatchLedger`, `P2PConserves`, `NothingUnpaid`, `EscrowPaysOnce`, `AnswersAreTrue`, `PaidIsCredited`, `TransfersEnd`, `KeepsPromise` | 141 k |
| `Identity` | 3 users, 2 addresses and phones, 2 calls at a time, 1 call cut off; 3 tokens, 2 secrets, 2 codes, 2 submissions | `UsersAreSound`, `AnswersJustified`, `SessionsRotate`, `EnabledIsConfirmed`, `CodesAreGoodOnce`, `ReviewsAgree` | 810 k |

A property that is a conjunction of named parts says one thing of one hazard: for
instance `QuantitiesAgree` is `TypeOK`, `VolumesAgree` and `FillsBalance`, and
`EveryoneIsServed` is `FeedCatchesUp`, `ClientsCatchUp` and `LeaversAreForgotten`.
The type invariants are such parts: of `QuantitiesAgree`, `WalletsSound`,
`LedgerIsSound` and `UsersAreSound`; `RedBlackTree`'s is a part of
`AnswersInOrder`.

Why the bounds are enough for what can happen:

* `OrderBook`: three orders give a taker two makers on one level or on two; four
  give a third maker behind a partly filled one; a market order of size 2 sweeps
  two; sizes 1 and 2 give partial fills on either side; two users give self-trades.
* `RedBlackTree`: seven keys give a full tree of three levels and trees of four,
  and every insert and delete case is met on both sides.
* `EngineBooks`: one creator of a book, one that lost the race and a reader.
* `MarketHub`: a buffer of 2 fills up, drains, and holds a depth behind a ticker;
  the client may stop reading for ever, leave, or be dropped while it leaves. Clients
  do not wait for each other, so one is as good as many.
* The order service: two calls at a time over three orders put every pair of
  statements of two calls (two takers on one maker, a taker and a cancel) next to
  each other; a second crash can hit the cleanup after the first. Market buys are in
  `OrderServiceConcurrent` but not in `OrderServiceSequential`: their settlement can
  be refused (finding 3), which is not a fault of the sequence.
* `OrderServiceRestart`: `LostOrdersClosed` has two parts. `NoneOpenAtStart` is about
  every row, an order that was resting when the server died as well as one whose call
  was cut short: none is open when the server begins to serve again.
  `CutShortIsClosed` goes on: what was cut short stays closed while new orders come.
* `Custody` and `Identity`: two calls at a time, of which any may stop after any
  statement, for every workload of `MCCustody` and `MCIdentity`: two confirmations of
  one payment; an approval, a rejection and an initiation of one withdrawal; two
  derivations on one chain; transfers in both directions; two orders on one
  advertisement while it changes its status; a withdrawal beside an order's lock, a
  trade and an advertisement; a top-up and a credit between a transfer's two row
  locks; two refreshes of a token and a logout, with its cookie and without; a setup,
  a confirmation and a sign-in. A lock of 2 of the 3 that are there leaves too little
  for a second one of 2, which is what a lock that overlooks the first would take.
  `ETH` and `USDT` share a chain and `SOL` an address, which is why there are three
  currencies. Three transactions in the pool are a call that was given up, its retry
  and the one after it.

Deadlock is checked in `EngineBooks`, where goroutines call for ever, and in
`RedBlackTree`, where there is always another put. The others stop when their orders,
requests or ids are used up.

**Fairness.** `EngineBooks`: strong fairness of each goroutine's step, as
`sync.Mutex` serves starving waiters and a waiting writer stops new readers; calls
themselves are under no fairness. `MarketHub`: weak fairness of the thread inside
`Place`, which holds the mutex and runs no blocking call, of the ticker's poll, of
the hub, which always returns to its select, and of the client's two goroutines. New
orders, connections and departures are under none: "when no more orders come" is the
premise of catching up. `OrderService`: strong fairness of each call (the book's
mutex is the one thing they wait for) and weak fairness of the startup. `Custody`:
strong fairness of the steps of deposits, transfers and chain calls, which wait for
row locks that the database hands on in turn, and of the delivery of a webhook,
which the provider repeats until it is answered with success; the calls of users are
under none, and being cut off is always possible, up to the bound on faults.
Requests, faults and crashes are under none. `OrderBook`, `Identity`,
`RedBlackTree` and `P2PEscrow` have no liveness property and state none.

## 4. Where the code and its comments differ

Three runs check what a comment says and end in a counterexample.

1. `OrderServiceCancelLost`, `CancelSticks`. `CancelOrder` "removes a still-open
   order from the book and marks it cancelled" (`internal/order/service.go:360`).
   A `CreateOrder` has a copy of a row, a cancel of that order is written and
   acknowledged, and the copy is written as open: a maker's row that it has read, or
   its own order's, which may rest and be cancelled before `applyResult` writes it.
2. `DepositDoubleCredit`, `NoDoubleCredit`. "The row is locked FOR UPDATE so
   concurrent webhook retries can't double-credit"
   (`internal/wallet/usecase/wallet_usecase.go:223`). The row that is locked is the
   wallet's; the deposit's status was read before. Two confirmations that overlap
   both see it pending, and the second credits again when it gets the lock.
3. `OrderServiceMarketBuy`, `FillsPersisted`. "Resulting trades are persisted and
   every affected order's fill/status is updated" (`service.go:51-52`). A market
   buy's funds are first looked at in `SettleTrade`, after the engine has matched:
   a refusal ends the call with the engine's fill in no row.

More behaviours of the models that a reader of the code should know. No run reports
them: most contradict nothing that the code says, some would repeat a finding above,
and where a comment or a document is quoted below, one call by itself shows the
difference and there is nothing to search for. Where they would break a property, the
property says what it excludes.

* *Orders.* A buy that trades below its limit frees only what the trade cost, and the
  rest of its lock stays with no order on the book (`service.go:299` calls the
  remaining lock exact). `CancelOrder` unlocks by the row it read before the engine's
  cancel, so a fill in between is unlocked as well. A crash between `LockBalance` and
  the insert of the row (`service.go:152-158`) leaves a lock with no row, which a
  cleanup that goes by rows does not find. A cancellation whose look for the pair
  fails (`service.go:393`, `396`) has cancelled and unlocks nothing. These are why
  `OrderServiceConcurrent` says that rows never run ahead of the engine, and not that
  they agree with it.
* *Wallets.* `raced` is the set of things that two calls worked on at once. A
  chain transaction reported twice at once is credited twice
  (`crypto_wallet_usecase.go:216`). An approval beside the initiation, or another
  approval, of the same withdrawal asks the provider to pay it out twice, and a
  rejection beside either releases a lock that is then released again: excluded from
  `PayoutsMatchStatus` and `LocksArePending`, but `NeverDebitedUnpaid` holds even
  then. Two derivations at once on one chain may take one index; on Solana all users
  share one address, and the first owner found is credited.
* *Records.* "Transaction records every balance movement for full audit trail"
  (`internal/wallet/domain.go:77`), but `EnsureBalance` sets a balance with no
  transaction (`cmd/server/server.go:438`). `LedgerIsSound` lets the house's wallets,
  and no others, rise to the target between two records.
* *Payouts.* The PayPal client answers with an error also after PayPal took the
  payout: when the answer does not come, is not understood or names no batch
  (`paypal_disbursement_service.go:132-150`). `InitiateWithdrawal` then releases the
  lock and marks the row failed (`wallet_usecase.go:372-382`), so that the user has
  the money twice, and `ApproveWithdrawal` leaves the row pending for another
  approval. `lost` counts these payouts, and `PayoutsMatchStatus` says what holds of
  the others. The three statements of that release drop their errors (375-377): one
  that fails aborts the transaction, and the withdrawal stays pending
  (`CutOff`). What is paid is not compared either: `InitiateWithdrawal` converts
  micro-USDT to cents of a dollar (302-312), `ApproveWithdrawal` pays the row's amount
  in its own currency (788-793).
* *Locks.* `DebitBalance` of the marketplace looks at the balance and not at what is
  locked of it (`server.go:301`): it takes what a withdrawal or an order has reserved,
  and the balance is then less than the lock, or below zero after the settlement. An
  unlock or a settlement of more than the order service still holds (section 4,
  *Orders*) takes from a lock that is a withdrawal's. `LocksArePending` names both as
  its premises, wallet by wallet.
* *Failed sends.* `wallet_usecase.go:632-637` says that a failed send reverts the
  balance by a reversal transaction. The error it tests is that of the line
  above it, which a shorter declaration hides, so that the reversal never runs and the
  debit stays. No run reports it: `SendsAreDebited` is one-sided, and says that what
  was sent was debited.
* A withdrawal is paid out by the call that initiates it, while `docs/API.md:248-249`
  says that it waits for an administrator.
* *P2P.* Cancelling an advertisement refunds what remains and then writes a status
  that the table refuses: the advertisement stays as it was, and may be refunded
  again (`RefundsOf` in `P2PConserves`). An order writes back the advertisement it
  read at its start, so that two orders at once sell the same amount; neither is
  unpaid (`NothingUnpaid`), but the maker's debit covers one of them. An order that is
  cut off between its wallet transactions leaves what it carried with nobody.
  `P2PConserves` is of advertisements on which neither happened: one order at a time,
  each to its end.
* *Identity.* Two refreshes of one token at once both succeed, and so does one beside
  a logout (`auth_usecase.go:108`); two verifications of a code at once both accept
  it; two submissions at once are both pending. An approval cut off between its two
  statements leaves a user without the level.
* *Logout.* `docs/API.md:71` says that a logout revokes the current refresh token,
  which it reads from its cookie. The cookie's path is `/api/v1/auth/refresh`
  (`internal/auth/handler.go:57-60`) and the route `/api/v1/auth/logout`
  (`routes.go:39`), so that a browser does not send it, and the call answers "logged
  out" with the token good (`handler.go:151`); it says so too when the revocation
  fails, since that error is dropped (152). `Sessions` has both: `LogoutWithoutCookie`
  ends nothing, and `EndedStaysEnded` is about logouts whose token came.
* *Submissions.* `ErrAlreadySubmitted` ("a pending kyc submission already exists",
  `internal/kyc/domain.go:165`) is answered only when the look for the latest
  submission succeeds; when it fails, for whatever reason, a second one is made
  (`kyc_usecase.go:27-37`). `LookupFails` is that step, and `OnePending` leaves its
  user out.
* *Feed.* A client that registers while the book is quiet gets nothing before the
  next change, as the feed skips versions that it has sent.

## 5. What is proved

Every theorem holds for all values of the constants: any users and finite set of
prices, any sizes and number of orders, goroutines, pairs, clients, buffers, calls
at a time, faults, crashes, currencies, deposits, withdrawals, chain transactions,
advertisements, workloads, tokens, codes and submissions. What is assumed of the
constants is stated beside them as an `ASSUME`, which TLC evaluates in the runs:

* `EngineOrders`: prices and sizes are positive naturals, the prices are finitely many
  (a side with a level has a best one), `Inputs` are well-formed new orders.
* `OrderService`: finitely many users, since their money is added up. Two of its theorems
  are about one call at a time and say so as an assumption of their own, `OneByOne`.
* `MarketHub`: a client's buffer has room for one message.
* `Accounts`, `Identity`: accounts, phones, tokens and the like are positive naturals,
  the placeholder of an address is no address, there are an address, a phone and a
  password to open the first account with, and finitely many calls run at a time.
* `P2PEscrow`: values are positive naturals.
* `WalletLedger`, `P2PMarket`, `Custody`: users, currencies, workers and
  advertisements are finitely many (rows are counted, and balances and what is held of
  them added up); users and workers are positive naturals, as a transfer locks its
  rows in the order of their users and 0 is nobody; amounts and prices are positive,
  as requests with others are refused (`internal/p2p/usecase/p2p_usecase.go:54`); a
  workload names operations and wallets.

**`Sums`** has the lemmas on `FoldFunctionOnSet(+, 0, f, S)` the other proofs need:
what it is when an element comes, goes or changes, when two functions agree, one is
below the other, or an image is taken. The fold is a recursive function; that it
exists, is unique and may be taken apart at any element is proved by a smallest
subset that is a counterexample (a finite set's subsets are well-founded), which
needs no induction rule.

**`OrderBookProofs`**: `BookTypes`, `NeverCrossed`, `IndexesAlwaysAgree`,
`QueuesAlwaysInOrder`, `QuantitiesAlwaysAgree`, `BookImplementsPriceTime`,
`OrdersGoneForGood`. The inductive invariant `Inv` is the conjunction of `TypeOK`,
`OrdersSound`, `TakerOffBook`, `NotCrossed`, `IndexesAgree` and
`QueuesInArrivalOrder`. None of the last three is inductive alone: that `Finish`
keeps the book uncrossed needs that a limit order's level is its own price
(`IndexesAgree`) and that the loop ended because nothing crosses; that the queue
stays ordered on `Rest` needs that the taker, the youngest order, is on no queue
(`TakerOffBook`); that `Fill` removes exactly the filled maker needs that what
rests has something left and that a queue holds an order once
(`QueuesInArrivalOrder`); sound quantities (`OrdersSound`) carry the arithmetic.
`QuantityInv` adds the cached volumes as sums over the queues and that the bids have
filled what the asks have. For the refinement, the head of the best level is, under
`Inv`, the order with priority among all candidates; from there `PreventSelfTrade`
maps to `CancelOwnMaker`, `Fill` to `Execute`, `Finish` to `Complete`, `Cancel` to
`Withdraw`, with the mapping `resting <- byId`.

**`EngineBooksProofs`**: `PairHasOneBook`, `BooksAreSerialized`, `BooksAreKept`.
The invariant adds what a goroutine under the write lock knows: nobody else is
there, and at `make` the registry still lacks the book.

**`MarketHubProofs`**: `FeedAlwaysFaithful`, `ChannelsClosedOnce`,
`ClientsMissNothing`. Every action of the feed and the hub leaves the book alone or is
an action of the book, so the book's invariant is reused. That a shown depth is
the book's as long as the version is the same (`FeedIsFaithful`) needs that a step
that changes what a snapshot shows changes the version, which is proved of each
action of the book. That a channel is closed once and no client has a gap needs
the types of the buffers and that whoever has not connected has left nothing at the
hub (`NewcomersAreNew`): the hub may forget a client, but never takes it back.

**`OrderServiceProofs`**: `WalletsAlwaysSound`, `RowsAreNeverAhead`,
`ClosedRowsAreOffBook`, `LostOrdersAreClosed`, `RowsAlwaysMatch`, `LocksAlwaysCover`.
The parts of its `Inv`: the engine's orders are typed and its names lead to calls
(`BookSound`, `NamesSound`, `MatchIsLive`); what a call remembers of a match it was part
of (`CallsSound`); that a row exists before the engine knows the order, and is open
while the order rests (`RowsSound`); what the startup has still to close (`BootSound`).
`LostOrdersAreClosed` is two statements: of every state, that orders whose calls were cut
short are closed once the server serves, and of every step, that no row is open when it
begins to (only `Serve` begins, `OnlyServeStarts`).
Rows that never run ahead need two bounds on sums of fills: what is booked (saved
trades, those in a call's memory and those of the running match) is at most what the
engine has filled (`FilledSound`), and what a row or a copy of it shows is at most the
saved trades applied to it (`AppliedSound`). `RowsNeverAhead` is not inductive without
the copies: a stale one written back later is harmless only because it shows less.
`MoneySum` says that the users' wealth is the initial one, per currency.

`RowsAlwaysMatch` and `LocksAlwaysCover` are about calls that run one at a time, on a
database that answers, with no market buys, as long as the server has not crashed
(`OneByOne`, `crashes = 0`); users, prices, sizes and the number of orders are any. Each
of these conditions is needed: two calls lose each other's writes of a row (finding 1)
and a cancellation unlocks what another call has filled (section 4, *Orders*), a market
buy locks nothing and its settlement can be refused (finding 3), and a call that fails
or is cut off between two statements leaves a row or a lock behind. Their invariant is
`OneByOneInv` (TLC has checked it on the instance of the run `OrderServiceSequential`),
on top of `Inv`:

* `Lone`: one call at most is under way and none has failed; `Placed`: where a call is
  tells whether it has a row, and an order in the engine.
* `RowsTold`, which has three phases. Between matches (`Calm`) every row counts what
  the engine filled and a cancellation's copy is the row. During a match (`Matching`) the
  rows of the makers it met lack the one fill each they were met with, the taker's fills
  add up to what is filled of it, and the makers dropped by self-trade prevention are no
  makers of its trades. After it (`Telling`) the call holds what the rows lack, and each
  of its writes makes one row whole; when it is done, nothing is missing.
* The locks: `Covered` is not inductive with what the orders have left, as a match fills
  an order before `SettleTrade` takes what it costs, and a cancellation unlocks after the
  order is gone. It is stated of a witness, the lots `due` of each call: at least what is
  left of a resting or dropped order and what was traded and not paid for (`Due`), at
  their limit prices within what is locked, which is within the balance (`Covered`). A
  settlement below the limit leaves the difference locked; `due` says which orders the
  lock still is for. A market seller's funds are looked at and not locked, and stay
  because nobody else runs (`SellersFunded`).

There is one lemma for each action (`SubmitKeeps`, `TradeKeeps`, ...). That no settlement
is refused is `SettleRuns`, and that it is paid from the locks of its two sides
`SettleCovers`.

**`P2PEscrowProofs`**: `EtherLeavesOnce`, `ClientAnswersTrue`,
`EscrowKeepsPromise`. Each function of the contract puts a value in, moves a live
escrow to a live state, or pays it out (`ExecuteCases`); one lemma for each of the
three keeps the contract's invariant, one maps it to a step or a stutter of
`EscrowPromise`. That answers are true needs an invariant of the client: the call
that waits submitted the last transaction of the pool, and one that has its receipt
left the pool empty (`WaitsForLast`), because the mutex lets no other call submit
in between; a call that was given up leaves its transaction before the retry's.

**`IdentityProofs`**: `UsersAlwaysSound`, `AnswersAlwaysJustified`,
`EnabledAlwaysConfirmed`, `SessionsAlwaysRotate`, `CodesAlwaysGoodOnce`,
`ReviewsAlwaysAgree`. Its `Inv` (TLC has checked it on the instance of the run
`Identity`) says what a call has found out and may still rely on: a refresh that
found its token good has found the only good one of its session, a verification
that found a code good is the first to accept it, a submission that found none
pending still finds none, each unless its thing is in `raced` or `hurt`
(a look that failed puts it into `hurt`)
(`SessionCall`, `CodeCall`, `KycCall`). `RacesOK` ties that to the calls in progress:
what two of them work on is in `raced`, so that a thing that is not has one call at
most. Each action moves one call (`Touches`) and the rows of one service; frame
lemmas (`Spares`, `SubmissionKeeps`, ...) carry the other services over.

**`CustodyProofs`**: `LedgerAlwaysSound`, `DepositsAlwaysAccounted`,
`WithdrawalsAlwaysAccounted`, `ChainsAlwaysMatch`, `NothingEverUnpaid`,
`MarketAlwaysConserves`, `LocksAlwaysPending`, `EscrowRuns`. One `Inv` for the
composition (TLC has checked it on the instance of the run `Custody`): `LedgerOK` has
the audit trail, `CopiesOK` that the copy of a row that a transfer read with its first
lock is still the row, which the audit trail needs when the transfer writes from it
(nothing but the lock keeps the others away), `CallsOK` the types of what calls
remember, `RacesOK` that what two calls work on is in `raced`; and each service has
one part that says what holds of its rows, and what a call has found out and may still
rely on. A confirmation that found its deposit pending finds it so, and an approval
its withdrawal, unless the thing is in `raced` (`DepositCall`, `WithdrawalCall`).
`WithdrawalRow` counts: the debits of a withdrawal and the calls that are about to
settle it are at most the payouts of it that were answered with success (`Answered`),
which is inductive where `NeverDebitedUnpaid` is not. A wallet has one pending
withdrawal at most (`OnePending`), so that what it has locked is that one's amount and
what the order service holds (`LocksOK`). An order's call at each of its steps has
made the moves before it (`Gave`, `Got`, `MakerGot`), and the advertisement it read
has still the same maker, kind and price (`SameDeal`): an order that is inserted is
therefore paid, however stale its copy of the advertisement. Each action turns one
call (`Turns`) and records rows of one kind (`Records`), and a frame lemma per service
(`DepositKeeps`, ...) carries its part over the actions of the others.
`MarketAlwaysConserves` needs a second invariant on top, `MarketInv`: where the
marketplace is alone and no advertisement was disturbed, an order's call from its
first debit to its write of the advertisement has the advertisement as it still is
(`Fresh`), and each currency adds up (`AddsUp`). `Fresh` is what a second call on the
advertisement would break: it would be written back with what the other order had
left. Each step moves as much into one of the four sums as out of another
(`SumsMove`): a post between a balance and what the call carries (`SteadyPosts`), a
write of the advertisement between what it holds and what the call carries
(`HoldsAddUp`), a refund between a balance and what was refunded. `LocksAlwaysPending`
is of any mix of the services on a wallet, and needs that what is locked is right
wallet by wallet: `held` and the one pending withdrawal's amount (`LockRight`), which
a settlement keeps as it spends `held` and lock alike, unless the wallet is in
`excess`. `EscrowRuns` is that a behaviour of `Custody` is one of the escrow, which
`P2PEscrowProofs` is about.

What the prover does not do, and TLC checks alone:

* liveness: `CallsReturn`, `NothingHangs`, `EveryoneIsServed`, `PaidIsCredited`,
  `TransfersEnd`;
* `RedBlackTree` (`Balanced`, `AnswersInOrder`, `IsAMap`): its operations are recursive on
  trees, and what they return needs induction over trees. It is the one module whose
  invariants are only model-checked.

## 6. Plan

In order:

1. `SettlementLocks`: the row locks of concurrent `SettleTrade` transactions and
   the database's deadlock detection.
2. `MarketMaker` over `OrderService`.

## 7. Not modelled

* The house market maker's quotes: planned (section 6); to the order service
  its quotes are the calls of one more user.
* Middleware, configuration, provider clients beyond what their answers decide, JWT,
  password and logging helpers, migrations beyond their constraints, command-line
  tools: translation and I/O with no state the properties are about. Handlers are
  modelled as far as they decide what is called.
* What the ticker feed and the klines fetch; fees (always zero in the code); listings
  and queries.
* Floats: their rounding and scaling.
* KYC through Didit, for which the server passes nil. The KYC level is written but
  nothing in the code reads it before an operation, though `docs/API.md:249` requires
  level 1 of a withdrawal.
* The row locks inside one settlement of a trade, and the order of its locks.
