--------------------------- MODULE TradingWallets ---------------------------
(***************************************************************************)
(* The wallets as the order service and the market maker use them          *)
(* (orderWalletAdapter and houseTreasury in cmd/server): LockBalance,      *)
(* UnlockBalance, SettleTrade and EnsureBalance, with whatever amounts     *)
(* their callers name.  Each is one transaction; SettleTrade locks its     *)
(* four rows one after another, and is one step since it holds all of them *)
(* when it commits.                                                        *)
(*                                                                         *)
(* held and excess are history: what the order service has locked of a     *)
(* wallet and not yet spent or released, and the wallets from which it     *)
(* spent or released more than that.                                       *)
(***************************************************************************)
EXTENDS WalletLedger

CONSTANT MaxExcess  \* bound: wallets given up too much of, before trading stops

VARIABLES held, excess

tradingVars == <<held, excess>>

TradeRef == <<"trade", 0>>

TradingTypeOK ==
    /\ held \in [Wallets -> Nat]
    /\ excess \subseteq Wallets

TradingInit ==
    /\ held = [w \in Wallets |-> 0]
    /\ excess = {}

\* n less amount, but not below zero.
Less(n, amount) == IF n > amount THEN n - amount ELSE 0
\* The order service gives up amounts it has locked, at most one per wallet.
GivesUp(amounts) ==
    /\ held' = [w \in Wallets |-> IF w \in DOMAIN amounts THEN Less(held[w], amounts[w])
                                  ELSE held[w]]
    /\ excess' = excess \cup {w \in DOMAIN amounts : amounts[w] > held[w]}

-----------------------------------------------------------------------------
LockOnBalance(w, amount) ==   \* faulty: what is locked already is not left out
    /\ MayName("hold", w) /\ wallets[w].made
    /\ Free(w)
    /\ wallets[w].balance >= amount
    /\ Relock(w, amount)
    /\ held' = [held EXCEPT ![w] = @ + amount]
    /\ UNCHANGED <<rowLock, control, excess>>

LockBalance(w, amount) ==
    /\ MayName("hold", w) /\ wallets[w].made
    /\ Free(w)
    /\ Available(w) >= amount
    /\ Relock(w, amount)
    /\ held' = [held EXCEPT ![w] = @ + amount]
    /\ UNCHANGED <<rowLock, control, excess>>

\* What is locked goes down by the amount, or to zero.
UnlockBalance(w, amount) ==
    /\ MayName("release", w) /\ wallets[w].made
    /\ Free(w)
    /\ Relock(w, Less(wallets[w].locked, amount) - wallets[w].locked)
    /\ GivesUp([v \in {w} |-> amount])
    /\ UNCHANGED <<rowLock, control>>

\* What spending an amount adds to a lock: it is taken from the lock, which
\* does not go below zero, unless it is a market order that spends it.
Spends(w, amount, unlock) ==
    IF unlock THEN Less(wallets[w].locked, amount) - wallets[w].locked ELSE 0

\* The maker spends given and gets taken, the taker the other way round.  The
\* maker's part, and a limit order's of the taker, was locked; a market order
\* must have it available, or nothing happens.
SettleTrade(maker, taker, give, take, given, taken, unlock) ==
    LET spends == [w \in {<<maker, give>>, <<taker, take>>} |->
                      IF w = <<maker, give>> THEN given ELSE taken]
        moves == [w \in {maker, taker} \X {give, take} |->
                     IF w = <<maker, give>>
                     THEN [delta |-> -given, lock |-> Spends(w, given, TRUE), ref |-> TradeRef]
                     ELSE IF w = <<taker, take>>
                     THEN [delta |-> -taken, lock |-> Spends(w, taken, unlock), ref |-> TradeRef]
                     ELSE [delta |-> IF CurrencyOf(w) = give THEN given ELSE taken,
                           lock |-> 0, ref |-> TradeRef]]
    IN  /\ MayName("trade", <<maker, give>>) /\ MayName("trade", <<taker, take>>)
        /\ Room
        /\ maker # taker /\ give # take
        /\ wallets[<<maker, give>>].made /\ wallets[<<taker, take>>].made
        /\ \A w \in DOMAIN moves : Free(w)
        /\ unlock \/ Available(<<taker, take>>) >= taken
        /\ Post(moves)
        /\ GivesUp([w \in {v \in DOMAIN spends : v[1] = maker \/ unlock} |-> spends[w]])
        /\ UNCHANGED <<rowLock, control>>

\* EnsureBalance: the house's wallet is found or made and its balance set,
\* with no row in the transactions table.
EnsureBalance(w) ==
    /\ MayName("topup", w) /\ UserOf(w) = House
    /\ Free(w)
    /\ wallets[w].balance < Target
    /\ wallets' = [wallets EXCEPT ![w] = [@ EXCEPT !.made = TRUE, !.balance = Target]]
    /\ UNCHANGED <<ledger, rowLock, control, tradingVars>>

TradingNext ==
    /\ Cardinality(excess) < MaxExcess
    /\ \/ \E w \in Wallets :
             \/ EnsureBalance(w)
             \/ \E amount \in Amounts : LockBalance(w, amount) \/ UnlockBalance(w, amount)
       \/ /\ "trade" \in DOMAIN work
          /\ \E maker, taker \in Users, give, take \in Currencies, given, taken \in Amounts,
                unlock \in BOOLEAN :
                SettleTrade(maker, taker, give, take, given, taken, unlock)
=============================================================================
