----------------------------- MODULE P2PMarket -----------------------------
(***************************************************************************)
(* The P2P marketplace (internal/p2p/usecase) over the wallets, through    *)
(* p2pWalletAdapter (cmd/server).  An advertisement holds what its maker   *)
(* was debited; an order swaps with it at once, in three wallet            *)
(* transactions, an update of the advertisement and an insert, none of     *)
(* them in a common transaction.                                           *)
(***************************************************************************)
EXTENDS WalletLedger, Functions

CONSTANTS AdIds, OrderIds, Prices, Base, Quote

ASSUME MarketAssumption ==
    /\ Base \in Currencies /\ Quote \in Currencies
    /\ IsFiniteSet(AdIds) /\ Prices \subseteq Nat \ {0}

VARIABLES
    ads,       \* the p2p_advertisements table
    p2pOrders  \* the p2p_orders table

p2pVars == <<ads, p2pOrders>>

NoAd == [status |-> "none", type |-> "sell", maker |-> 0, price |-> 0, remaining |-> 0]
NoOrder == [ad |-> 0, taker |-> 0, amount |-> 0, total |-> 0]
\* The CHECK constraint of the table lets no other status in.
AdStatuses == {"active", "paused", "completed"}
AdRef(a) == <<"ad", a>>
RefundRef(a) == <<"refund", a>>
OrderRef(o) == <<"order", o>>
TheAd(c) == calls[c].on[2]

\* What an advertisement of amount holds, and in which wallet of its maker.
HeldIn(ad) == <<ad.maker, IF ad.type = "buy" THEN Quote ELSE Base>>
HeldFor(ad, amount) == IF ad.type = "buy" THEN amount * ad.price ELSE amount

P2PTypeOK ==
    /\ ads \in [AdIds -> {NoAd} \cup
          [status : AdStatuses, type : {"buy", "sell"}, maker : Users,
           price : Prices, remaining : Nat]]
    /\ p2pOrders \in [OrderIds -> {NoOrder} \cup
          [ad : AdIds, taker : Users, amount : Amounts, total : Nat]]

P2PInit ==
    /\ ads = [a \in AdIds |-> NoAd]
    /\ p2pOrders = [o \in OrderIds |-> NoOrder]

-----------------------------------------------------------------------------
\* DebitBalance looks at the balance, locks included, and refuses less;
\* CreditBalance makes the wallet when it is missing.
DebitBalance(w, amount, ref) ==
    /\ Free(w)
    /\ wallets[w].balance >= amount
    /\ Post(Moves(w, -amount, 0, ref))
Refused(w, amount) ==
    /\ Free(w)
    /\ wallets[w].balance < amount
    /\ UNCHANGED <<wallets, ledger>>
CreditBalance(w, amount, ref) ==
    /\ Free(w)
    /\ Post(Moves(w, amount, 0, ref))

-----------------------------------------------------------------------------
\* CreateAd: the debit, then the row; a refund when the row cannot be saved.

CreateAd(c, a, u, type, price, amount) ==
    /\ ads[a] = NoAd /\ (\A d \in Workers : calls[d].on # AdRef(a))
    /\ \A b \in AdIds : b < a => ads[b] # NoAd
    /\ ~Recorded(AdRef(a))
    /\ Begin(c, "ad", "debit", AdRef(a),
             [status |-> "active", type |-> type, maker |-> u, price |-> price,
              remaining |-> amount])
    /\ UNCHANGED <<money, p2pVars>>

DebitAd(c) ==
    LET ad == calls[c].mem
        held == HeldFor(ad, ad.remaining)
    IN  /\ At(c, "ad", "debit")
        /\ \/ DebitBalance(HeldIn(ad), held, AdRef(TheAd(c))) /\ Goto(c, "insert")
           \/ Refused(HeldIn(ad), held) /\ Finish(c)
        /\ UNCHANGED <<rowLock, p2pVars>>

InsertAd(c) ==
    /\ At(c, "ad", "insert")
    /\ ads' = [ads EXCEPT ![TheAd(c)] = calls[c].mem]
    /\ Finish(c)
    /\ UNCHANGED <<money, p2pOrders>>

InsertAdFails(c) ==
    /\ At(c, "ad", "insert")
    /\ Goto(c, "undo")
    /\ UNCHANGED <<money, p2pVars>>

UndoAd(c) ==
    LET ad == calls[c].mem IN
    /\ At(c, "ad", "undo")
    /\ CreditBalance(HeldIn(ad), HeldFor(ad, ad.remaining), AdRef(TheAd(c)))
    /\ Finish(c)
    /\ UNCHANGED <<rowLock, p2pVars>>

-----------------------------------------------------------------------------
\* SetAdStatus by the maker.  Cancelling credits what remains and then writes
\* "cancelled", which the table refuses: the row stays, whatever it was.

SetAdStatus(c, a, status) ==
    /\ Room
    /\ ads[a] # NoAd
    /\ Begin(c, "status", "look", AdRef(a), status)
    /\ UNCHANGED <<money, p2pVars>>

LookAtAd(c) ==
    LET ad == ads[TheAd(c)] IN
    /\ At(c, "status", "look")
    /\ CASE calls[c].mem # "cancelled" -> Goto(c, "write")
         [] calls[c].mem = "cancelled" /\ ad.status = "completed" -> Goto(c, "write")
         [] OTHER -> IF ad.remaining > 0 THEN GotoWith(c, "refund", ad) ELSE Finish(c)
    /\ UNCHANGED <<money, p2pVars>>

WriteAdStatus(c) ==
    /\ At(c, "status", "write")
    /\ ads' = IF calls[c].mem \in AdStatuses
              THEN [ads EXCEPT ![TheAd(c)].status = calls[c].mem]
              ELSE ads
    /\ Finish(c)
    /\ UNCHANGED <<money, p2pOrders>>

RefundAd(c) ==
    LET ad == calls[c].mem IN
    /\ At(c, "status", "refund")
    /\ CreditBalance(HeldIn(ad), HeldFor(ad, ad.remaining), RefundRef(TheAd(c)))
    /\ Finish(c)
    /\ UNCHANGED <<rowLock, p2pVars>>

-----------------------------------------------------------------------------
\* CreateOrder.

CreateOrder(c, o, a, u, amount) ==
    /\ p2pOrders[o] = NoOrder /\ ~Recorded(OrderRef(o))
    /\ \A d \in Workers : calls[d].op = "order" => calls[d].mem.id # o
    /\ \A e \in OrderIds : e < o => Recorded(OrderRef(e))
    /\ Begin(c, "order", "look", AdRef(a),
             [id |-> o, ad |-> NoAd, taker |-> u, amount |-> amount])
    /\ UNCHANGED <<money, p2pVars>>

\* The advertisement is read, outside any transaction, and not again.
ReadAd(c) ==
    LET ad == ads[TheAd(c)] IN
    /\ At(c, "order", "look")
    /\ IF /\ ad.status = "active"
          /\ ad.maker # calls[c].mem.taker
          /\ calls[c].mem.amount <= ad.remaining
       THEN GotoWith(c, "debit", [calls[c].mem EXCEPT !.ad = ad])
       ELSE Finish(c)
    /\ UNCHANGED <<money, p2pVars>>

\* The three moves of the swap: the taker gives, the taker gets, the maker gets.
Total(m) == m.amount * m.ad.price
TakerGives(m) == IF m.ad.type = "buy" THEN <<m.taker, Base>> ELSE <<m.taker, Quote>>
TakerGets(m) == IF m.ad.type = "buy" THEN <<m.taker, Quote>> ELSE <<m.taker, Base>>
MakerGets(m) == <<m.ad.maker, CurrencyOf(TakerGives(m))>>
Given(m) == IF m.ad.type = "buy" THEN m.amount ELSE Total(m)
Gotten(m) == IF m.ad.type = "buy" THEN Total(m) ELSE m.amount

DebitTaker(c) ==
    LET m == calls[c].mem IN
    /\ At(c, "order", "debit")
    /\ \/ DebitBalance(TakerGives(m), Given(m), OrderRef(m.id)) /\ Goto(c, "taker")
       \/ Refused(TakerGives(m), Given(m)) /\ Finish(c)
    /\ UNCHANGED <<rowLock, p2pVars>>

\* Faulty: the order is saved before its maker is paid.
InsertEarly(c) ==
    LET m == calls[c].mem IN
    /\ At(c, "order", "taker")
    /\ p2pOrders' = [p2pOrders EXCEPT ![m.id] =
          [ad |-> TheAd(c), taker |-> m.taker, amount |-> m.amount, total |-> Total(m)]]
    /\ CreditBalance(TakerGets(m), Gotten(m), OrderRef(m.id))
    /\ Goto(c, "maker")
    /\ UNCHANGED <<rowLock, ads>>

CreditTaker(c) ==
    LET m == calls[c].mem IN
    /\ At(c, "order", "taker")
    /\ CreditBalance(TakerGets(m), Gotten(m), OrderRef(m.id))
    /\ Goto(c, "maker")
    /\ UNCHANGED <<rowLock, p2pVars>>

CreditMaker(c) ==
    LET m == calls[c].mem IN
    /\ At(c, "order", "maker")
    /\ CreditBalance(MakerGets(m), Given(m), OrderRef(m.id))
    /\ Goto(c, "update")
    /\ UNCHANGED <<rowLock, p2pVars>>

\* Faulty: only a completed advertisement gives up what it held.
FilledAtTheEnd(ad, amount) ==
    [ad EXCEPT !.status = IF ad.remaining = amount THEN "completed" ELSE @]

\* UpdateAd saves the whole row as it was read, less the order's amount.
Filled(ad, amount) ==
    [ad EXCEPT !.remaining = @ - amount,
               !.status = IF ad.remaining = amount THEN "completed" ELSE @]

UpdateAd(c) ==
    /\ At(c, "order", "update")
    /\ ads' = [ads EXCEPT ![TheAd(c)] = Filled(calls[c].mem.ad, calls[c].mem.amount)]
    /\ Goto(c, "insert")
    /\ UNCHANGED <<money, p2pOrders>>

InsertOrder(c) ==
    LET m == calls[c].mem IN
    /\ At(c, "order", "insert")
    /\ p2pOrders' = [p2pOrders EXCEPT ![m.id] =
          [ad |-> TheAd(c), taker |-> m.taker, amount |-> m.amount, total |-> Total(m)]]
    /\ Finish(c)
    /\ UNCHANGED <<money, ads>>

P2PStep(c) ==
    \/ DebitAd(c) \/ InsertAd(c) \/ InsertAdFails(c) \/ UndoAd(c)
    \/ LookAtAd(c) \/ WriteAdStatus(c) \/ RefundAd(c)
    \/ ReadAd(c) \/ DebitTaker(c) \/ CreditTaker(c) \/ CreditMaker(c)
    \/ UpdateAd(c) \/ InsertOrder(c)

P2PNext ==
    \E c \in Workers :
       \/ P2PStep(c)
       \/ \E a \in AdIds :
             \/ \E u \in Users, type \in {"buy", "sell"}, price \in Prices, amount \in Amounts :
                   CreateAd(c, a, u, type, price, amount)
             \/ \E status \in AdStatuses \cup {"cancelled"} : SetAdStatus(c, a, status)
             \/ \E o \in OrderIds, u \in Users, amount \in Amounts :
                   CreateOrder(c, o, a, u, amount)

-----------------------------------------------------------------------------
\* What the steps of the calls in progress have taken and not yet given, per
\* currency: negative when they gave first.
InFlightOf(c, cur) ==
    LET m == calls[c].mem
        funding == calls[c].op = "ad" /\ calls[c].pc \in {"insert", "undo"}
        took == calls[c].op = "order" /\ calls[c].pc \in {"taker", "maker"}
        gave == calls[c].op = "order" /\ calls[c].pc \in {"maker", "update"}
    IN  (IF funding /\ CurrencyOf(HeldIn(m)) = cur THEN HeldFor(m, m.remaining) ELSE 0)
        + (IF took /\ CurrencyOf(TakerGives(m)) = cur THEN Given(m) ELSE 0)
        - (IF gave /\ CurrencyOf(TakerGets(m)) = cur THEN Gotten(m) ELSE 0)

MovedFor(w, ref) ==
    FoldFunctionOnSet(+, 0, [i \in DOMAIN ledger[w] |->
                                ledger[w][i].after - ledger[w][i].before],
                      EntriesOf(w, ref))
RefundsOf(a, cur) ==
    FoldFunctionOnSet(+, 0, [u \in Users |-> MovedFor(<<u, cur>>, RefundRef(a))], Users)

HeldBy(a, cur) ==
    IF ads[a] # NoAd /\ CurrencyOf(HeldIn(ads[a])) = cur
    THEN HeldFor(ads[a], ads[a].remaining) ELSE 0

\* No currency is made or lost by the marketplace: the balances, what the
\* advertisements hold and what the calls in progress carry add up to the
\* opening balances plus the refunds of cancellations, which leave the
\* advertisement as it was.  It holds at every step of every order, as long
\* as no two calls worked on one advertisement and none was cut off.
P2PConserves ==
    (DOMAIN work \subseteq {"ad", "status", "order"} /\ \A a \in AdIds : Undisturbed(AdRef(a)))
    => \A cur \in Currencies :
          FoldFunctionOnSet(+, 0, [u \in Users |-> wallets[<<u, cur>>].balance], Users)
          + FoldFunctionOnSet(+, 0, [a \in AdIds |-> HeldBy(a, cur)], AdIds)
          + FoldFunctionOnSet(+, 0, [c \in Workers |-> InFlightOf(c, cur)], Workers)
          = FoldFunctionOnSet(+, 0, [u \in Users |-> OpeningOf(<<u, cur>>)], Users)
            + FoldFunctionOnSet(+, 0, [a \in AdIds |-> RefundsOf(a, cur)], AdIds)

WasMoved(w, ref, delta) ==
    \E i \in EntriesOf(w, ref) : ledger[w][i].after - ledger[w][i].before = delta

\* An order that is in the table was paid for on both sides, also when calls
\* overlap or are cut off: its three moves are recorded, each of its own amount.
OrdersArePaid ==
    \A o \in OrderIds :
        p2pOrders[o] # NoOrder =>
            LET order == p2pOrders[o]
                maker == ads[order.ad].maker
                base == IF ads[order.ad].type = "buy" THEN -order.amount ELSE order.amount
                quote == IF ads[order.ad].type = "buy" THEN order.total ELSE -order.total
            IN  /\ WasMoved(<<order.taker, Base>>, OrderRef(o), base)
                /\ WasMoved(<<order.taker, Quote>>, OrderRef(o), quote)
                /\ IF ads[order.ad].type = "buy"
                   THEN WasMoved(<<maker, Base>>, OrderRef(o), -base)
                   ELSE WasMoved(<<maker, Quote>>, OrderRef(o), -quote)

\* Every advertisement in the table was funded: its debit is recorded once and
\* was not undone.
AdsAreFunded ==
    \A a \in AdIds :
        ads[a] # NoAd => Recorded(AdRef(a)) /\ ~RecordedTwice(AdRef(a))

\* Nothing in the marketplace's tables is unpaid: no order, however it was
\* interrupted, and no advertisement.
NothingUnpaid == OrdersArePaid /\ AdsAreFunded
=============================================================================
