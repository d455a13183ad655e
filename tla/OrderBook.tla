----------------------------- MODULE OrderBook -----------------------------
(***************************************************************************)
(* The order book of one trading pair as internal/matching builds it: per  *)
(* side a tree of price levels, per level a FIFO queue with a cached       *)
(* volume, an index of the resting orders by id for O(1) cancels, the      *)
(* back-pointers of each order to its level, and a version that counts     *)
(* mutations.  All of it is touched only under the book's mutex; the       *)
(* mutex is held while taker # NoOrder.  Each iteration of the match loop  *)
(* is one step.                                                            *)
(***************************************************************************)
EXTENDS EngineOrders, SequencesExt

VARIABLES
    orders,   \* every order submitted, in order of arrival; Len(orders) = ob.seq
    taker,    \* the order being placed, or NoOrder
    result,   \* the MatchResult under construction, kept until the next Place
    tree,     \* per side, the keys of the red-black tree
    queue,    \* per side and price, the FIFO of resting ids
    volume,   \* per side and price, the cached volume of the level
    byId,     \* the keys of ob.orders
    home,     \* per order, the price of its level (o.level), or NoPrice
    version   \* ob.version

bookVars == <<tree, queue, volume, byId, home>>
vars == <<orders, taker, result, bookVars, version>>

TypeOK ==
    /\ orders \in Seq(Orders)
    /\ taker \in 0..Len(orders)
    /\ result \in [trades : Seq(Trades), canceled : Seq(Nat), rested : BOOLEAN]
    /\ tree \in [Sides -> SUBSET Prices]
    /\ queue \in [Sides -> [Prices -> Seq(1..Len(orders))]]
    /\ volume \in [Sides -> [Prices -> Int]]
    /\ byId \subseteq 1..Len(orders)
    /\ home \in [1..Len(orders) -> Prices \cup {NoPrice}]
    /\ version \in Nat

Init ==
    /\ orders = <<>>
    /\ taker = NoOrder
    /\ result = EmptyResult
    /\ tree = [s \in Sides |-> {}]
    /\ queue = [s \in Sides |-> [p \in Prices |-> <<>>]]
    /\ volume = [s \in Sides |-> [p \in Prices |-> 0]]
    /\ byId = {}
    /\ home = <<>>
    /\ version = 0

-----------------------------------------------------------------------------
\* bids.Right() or asks.Left(): the best price of a side that has a level.
BestPrice(side) ==
    CHOOSE p \in tree[side] : \A q \in tree[side] : ~ Better(side, q, p)

OppositeSide == Opposite(orders[taker].side)
OppositePrice == BestPrice(OppositeSide)
MakerLast == Last(queue[OppositeSide][OppositePrice])   \* faulty: LIFO
Maker == Head(queue[OppositeSide][OppositePrice])

\* Condition of the match loop, after bestOpposite and crosses.
Matching ==
    /\ taker # NoOrder
    /\ Remaining(orders[taker]) > 0
    /\ tree[OppositeSide] # {}
    /\ Crosses(orders[taker], OppositePrice)

\* Order id on the given side enters its level, made anew if the tree has none.
Rest(id, side, p) ==
    LET lots == Remaining(orders[id])
        found == p \in tree[side]
    IN  /\ tree' = [tree EXCEPT ![side] = @ \cup {p}]
        /\ queue' = [queue EXCEPT ![side][p] =
                        IF found THEN Append(@, id) ELSE <<id>>]
        /\ volume' = [volume EXCEPT ![side][p] =
                        IF found THEN @ + lots ELSE lots]
        /\ byId' = byId \cup {id}
        /\ home' = [home EXCEPT ![id] = p]

\* Faulty: the emptied level stays in the tree.
RemoveOrderKeepLevel(id, lots) ==
    LET side == orders[id].side
        p == home[id]
        old == queue[side][p]
        new == RemoveAt(old, CHOOSE i \in DOMAIN old : old[i] = id)
    IN  /\ queue' = [queue EXCEPT ![side][p] = new]
        /\ volume' = [volume EXCEPT ![side][p] = @ - lots]
        /\ byId' = byId \ {id}
        /\ home' = [home EXCEPT ![id] = NoPrice]
        /\ UNCHANGED tree

\* Faulty: the order leaves the index but not its level.
RemoveOrderFromIndex(id, lots) ==
    /\ byId' = byId \ {id}
    /\ UNCHANGED <<tree, queue, volume, home>>

\* Order id leaves its level, taking lots off the cached volume; an emptied
\* level leaves the tree.
RemoveOrder(id, lots) ==
    LET side == orders[id].side
        p == home[id]
        old == queue[side][p]
        new == RemoveAt(old, CHOOSE i \in DOMAIN old : old[i] = id)
    IN  /\ queue' = [queue EXCEPT ![side][p] = new]
        /\ volume' = [volume EXCEPT ![side][p] = @ - lots]
        /\ tree' = [tree EXCEPT ![side] = IF new = <<>> THEN @ \ {p} ELSE @]
        /\ byId' = byId \ {id}
        /\ home' = [home EXCEPT ![id] = NoPrice]

-----------------------------------------------------------------------------
\* Place takes the mutex and stamps the order with the next sequence number.
Place(o) ==
    /\ taker = NoOrder
    /\ Len(orders) < MaxOrders
    /\ orders' = Append(orders, o)
    /\ taker' = Len(orders) + 1
    /\ home' = Append(home, NoPrice)
    /\ result' = EmptyResult
    /\ UNCHANGED <<tree, queue, volume, byId, version>>

\* Faulty: the level gives up the dropped order's original size.
PreventSelfTradeFullSize ==
    /\ Matching
    /\ queue[OppositeSide][OppositePrice] # <<>>
    /\ orders[Maker].user = orders[taker].user
    /\ RemoveOrder(Maker, orders[Maker].qty)
    /\ result' = [result EXCEPT !.canceled = Append(@, Maker)]
    /\ UNCHANGED <<orders, taker, version>>

\* The front of the best level is the taker's own order: drop it, go on.
PreventSelfTrade ==
    /\ Matching
    /\ queue[OppositeSide][OppositePrice] # <<>>
    /\ orders[Maker].user = orders[taker].user
    /\ RemoveOrder(Maker, Remaining(orders[Maker]))
    /\ result' = [result EXCEPT !.canceled = Append(@, Maker)]
    /\ UNCHANGED <<orders, taker, version>>

\* One trade with the front of the best level, at the resting price.
Fill ==
    /\ Matching
    /\ queue[OppositeSide][OppositePrice] # <<>>
    /\ orders[Maker].user # orders[taker].user
    /\ LET qty == Least(Remaining(orders[taker]), Remaining(orders[Maker]))
       IN  /\ orders' = [orders EXCEPT ![taker].filled = @ + qty,
                                       ![Maker].filled = @ + qty]
           /\ result' = [result EXCEPT !.trades =
                           Append(@, Trade(Maker, taker,
                                           orders[Maker].price, qty))]
           /\ IF IsFilled(orders'[Maker])
              THEN RemoveOrder(Maker, qty)
              ELSE /\ volume' = [volume EXCEPT
                                   ![OppositeSide][OppositePrice] = @ - qty]
                   /\ UNCHANGED <<tree, queue, byId, home>>
    /\ UNCHANGED <<taker, version>>

\* The loop is over: rest a limit remainder, count the mutation, return.
Finish ==
    LET t == orders[taker]
        rests == t.type = "limit" /\ Remaining(t) > 0
    IN  /\ taker # NoOrder
        /\ ~ Matching
        /\ IF rests THEN Rest(taker, t.side, t.price) ELSE UNCHANGED bookVars
        /\ result' = [result EXCEPT !.rested = rests]
        /\ version' = version + 1
        /\ taker' = NoOrder
        /\ UNCHANGED orders

\* Faulty: a cancel does not count as a mutation.
CancelUncounted(id) ==
    /\ taker = NoOrder
    /\ id \in byId
    /\ home[id] # NoPrice
    /\ RemoveOrder(id, Remaining(orders[id]))
    /\ UNCHANGED <<orders, taker, result, version>>

\* Cancel finds the order in the index; one that is not resting is an error
\* that changes nothing.
Cancel(id) ==
    /\ taker = NoOrder
    /\ id \in byId
    /\ home[id] # NoPrice
    /\ RemoveOrder(id, Remaining(orders[id]))
    /\ version' = version + 1
    /\ UNCHANGED <<orders, taker, result>>

Next ==
    \/ \E o \in Inputs : Place(o)
    \/ PreventSelfTrade
    \/ Fill
    \/ Finish
    \/ \E id \in byId : Cancel(id)

\* The thread inside Place runs on: it holds the mutex and never blocks.
PlaceSteps == PreventSelfTrade \/ Fill \/ Finish

Spec == Init /\ [][Next]_vars

-----------------------------------------------------------------------------
\* Ids(q): the ids in a queue.  LotsOf: what a set of orders has left or done.
Ids(q) == {q[i] : i \in DOMAIN q}
LotsLeft(S) == FoldFunctionOnSet(+, 0, [id \in 1..Len(orders) |->
                                          Remaining(orders[id])], S)
LotsDone(S) == FoldFunctionOnSet(+, 0, [id \in 1..Len(orders) |->
                                          orders[id].filled], S)
OnSide(side) == {id \in 1..Len(orders) : orders[id].side = side}

\* The book is never crossed or locked, not even while a taker is matching:
\* every bid is below every ask (matching.go match, crosses; orderbook.go rest).
NotCrossed == \A b \in tree["buy"], a \in tree["sell"] : b < a

\* Tree, queues, index and back-pointers describe the same book: the tree has
\* exactly the levels with orders (an empty level would spin match forever),
\* and an order is in the index iff it is in the one queue its back-pointer
\* names, that of its side and limit price, with something left to trade.
IndexesAgree ==
    /\ \A s \in Sides, p \in Prices : p \in tree[s] <=> queue[s][p] # <<>>
    /\ \A id \in 1..Len(orders), s \in Sides, p \in Prices :
          (id \in Ids(queue[s][p])) <=>
             (id \in byId /\ home[id] = p /\ orders[id].side = s)
    /\ \A id \in 1..Len(orders) : (id \in byId) <=> (home[id] # NoPrice)
    /\ \A id \in byId : /\ home[id] = orders[id].price
                         /\ orders[id].type = "limit"
                         /\ Remaining(orders[id]) > 0

\* Time priority inside a level: a queue holds its orders in order of arrival,
\* each once (price_level.go push, remove).
QueuesInArrivalOrder ==
    \A s \in Sides, p \in Prices : \A i, j \in DOMAIN queue[s][p] :
        i < j => queue[s][p][i] < queue[s][p][j]

\* The cached volume that the depth feed shows is the sum of what the level's
\* orders have left, through fills, self-trade drops and cancels.
VolumesAgree ==
    \A s \in Sides : \A p \in tree[s] :
        volume[s][p] = LotsLeft(Ids(queue[s][p]))

\* Lots bought equal lots sold and nobody is filled beyond its size: a fill
\* books the same quantity on taker and maker.
FillsBalance ==
    /\ LotsDone(OnSide("buy")) = LotsDone(OnSide("sell"))
    /\ \A id \in 1..Len(orders) : orders[id].filled <= orders[id].qty

\* Every quantity the book keeps agrees with every other: what an order has
\* left and has been filled, what its level caches, and what both sides traded.
QuantitiesAgree == TypeOK /\ VolumesAgree /\ FillsBalance

\* An order that left the book (filled, cancelled, dropped by self-trade
\* prevention, or a market order that returned) never trades or rests again.
GoneForGood ==
    [][\A id \in 1..Len(orders) :
          (id \notin byId /\ id # taker) =>
             (id \notin byId' /\ orders'[id] = orders[id])]_vars

\* Trees, levels and index implement price-time priority: see PriceTimeBook.
Abstract == INSTANCE PriceTimeBook WITH resting <- byId
ImplementsPriceTime == Abstract!Spec

=============================================================================
