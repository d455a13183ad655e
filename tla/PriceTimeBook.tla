--------------------------- MODULE PriceTimeBook ---------------------------
(***************************************************************************)
(* What an order book promises, with no data structure: a set of resting   *)
(* orders, of which an incoming order always meets the one with the best   *)
(* price and, at that price, the earliest arrival.  One order at a time is *)
(* being placed (the engine holds the book's mutex during Place).          *)
(*                                                                         *)
(* OrderBook implements this specification with trees, FIFO levels and an  *)
(* index; OrderService composes it with the wallets and the database.      *)
(***************************************************************************)
EXTENDS EngineOrders

VARIABLES
    orders,   \* every order submitted so far, in order of arrival
    resting,  \* the ids of the orders on the book
    taker,    \* the id of the order being placed, or NoOrder
    result    \* what the current (or last) Place reports

vars == <<orders, resting, taker, result>>

TypeOK ==
    /\ orders \in Seq(Orders)
    /\ resting \subseteq 1..Len(orders)
    /\ taker \in 0..Len(orders)
    /\ result \in [trades : Seq(Trades), canceled : Seq(Nat), rested : BOOLEAN]

Init ==
    /\ orders = <<>>
    /\ resting = {}
    /\ taker = NoOrder
    /\ result = EmptyResult

\* The resting orders the taker may meet, and the one it must meet first.
Candidates ==
    {m \in resting : /\ orders[m].side = Opposite(orders[taker].side)
                     /\ Crosses(orders[taker], orders[m].price)}

Ahead(m, n) ==
    \/ Better(orders[m].side, orders[m].price, orders[n].price)
    \/ orders[m].price = orders[n].price /\ m < n

HasPriority(m) ==
    /\ m \in Candidates
    /\ \A n \in Candidates \ {m} : Ahead(m, n)

MayMatch(m) ==
    /\ taker # NoOrder
    /\ Remaining(orders[taker]) > 0
    /\ HasPriority(m)

MatchDone == Remaining(orders[taker]) = 0 \/ Candidates = {}

\* An order arrives and takes the book's mutex.
Arrive(o) ==
    /\ taker = NoOrder
    /\ Len(orders) < MaxOrders
    /\ orders' = Append(orders, o)
    /\ taker' = Len(orders) + 1
    /\ result' = EmptyResult
    /\ UNCHANGED resting

\* Self-trade prevention: the resting order is cancelled, the taker goes on.
CancelOwnMaker(m) ==
    /\ MayMatch(m)
    /\ orders[m].user = orders[taker].user
    /\ resting' = resting \ {m}
    /\ result' = [result EXCEPT !.canceled = Append(@, m)]
    /\ UNCHANGED <<orders, taker>>

\* A trade at the resting price; a filled maker leaves the book.
Execute(m) ==
    LET qty == Least(Remaining(orders[taker]), Remaining(orders[m]))
    IN  /\ MayMatch(m)
        /\ orders[m].user # orders[taker].user
        /\ orders' = [orders EXCEPT ![taker].filled = @ + qty,
                                    ![m].filled = @ + qty]
        /\ resting' = IF Remaining(orders[m]) = qty THEN resting \ {m}
                                                    ELSE resting
        /\ result' = [result EXCEPT !.trades =
                        Append(@, Trade(m, taker, orders[m].price, qty))]
        /\ UNCHANGED taker

\* Place returns: a limit remainder rests, a market remainder is dropped.
Complete ==
    LET rests == /\ orders[taker].type = "limit"
                 /\ Remaining(orders[taker]) > 0
    IN  /\ taker # NoOrder
        /\ MatchDone
        /\ resting' = IF rests THEN resting \cup {taker} ELSE resting
        /\ result' = [result EXCEPT !.rested = rests]
        /\ taker' = NoOrder
        /\ UNCHANGED orders

\* A resting order is withdrawn by its owner.
Withdraw(id) ==
    /\ taker = NoOrder
    /\ id \in resting
    /\ resting' = resting \ {id}
    /\ UNCHANGED <<orders, taker, result>>

Next ==
    \/ \E o \in Inputs : Arrive(o)
    \/ \E m \in resting : CancelOwnMaker(m) \/ Execute(m) \/ Withdraw(m)
    \/ Complete

Spec == Init /\ [][Next]_vars
=============================================================================
