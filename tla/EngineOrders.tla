---------------------------- MODULE EngineOrders ----------------------------
(***************************************************************************)
(* The vocabulary of the matching engine (internal/matching/order.go,      *)
(* types.go, matching.go): orders in integer ticks and lots, and the two   *)
(* comparisons on prices that matching is built from.  An order is         *)
(* identified by its arrival number, the Sequence the book assigns; the    *)
(* uuid of the order service is in bijection with it.                      *)
(*                                                                         *)
(* Here and in the other modules a definition marked "Faulty" is not part  *)
(* of the model: it is the definition after it with a likely bug, and       *)
(* stands in for it to show that a property would notice.                  *)
(***************************************************************************)
EXTENDS Naturals, Sequences, FiniteSets

CONSTANTS
    Users,       \* owners of orders
    Prices,      \* tick prices of limit orders
    Quantities,  \* order sizes, in lots
    Inputs,      \* the orders clients submit, a subset of NewOrders
    MaxOrders    \* bound: how many orders are ever submitted

ASSUME PricesAssumption == Prices \subseteq Nat \ {0} /\ IsFiniteSet(Prices)
ASSUME QuantitiesAssumption == Quantities \subseteq Nat \ {0}
ASSUME MaxOrdersAssumption == MaxOrders \in Nat

Sides == {"buy", "sell"}
Types == {"limit", "market"}

NoPrice == 0   \* Price is left zero on a market order
NoOrder == 0   \* no taker: the book's mutex is free

Opposite(side) == IF side = "buy" THEN "sell" ELSE "buy"

\* Everything the book can hold, and what may be submitted to it.
Orders == [user : Users, side : Sides, type : Types,
           price : Prices \cup {NoPrice}, qty : Quantities, filled : Nat]
NewOrders == {o \in [user : Users, side : Sides, type : Types,
                     price : Prices \cup {NoPrice}, qty : Quantities,
                     filled : {0}] :
                (o.type = "market") <=> (o.price = NoPrice)}

ASSUME InputsAssumption == Inputs \subseteq NewOrders

Remaining(o) == o.qty - o.filled
IsFilled(o) == o.filled >= o.qty

\* Faulty: equal prices do not cross.
CrossesStrictly(t, p) ==
    \/ t.type = "market"
    \/ t.side = "buy" /\ p < t.price
    \/ t.side = "sell" /\ p > t.price

\* May taker t trade at the resting price p?
Crosses(t, p) ==
    \/ t.type = "market"
    \/ t.side = "buy" /\ p <= t.price
    \/ t.side = "sell" /\ p >= t.price

\* p is strictly more attractive than q among the prices resting on a side.
Better(side, p, q) == IF side = "buy" THEN p > q ELSE p < q

Least(m, n) == IF m <= n THEN m ELSE n

\* A trade, as reported in MatchResult.Trades.
Trade(maker, taker, price, qty) ==
    [maker |-> maker, taker |-> taker, price |-> price, qty |-> qty]
Trades == [maker : Nat, taker : Nat, price : Prices \cup {NoPrice}, qty : Nat]

EmptyResult == [trades |-> <<>>, canceled |-> <<>>, rested |-> FALSE]
=============================================================================
