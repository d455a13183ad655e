--------------------------- MODULE MCOrderService ---------------------------
(***************************************************************************)
(* Inputs of the order service's runs.                                     *)
(***************************************************************************)
EXTENDS OrderService

CONSTANTS u1, u2

Order(u, side, price, qty) ==
    [user |-> u, side |-> side, qty |-> qty, filled |-> 0, price |-> price,
     type |-> IF price = NoPrice THEN "market" ELSE "limit"]

\* Everything but market buys: they are not checked for funds beforehand.
CheckedOrders == {o \in NewOrders : o.side = "sell" \/ o.type = "limit"}

\* Two sizes on one side, so that orders fill in parts and in several trades.
CrossingOrders ==
    {Order(u1, "sell", 1, 2), Order(u1, "buy", 1, 1),
     Order(u2, "buy", 1, 1), Order(u2, "buy", NoPrice, 1)}

\* A seller, a buyer that bids above it, and a market buyer.
ImprovingOrders == {Order(u1, "sell", 1, 1), Order(u2, "buy", 2, 1)}
UnfundedOrders == {Order(u1, "sell", 2, 1), Order(u2, "buy", NoPrice, 1)}
=============================================================================
