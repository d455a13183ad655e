---------------------------- MODULE MCOrderBook ----------------------------
(***************************************************************************)
(* Inputs of the order book's run: every limit order there is, so that     *)
(* price and time priority among three resting orders shows, and market    *)
(* orders large enough to sweep two of them.                               *)
(***************************************************************************)
EXTENDS OrderBook

LimitsAndSweeps == {o \in NewOrders : o.type = "limit" \/ o.qty = 2}
UserSymmetry == Permutations(Users)
=============================================================================
