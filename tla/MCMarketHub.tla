---------------------------- MODULE MCMarketHub ----------------------------
EXTENDS MarketHub

\* Limit orders of which the bids cover two asks, one of them of the same user.
FeedOrders == {o \in NewOrders : /\ o.type = "limit"
                                 /\ o.side = "buy" <=> o.qty = 2}
=============================================================================
