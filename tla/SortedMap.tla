----------------------------- MODULE SortedMap -----------------------------
(***************************************************************************)
(* What the order book asks of the container of its price levels: a map    *)
(* from prices to levels.                                                  *)
(***************************************************************************)
CONSTANTS Keys, Values, NoValue

VARIABLE map

Empty == [k \in Keys |-> NoValue]
Put(k, v) == map' = [map EXCEPT ![k] = v]
Remove(k) == map' = [map EXCEPT ![k] = NoValue]

Spec ==
    /\ map = Empty
    /\ [][\E k \in Keys : Remove(k) \/ \E v \in Values : Put(k, v)]_map
=============================================================================
