--------------------------- MODULE EscrowPromise ---------------------------
(***************************************************************************)
(* What an escrow promises its two parties, without its states, its        *)
(* disputes and its transactions: an order's value is put in once, and     *)
(* leaves once, whole, to the buyer or to the seller.                      *)
(***************************************************************************)
EXTENDS Naturals

CONSTANTS OrderHashes, Values

VARIABLES
    deal,   \* what became of an order's value
    worth   \* how much it is

Init ==
    /\ deal = [o \in OrderHashes |-> "none"]
    /\ worth = [o \in OrderHashes |-> 0]

PutIn(o, value) ==
    /\ deal[o] = "none"
    /\ deal' = [deal EXCEPT ![o] = "held"]
    /\ worth' = [worth EXCEPT ![o] = value]

PayOut(o, party) ==
    /\ deal[o] = "held"
    /\ deal' = [deal EXCEPT ![o] = party]
    /\ UNCHANGED worth

Next ==
    \E o \in OrderHashes :
        \/ \E value \in Values : PutIn(o, value)
        \/ \E party \in {"buyer", "seller"} : PayOut(o, party)

Spec == Init /\ [][Next]_<<deal, worth>>
=============================================================================
