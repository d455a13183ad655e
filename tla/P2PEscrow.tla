----------------------------- MODULE P2PEscrow -----------------------------
(***************************************************************************)
(* The escrow contract (contracts/P2PEscrow.sol) and the client that       *)
(* operates it (internal/p2p/chain/escrow.go).  The client is the only     *)
(* signer; one call at a time submits a transaction and waits until it is  *)
(* mined.  A call whose context ends stops waiting and answers an error,   *)
(* but its transaction stays in the pool, is mined later, and may be       *)
(* followed by the retry of the same call.  The chain mines the signer's   *)
(* transactions in the order of their nonces.                              *)
(***************************************************************************)
EXTENDS Integers, Sequences, FiniteSetsExt

CONSTANTS
    OrderHashes,
    Values,     \* amounts of ether attached to createEscrow
    MaxPool,    \* bound: transactions in the pool at a time
    MaxNonce    \* bound: transactions submitted

ASSUME ValuesAssumption == Values \subseteq Nat \ {0}
ASSUME PoolAssumption == MaxPool \in Nat /\ MaxNonce \in Nat

VARIABLES
    escrows,   \* the contract's mapping, without the two addresses
    payouts,   \* the ether that left for an order: what and to whom
    pool,      \* the signer's transactions that are not mined yet
    nonce,     \* how many were submitted
    waiting    \* the call that holds the client's mutex: its transaction and
               \* the receipt it got

escrowVars == <<escrows, payouts, pool, nonce, waiting>>

-----------------------------------------------------------------------------
States == {"None", "Funded", "Paid", "Released", "Refunded", "Disputed"}
Live == {"Funded", "Paid", "Disputed"}
Methods == {"createEscrow", "markPaid", "release", "refund", "raiseDispute",
            "resolveToBuyer", "resolveToSeller"}
Txs == [method : Methods, order : OrderHashes, value : Values \cup {0}]
Payments == [to : {"buyer", "seller"}, amount : Nat]
Escrow == [state : States, amount : Nat, value : Nat]
Unlocked == [receipt |-> "unlocked", tx |-> <<>>]
NoEscrow == [state |-> "None", amount |-> 0, value |-> 0]

EscrowTypeOK ==
    /\ escrows \in [OrderHashes -> Escrow]
    /\ payouts \in [OrderHashes -> Seq(Payments)]
    /\ pool \in Seq(Txs)
    /\ nonce \in Nat
    /\ waiting \in {Unlocked} \cup [receipt : {"none", "success", "reverted"}, tx : Txs]

EscrowInit ==
    /\ escrows = [o \in OrderHashes |-> NoEscrow]
    /\ payouts = [o \in OrderHashes |-> <<>>]
    /\ pool = <<>>
    /\ nonce = 0
    /\ waiting = Unlocked

-----------------------------------------------------------------------------
\* The contract's functions.

Deposit(o, value) ==
    /\ escrows' = [escrows EXCEPT ![o] = [state |-> "Funded", amount |-> value,
                                          value |-> value]]
    /\ UNCHANGED payouts

Mark(o, state) ==
    /\ escrows' = [escrows EXCEPT ![o].state = state]
    /\ UNCHANGED payouts

\* The state and the amount are written before the ether is sent.
Send(o, state, party) ==
    /\ escrows' = [escrows EXCEPT ![o].state = state, ![o].amount = 0]
    /\ payouts' = [payouts EXCEPT ![o] =
          Append(@, [to |-> party, amount |-> escrows[o].amount])]

CreateEscrow(tx) ==
    /\ tx.method = "createEscrow"
    /\ escrows[tx.order].state = "None" /\ tx.value > 0
    /\ Deposit(tx.order, tx.value)

MarkPaid(tx) ==
    /\ tx.method = "markPaid"
    /\ escrows[tx.order].state = "Funded"
    /\ Mark(tx.order, "Paid")

Release(tx) ==
    /\ tx.method = "release"
    /\ escrows[tx.order].state \in {"Funded", "Paid"}
    /\ Send(tx.order, "Released", "buyer")

Refund(tx) ==
    /\ tx.method = "refund"
    /\ escrows[tx.order].state \in {"Funded", "Paid", "Disputed"}
    /\ Send(tx.order, "Refunded", "seller")

\* Faulty: a dispute may still be raised when the ether has left.
RaiseDisputeLate(tx) ==
    /\ tx.method = "raiseDispute"
    /\ escrows[tx.order].state \in {"Funded", "Paid", "Released"}
    /\ Mark(tx.order, "Disputed")

RaiseDispute(tx) ==
    /\ tx.method = "raiseDispute"
    /\ escrows[tx.order].state \in {"Funded", "Paid"}
    /\ Mark(tx.order, "Disputed")

ResolveDispute(tx) ==
    /\ escrows[tx.order].state = "Disputed"
    /\ \/ tx.method = "resolveToBuyer" /\ Send(tx.order, "Released", "buyer")
       \/ tx.method = "resolveToSeller" /\ Send(tx.order, "Refunded", "seller")

Execute(tx) ==
    \/ CreateEscrow(tx) \/ MarkPaid(tx) \/ Release(tx) \/ Refund(tx)
    \/ RaiseDispute(tx) \/ ResolveDispute(tx)

-----------------------------------------------------------------------------
\* The chain and the client.

\* Faulty: any receipt of the signer is taken for the call's own.
AnyReceipt == waiting.receipt = "none"

\* Is the transaction mined next the one the client waits for?
Awaited == waiting.receipt = "none" /\ Len(pool) = 1

Mine ==
    /\ pool # <<>>
    /\ Execute(Head(pool))
    /\ pool' = Tail(pool)
    /\ waiting' = IF Awaited THEN [waiting EXCEPT !.receipt = "success"] ELSE waiting
    /\ UNCHANGED nonce

\* A require fails, or the party refuses the ether: nothing changes but the nonce.
Revert ==
    /\ pool # <<>>
    /\ pool' = Tail(pool)
    /\ waiting' = IF Awaited THEN [waiting EXCEPT !.receipt = "reverted"] ELSE waiting
    /\ UNCHANGED <<escrows, payouts, nonce>>

\* send: under the mutex, the transaction is submitted.
Transact(tx) ==
    /\ waiting = Unlocked
    /\ Len(pool) < MaxPool /\ nonce < MaxNonce
    /\ tx.method = "createEscrow" <=> tx.value > 0
    /\ pool' = Append(pool, tx)
    /\ nonce' = nonce + 1
    /\ waiting' = [receipt |-> "none", tx |-> tx]
    /\ UNCHANGED <<escrows, payouts>>

\* The receipt has arrived: the call answers.
WaitMined ==
    /\ waiting.receipt \in {"success", "reverted"}
    /\ waiting' = Unlocked
    /\ UNCHANGED <<escrows, payouts, pool, nonce>>

\* The call's context ends first: it answers an error.
GiveUp ==
    /\ waiting.receipt = "none"
    /\ waiting' = Unlocked
    /\ UNCHANGED <<escrows, payouts, pool, nonce>>

EscrowNext ==
    \/ Mine \/ Revert \/ WaitMined \/ GiveUp
    \/ \E tx \in Txs : Transact(tx)

EscrowSpec == EscrowInit /\ [][EscrowNext]_escrowVars

-----------------------------------------------------------------------------
\* An order's ether leaves the contract at most once, whole, to the party its
\* final state names, and is all there before: however often calls were
\* given up and tried again.
PaidRightly(e, paid) ==
    /\ e.state = "None" => paid = <<>> /\ e.amount = 0
    /\ e.state \in Live => paid = <<>> /\ e.amount = e.value
    /\ e.state = "Released" =>
          paid = <<[to |-> "buyer", amount |-> e.value]>> /\ e.amount = 0
    /\ e.state = "Refunded" =>
          paid = <<[to |-> "seller", amount |-> e.value]>> /\ e.amount = 0
EscrowPaysOnce == \A o \in OrderHashes : PaidRightly(escrows[o], payouts[o])

\* When a call answers that its transaction succeeded, the contract is in the
\* state that the call asked for: transactions given up earlier were mined
\* before it, and no other call can have come in between.
ResultOf(method) ==
    CASE method = "createEscrow" -> "Funded"
      [] method = "markPaid" -> "Paid"
      [] method \in {"release", "resolveToBuyer"} -> "Released"
      [] method \in {"refund", "resolveToSeller"} -> "Refunded"
      [] method = "raiseDispute" -> "Disputed"
AnswersAreTrue ==
    waiting.receipt = "success" =>
        escrows[waiting.tx.order].state = ResultOf(waiting.tx.method)

\* The contract and its client keep the promise of an escrow.
Deal ==
    [o \in OrderHashes |->
        CASE escrows[o].state = "None" -> "none"
          [] escrows[o].state \in Live -> "held"
          [] escrows[o].state = "Released" -> "buyer"
          [] escrows[o].state = "Refunded" -> "seller"]
Promise == INSTANCE EscrowPromise WITH
              deal <- Deal, worth <- [o \in OrderHashes |-> escrows[o].value]
KeepsPromise == Promise!Spec
=============================================================================
