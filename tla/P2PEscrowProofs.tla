-------------------------- MODULE P2PEscrowProofs --------------------------
(***************************************************************************)
(* Proofs about P2PEscrow, for every set of orders and of values and every *)
(* number of transactions in the pool: an order's ether leaves once, whole,*)
(* to one party; the contract and its client implement the escrow's        *)
(* promise; and an answer of the client tells what the contract did.       *)
(***************************************************************************)
EXTENDS P2PEscrow, SequenceTheorems, TLAPS

\* The call that waits submitted the last transaction of the pool, and one
\* that has its receipt left the pool empty.
WaitsForLast ==
    /\ waiting.receipt = "none" => pool # <<>> /\ pool[Len(pool)] = waiting.tx
    /\ waiting.receipt \in {"success", "reverted"} => pool = <<>>

EscrowInv ==
    /\ EscrowTypeOK
    /\ EscrowPaysOnce
    /\ WaitsForLast
    /\ AnswersAreTrue

-----------------------------------------------------------------------------
LEMMA EscrowInitInv == EscrowInit => EscrowInv
<1> SUFFICES ASSUME EscrowInit PROVE EscrowInv
  OBVIOUS
<1>1. EscrowTypeOK
  BY DEF EscrowInit, EscrowTypeOK, Escrow, States, NoEscrow, Unlocked
<1>2. EscrowPaysOnce
  BY DEF EscrowInit, EscrowPaysOnce, PaidRightly, NoEscrow, Live
<1>3. WaitsForLast /\ AnswersAreTrue
  BY DEF EscrowInit, WaitsForLast, AnswersAreTrue, Unlocked
<1> QED BY <1>1, <1>2, <1>3 DEF EscrowInv

\* What one mined transaction does to the contract: it puts the value of a
\* new escrow in, or moves a live one to a state that says where it is, and
\* only a payment takes it out.
PutsIn(o, v) ==
    /\ escrows[o].state = "None" /\ v \in Values
    /\ escrows' = [escrows EXCEPT ![o] = [state |-> "Funded", amount |-> v, value |-> v]]
    /\ UNCHANGED payouts
Stays(o, state) ==
    /\ escrows[o].state \in Live /\ state \in Live
    /\ escrows' = [escrows EXCEPT ![o].state = state]
    /\ UNCHANGED payouts
Pays(o, state, party) ==
    /\ escrows[o].state \in Live
    /\ <<state, party>> \in {<<"Released", "buyer">>, <<"Refunded", "seller">>}
    /\ Send(o, state, party)

\* Each function of the contract is one of the three, and leaves the state
\* that its caller asked for.
LEMMA ExecuteCases ==
  ASSUME NEW tx \in Txs, Execute(tx)
  PROVE  LET o == tx.order
             s == ResultOf(tx.method)
         IN  /\ o \in OrderHashes
             /\ \/ s = "Funded" /\ PutsIn(o, tx.value)
                \/ Stays(o, s)
                \/ \E party \in {"buyer", "seller"} : Pays(o, s, party)
<1>1. /\ tx.order \in OrderHashes /\ tx.method \in Methods
      /\ tx.value \in Values \cup {0}
  BY DEF Txs
<1>2. CASE CreateEscrow(tx)
  <2>1. tx.value \in Values
    BY <1>1, <1>2, ValuesAssumption DEF CreateEscrow
  <2> QED BY <1>1, <1>2, <2>1 DEF CreateEscrow, Deposit, PutsIn, ResultOf
<1>3. CASE MarkPaid(tx)
  BY <1>1, <1>3 DEF MarkPaid, Mark, Stays, ResultOf, Live
<1>4. CASE Release(tx)
  BY <1>1, <1>4 DEF Release, Pays, ResultOf, Live
<1>5. CASE Refund(tx)
  BY <1>1, <1>5 DEF Refund, Pays, ResultOf, Live
<1>6. CASE RaiseDispute(tx)
  BY <1>1, <1>6 DEF RaiseDispute, Mark, Stays, ResultOf, Live
<1>7. CASE ResolveDispute(tx)
  BY <1>1, <1>7 DEF ResolveDispute, Pays, ResultOf, Live
<1> QED BY <1>2, <1>3, <1>4, <1>5, <1>6, <1>7 DEF Execute

-----------------------------------------------------------------------------
\* The contract's part of the invariant, for each of the three.

ContractOK ==
    /\ escrows \in [OrderHashes -> Escrow]
    /\ payouts \in [OrderHashes -> Seq(Payments)]
    /\ EscrowPaysOnce

LEMMA PutsInOK ==
  ASSUME ContractOK, NEW o \in OrderHashes, NEW v, PutsIn(o, v)
  PROVE  ContractOK'
<1>1. v \in Nat
  BY ValuesAssumption DEF PutsIn
<1>2. [state |-> "Funded", amount |-> v, value |-> v] \in Escrow
  BY <1>1 DEF Escrow, States
<1>3. escrows' \in [OrderHashes -> Escrow] /\ payouts' = payouts
  BY <1>2 DEF ContractOK, PutsIn
<1>4. \A p \in OrderHashes : p # o => escrows'[p] = escrows[p]
  BY DEF ContractOK, PutsIn
<1>5. escrows'[o] = [state |-> "Funded", amount |-> v, value |-> v] /\ payouts[o] = <<>>
  BY DEF ContractOK, PutsIn, EscrowPaysOnce, PaidRightly
<1>6. PaidRightly(escrows'[o], payouts'[o])
  BY <1>3, <1>5 DEF PaidRightly, Live
<1>7. EscrowPaysOnce'
  BY <1>3, <1>4, <1>6 DEF ContractOK, EscrowPaysOnce
<1> QED BY <1>3, <1>7 DEF ContractOK

LEMMA StaysOK ==
  ASSUME ContractOK, NEW o \in OrderHashes, NEW state, Stays(o, state)
  PROVE  ContractOK'
<1>1. /\ \A p \in OrderHashes : p # o => escrows'[p] = escrows[p]
      /\ escrows'[o] = [escrows[o] EXCEPT !.state = state]
      /\ payouts' = payouts
      /\ state \in Live /\ escrows[o].state \in Live
  BY DEF ContractOK, Stays
<1>2. /\ escrows[o] \in Escrow
      /\ escrows'[o].state = state
      /\ escrows'[o].amount = escrows[o].amount /\ escrows'[o].value = escrows[o].value
  BY <1>1 DEF ContractOK, Escrow
<1>3. escrows'[o] \in Escrow
  BY <1>1, <1>2 DEF Escrow, Live, States
<1>4. escrows' \in [OrderHashes -> Escrow]
  BY <1>3 DEF ContractOK, Stays
<1>5. PaidRightly(escrows'[o], payouts'[o])
  BY <1>1, <1>2 DEF ContractOK, EscrowPaysOnce, PaidRightly, Live
<1>6. EscrowPaysOnce'
  BY <1>1, <1>5 DEF ContractOK, EscrowPaysOnce
<1> QED BY <1>1, <1>4, <1>6 DEF ContractOK

LEMMA PaysOK ==
  ASSUME ContractOK, NEW o \in OrderHashes, NEW state, NEW party, Pays(o, state, party)
  PROVE  ContractOK'
<1> DEFINE paid == [to |-> party, amount |-> escrows[o].amount]
<1>1. /\ \A p \in OrderHashes : p # o => escrows'[p] = escrows[p] /\ payouts'[p] = payouts[p]
      /\ escrows'[o] = [escrows[o] EXCEPT !.state = state, !.amount = 0]
      /\ payouts'[o] = Append(payouts[o], paid)
  BY DEF ContractOK, Pays, Send
<1>2. /\ escrows[o] \in Escrow
      /\ escrows'[o].state = state
      /\ escrows'[o].amount = 0 /\ escrows'[o].value = escrows[o].value
  BY <1>1 DEF ContractOK, Escrow
<1>3. /\ payouts[o] = <<>> /\ escrows[o].amount = escrows[o].value
      /\ \/ state = "Released" /\ party = "buyer"
         \/ state = "Refunded" /\ party = "seller"
  BY DEF ContractOK, Pays, EscrowPaysOnce, PaidRightly, Live
<1>4. escrows'[o] \in Escrow /\ paid \in Payments
  <2>1. state \in States /\ party \in {"buyer", "seller"}
    BY <1>3 DEF States
  <2>2. escrows'[o] = [escrows[o] EXCEPT !.state = state, !.amount = 0]
    BY <1>1
  <2>3. escrows'[o] \in Escrow
    <3> HIDE DEF paid
    <3>1. 0 \in Nat
      OBVIOUS
    <3> QED BY <1>2, <2>1, <2>2, <3>1 DEF Escrow
  <2> QED BY <1>2, <2>1, <2>3 DEF Escrow, Payments
<1>5. escrows' \in [OrderHashes -> Escrow] /\ payouts' \in [OrderHashes -> Seq(Payments)]
  <2>1. Append(payouts[o], paid) \in Seq(Payments)
    BY <1>4, AppendProperties DEF ContractOK
  <2> QED BY <1>4, <2>1 DEF ContractOK, Pays, Send
<1>6. payouts'[o] = <<[to |-> party, amount |-> escrows'[o].value]>>
  BY <1>1, <1>2, <1>3
<1>7. PaidRightly(escrows'[o], payouts'[o])
  BY <1>2, <1>3, <1>6 DEF PaidRightly, Live
<1>8. EscrowPaysOnce'
  BY <1>1, <1>7 DEF ContractOK, EscrowPaysOnce
<1> QED BY <1>5, <1>8 DEF ContractOK

LEMMA ExecuteOK ==
  ASSUME ContractOK, NEW tx \in Txs, Execute(tx)
  PROVE  /\ ContractOK'
         /\ escrows'[tx.order].state = ResultOf(tx.method)
<1> DEFINE o == tx.order
           s == ResultOf(tx.method)
<1>1. /\ o \in OrderHashes
      /\ \/ s = "Funded" /\ PutsIn(o, tx.value)
         \/ Stays(o, s)
         \/ \E party \in {"buyer", "seller"} : Pays(o, s, party)
  BY ExecuteCases
<1> HIDE DEF o, s
<1>2. ContractOK'
  BY <1>1, PutsInOK, StaysOK, PaysOK
<1>3. escrows[o] \in Escrow /\ escrows \in [OrderHashes -> Escrow]
  BY <1>1 DEF ContractOK
<1>4. escrows'[o].state = s
  BY <1>1, <1>3 DEF PutsIn, Stays, Pays, Send, Escrow
<1> QED BY <1>2, <1>4 DEF o, s

-----------------------------------------------------------------------------
\* The steps of the chain and of the client.

\* The transaction mined next, and what is left of the pool.
LEMMA PoolFacts ==
  ASSUME pool \in Seq(Txs), pool # <<>>
  PROVE  /\ Head(pool) \in Txs /\ Tail(pool) \in Seq(Txs)
         /\ Head(pool) = pool[1]
         /\ Len(pool) = 1 => Tail(pool) = <<>>
         /\ Len(pool) # 1 => /\ Tail(pool) # <<>>
                             /\ Tail(pool)[Len(Tail(pool))] = pool[Len(pool)]
<1>1. Len(pool) \in Nat /\ Len(pool) > 0
  BY EmptySeq, LenProperties
<1>2. /\ Head(pool) \in Txs /\ Tail(pool) \in Seq(Txs) /\ Head(pool) = pool[1]
      /\ Len(Tail(pool)) = Len(pool) - 1
      /\ \A i \in 1 .. Len(pool) - 1 : Tail(pool)[i] = pool[i + 1]
  BY HeadTailProperties
<1>3. Len(pool) = 1 => Tail(pool) = <<>>
  <2> SUFFICES ASSUME Len(pool) = 1 PROVE Tail(pool) = <<>>
    OBVIOUS
  <2>1. Len(Tail(pool)) = 0
    BY <1>2
  <2> QED BY <1>2, <2>1, EmptySeq
<1>4. ASSUME Len(pool) # 1
      PROVE  Tail(pool) # <<>> /\ Tail(pool)[Len(Tail(pool))] = pool[Len(pool)]
  <2>1. Len(pool) - 1 \in 1 .. Len(pool) - 1
    <3> DEFINE n == Len(pool)
    <3>1. n \in Nat /\ n > 0 /\ n # 1
      BY <1>1, <1>4
    <3> HIDE DEF n
    <3>2. n - 1 \in 1 .. n - 1
      BY <3>1
    <3> QED BY <3>2 DEF n
  <2>2. Tail(pool)[Len(pool) - 1] = pool[Len(pool) - 1 + 1]
    BY <1>2, <2>1
  <2>3. Len(pool) - 1 + 1 = Len(pool)
    BY <1>1
  <2> QED BY <1>2, <2>1, <2>2, <2>3, EmptySeq
<1> QED BY <1>2, <1>3, <1>4

\* A transaction leaves the pool: the waiting call, if it is its own, learns
\* of it, and otherwise goes on waiting for the last one.
LEMMA LeavesPool ==
  ASSUME EscrowInv, pool # <<>>,
         NEW r \in {"success", "reverted"},
         pool' = Tail(pool),
         waiting' = IF Awaited THEN [waiting EXCEPT !.receipt = r] ELSE waiting
  PROVE  /\ WaitsForLast'
         /\ waiting' \in {Unlocked} \cup
               [receipt : {"none", "success", "reverted"}, tx : Txs]
         /\ waiting'.receipt = "success" => Awaited /\ waiting'.tx = Head(pool) /\ r = "success"
<1>1. /\ pool \in Seq(Txs)
      /\ waiting \in {Unlocked} \cup [receipt : {"none", "success", "reverted"}, tx : Txs]
      /\ waiting.receipt \notin {"success", "reverted"}
      /\ waiting.receipt = "none" => pool[Len(pool)] = waiting.tx
  BY DEF EscrowInv, EscrowTypeOK, WaitsForLast
<1>2. CASE Awaited
  <2>1. /\ waiting.receipt = "none" /\ Len(pool) = 1
        /\ waiting' = [waiting EXCEPT !.receipt = r]
    BY <1>2 DEF Awaited
  <2>2. waiting \in [receipt : {"none", "success", "reverted"}, tx : Txs]
    BY <1>1, <2>1 DEF Unlocked
  <2>3. waiting'.receipt = r /\ waiting'.tx = waiting.tx
    BY <2>1, <2>2
  <2>4. pool' = <<>> /\ Head(pool) = waiting.tx
    BY <1>1, <2>1, PoolFacts
  <2> QED BY <1>2, <2>1, <2>2, <2>3, <2>4 DEF WaitsForLast
<1>3. CASE ~Awaited
  <2>1. waiting' = waiting
    BY <1>3
  <2>2. waiting.receipt = "none" => Len(pool) # 1
    BY <1>3 DEF Awaited
  <2>3. waiting.receipt = "none" => pool' # <<>> /\ pool'[Len(pool')] = waiting'.tx
    BY <1>1, <2>1, <2>2, PoolFacts
  <2> QED BY <1>1, <2>1, <2>3 DEF WaitsForLast
<1> QED BY <1>2, <1>3

LEMMA StepInv == EscrowInv /\ [EscrowNext]_escrowVars => EscrowInv'
<1> SUFFICES ASSUME EscrowInv, [EscrowNext]_escrowVars PROVE EscrowInv'
  OBVIOUS
<1>0. /\ ContractOK /\ pool \in Seq(Txs) /\ nonce \in Nat
      /\ waiting \in {Unlocked} \cup [receipt : {"none", "success", "reverted"}, tx : Txs]
  BY DEF EscrowInv, EscrowTypeOK, ContractOK
<1>1. CASE Mine
  <2>1. /\ pool # <<>> /\ Execute(Head(pool)) /\ pool' = Tail(pool) /\ nonce' = nonce
        /\ waiting' = IF Awaited THEN [waiting EXCEPT !.receipt = "success"] ELSE waiting
    BY <1>1 DEF Mine
  <2>2. Head(pool) \in Txs /\ pool' \in Seq(Txs)
    BY <1>0, <2>1, PoolFacts
  <2>3. ContractOK' /\ escrows'[Head(pool).order].state = ResultOf(Head(pool).method)
    BY <1>0, <2>1, <2>2, ExecuteOK
  <2>4. /\ WaitsForLast'
        /\ waiting' \in {Unlocked} \cup
              [receipt : {"none", "success", "reverted"}, tx : Txs]
        /\ waiting'.receipt = "success" => waiting'.tx = Head(pool)
    BY <2>1, LeavesPool
  <2>5. AnswersAreTrue'
    BY <2>3, <2>4 DEF AnswersAreTrue
  <2> QED BY <1>0, <2>1, <2>2, <2>3, <2>4, <2>5 DEF EscrowInv, EscrowTypeOK, ContractOK
<1>2. CASE Revert
  <2>1. /\ pool # <<>> /\ pool' = Tail(pool) /\ UNCHANGED <<escrows, payouts, nonce>>
        /\ waiting' = IF Awaited THEN [waiting EXCEPT !.receipt = "reverted"] ELSE waiting
    BY <1>2 DEF Revert
  <2>2. pool' \in Seq(Txs)
    BY <1>0, <2>1, PoolFacts
  <2>3. /\ WaitsForLast'
        /\ waiting' \in {Unlocked} \cup
              [receipt : {"none", "success", "reverted"}, tx : Txs]
        /\ waiting'.receipt # "success"
    BY <2>1, LeavesPool
  <2>4. AnswersAreTrue'
    BY <2>3 DEF AnswersAreTrue
  <2> QED BY <1>0, <2>1, <2>2, <2>3, <2>4
          DEF EscrowInv, EscrowTypeOK, ContractOK, EscrowPaysOnce
<1>3. CASE WaitMined \/ GiveUp
  <2>1. waiting' = Unlocked /\ UNCHANGED <<escrows, payouts, pool, nonce>>
    BY <1>3 DEF WaitMined, GiveUp
  <2>2. WaitsForLast' /\ AnswersAreTrue'
    BY <2>1 DEF WaitsForLast, AnswersAreTrue, Unlocked
  <2> QED BY <1>0, <2>1, <2>2 DEF EscrowInv, EscrowTypeOK, ContractOK, EscrowPaysOnce
<1>4. ASSUME NEW tx \in Txs, Transact(tx) PROVE EscrowInv'
  <2>1. /\ pool' = Append(pool, tx) /\ nonce' = nonce + 1
        /\ waiting' = [receipt |-> "none", tx |-> tx]
        /\ UNCHANGED <<escrows, payouts>>
    BY <1>4 DEF Transact
  <2>2. /\ pool' \in Seq(Txs) /\ pool' # <<>> /\ pool'[Len(pool')] = tx
    BY <1>0, <2>1, AppendProperties
  <2>3. WaitsForLast' /\ AnswersAreTrue'
    BY <2>1, <2>2 DEF WaitsForLast, AnswersAreTrue
  <2> QED BY <1>0, <2>1, <2>2, <2>3 DEF EscrowInv, EscrowTypeOK, ContractOK, EscrowPaysOnce
<1>5. CASE UNCHANGED escrowVars
  BY <1>5 DEF escrowVars, EscrowInv, EscrowTypeOK, EscrowPaysOnce, WaitsForLast,
              AnswersAreTrue
<1> QED BY <1>1, <1>2, <1>3, <1>4, <1>5 DEF EscrowNext

THEOREM EscrowInvHolds == EscrowSpec => []EscrowInv
  BY EscrowInitInv, StepInv, PTL DEF EscrowSpec

\* The variables keep their types.
THEOREM EscrowTypes == EscrowSpec => []EscrowTypeOK
<1>1. EscrowInv => EscrowTypeOK
  BY DEF EscrowInv
<1> QED BY <1>1, EscrowInvHolds, PTL

\* However many calls are given up and tried again, an order's ether leaves
\* the contract at most once, whole, to the party its final state names.
THEOREM EtherLeavesOnce == EscrowSpec => []EscrowPaysOnce
<1>1. EscrowInv => EscrowPaysOnce
  BY DEF EscrowInv
<1> QED BY <1>1, EscrowInvHolds, PTL

\* A call that answers success answers for its own transaction, and nothing
\* was mined after it.
THEOREM ClientAnswersTrue == EscrowSpec => []AnswersAreTrue
<1>1. EscrowInv => AnswersAreTrue
  BY DEF EscrowInv
<1> QED BY <1>1, EscrowInvHolds, PTL

-----------------------------------------------------------------------------
\* The refinement.

DealOf(state) ==
    CASE state = "None" -> "none"
      [] state \in Live -> "held"
      [] state = "Released" -> "buyer"
      [] state = "Refunded" -> "seller"

LEMMA DealIs ==
  /\ Deal = [o \in OrderHashes |-> DealOf(escrows[o].state)]
  /\ DealOf("None") = "none" /\ DealOf("Released") = "buyer"
  /\ DealOf("Refunded") = "seller" /\ \A s \in Live : DealOf(s) = "held"
  BY DEF Deal, DealOf, Live

Worth == [o \in OrderHashes |-> escrows[o].value]

LEMMA PutsInRefines ==
  ASSUME ContractOK, NEW o \in OrderHashes, NEW v, PutsIn(o, v)
  PROVE  Promise!Next
<1>1. v \in Values /\ Deal[o] = "none"
  BY DealIs DEF PutsIn
<1>2. /\ escrows'[o] = [state |-> "Funded", amount |-> v, value |-> v]
      /\ \A p \in OrderHashes : p # o => escrows'[p] = escrows[p]
  BY DEF ContractOK, PutsIn
<1>3. Deal' = [Deal EXCEPT ![o] = "held"]
  <2>1. Deal' = [p \in OrderHashes |-> DealOf(escrows'[p].state)]
    BY DEF Deal, DealOf
  <2>2. DealOf(escrows'[o].state) = "held"
    BY <1>2, DealIs DEF Live
  <2> QED BY <1>2, <2>1, <2>2, DealIs
<1>4. Worth' = [Worth EXCEPT ![o] = v]
  <2>1. escrows'[o].value = v
    BY <1>2
  <2>2. \A p \in OrderHashes : p # o => escrows'[p].value = escrows[p].value
    BY <1>2
  <2> QED BY <2>1, <2>2 DEF Worth
<1>5. Promise!PutIn(o, v)
  BY <1>1, <1>3, <1>4 DEF Promise!PutIn, Worth
<1> QED BY <1>1, <1>5 DEF Promise!Next

LEMMA StaysRefines ==
  ASSUME ContractOK, NEW o \in OrderHashes, NEW state, Stays(o, state)
  PROVE  UNCHANGED <<Deal, Worth>>
<1>1. /\ escrows[o] \in Escrow
      /\ escrows'[o] = [escrows[o] EXCEPT !.state = state]
      /\ \A p \in OrderHashes : p # o => escrows'[p] = escrows[p]
      /\ state \in Live /\ escrows[o].state \in Live
  BY DEF ContractOK, Stays
<1>2. escrows'[o].state = state /\ escrows'[o].value = escrows[o].value
  BY <1>1 DEF Escrow
<1>3. Deal' = [p \in OrderHashes |-> DealOf(escrows'[p].state)]
  BY DEF Deal, DealOf
<1>4. \A p \in OrderHashes : DealOf(escrows'[p].state) = DealOf(escrows[p].state)
  BY <1>1, <1>2, DealIs
<1>5. Deal' = Deal
  BY <1>3, <1>4, DealIs
<1>6. Worth' = Worth
  BY <1>1, <1>2 DEF Worth
<1> QED BY <1>5, <1>6

LEMMA PaysRefines ==
  ASSUME ContractOK, NEW o \in OrderHashes, NEW state, NEW party, Pays(o, state, party)
  PROVE  Promise!Next
<1>1. /\ escrows[o] \in Escrow
      /\ escrows'[o] = [escrows[o] EXCEPT !.state = state, !.amount = 0]
      /\ \A p \in OrderHashes : p # o => escrows'[p] = escrows[p]
      /\ escrows[o].state \in Live
  BY DEF ContractOK, Pays, Send
<1>2. escrows'[o].state = state /\ escrows'[o].value = escrows[o].value
  BY <1>1 DEF Escrow
<1>3. party \in {"buyer", "seller"} /\ DealOf(state) = party
  BY DealIs DEF Pays
<1>4. Deal' = [Deal EXCEPT ![o] = party]
  <2>1. Deal' = [p \in OrderHashes |-> DealOf(escrows'[p].state)]
    BY DEF Deal, DealOf
  <2> QED BY <1>1, <1>2, <1>3, <2>1, DealIs
<1>5. Worth' = Worth
  BY <1>1, <1>2 DEF Worth
<1>6. Deal[o] = "held"
  BY <1>1, DealIs
<1>7. Promise!PayOut(o, party)
  BY <1>4, <1>5, <1>6 DEF Promise!PayOut, Worth
<1> QED BY <1>3, <1>7 DEF Promise!Next

LEMMA EscrowStepRefines ==
  ASSUME EscrowInv, [EscrowNext]_escrowVars
  PROVE  [Promise!Next]_(<<Deal, Worth>>)
<1>1. CASE Mine
  <2> DEFINE tx == Head(pool)
  <2>1. ContractOK /\ pool \in Seq(Txs)
    BY DEF EscrowInv, EscrowTypeOK, ContractOK
  <2>2. tx \in Txs /\ Execute(tx)
    BY <1>1, <2>1, PoolFacts DEF Mine
  <2> HIDE DEF tx
  <2>3. /\ tx.order \in OrderHashes
        /\ \/ PutsIn(tx.order, tx.value)
           \/ Stays(tx.order, ResultOf(tx.method))
           \/ \E party \in {"buyer", "seller"} :
                Pays(tx.order, ResultOf(tx.method), party)
    BY <2>2, ExecuteCases
  <2> QED BY <2>1, <2>3, PutsInRefines, StaysRefines, PaysRefines
<1>2. ASSUME escrows' = escrows PROVE UNCHANGED <<Deal, Worth>>
  BY <1>2 DEF Deal, Worth
<1> QED BY <1>1, <1>2 DEF EscrowNext, Revert, WaitMined, GiveUp, Transact, escrowVars

\* The contract, driven by a client that may give up and try again, is an
\* escrow that takes an order's value in once and pays it out once.
THEOREM EscrowKeepsPromise == EscrowSpec => KeepsPromise
<1>1. EscrowInit => Promise!Init
  <2> SUFFICES ASSUME EscrowInit PROVE Promise!Init
    OBVIOUS
  <2>1. \A o \in OrderHashes : escrows[o].state = "None" /\ escrows[o].value = 0
    BY DEF EscrowInit, NoEscrow
  <2>2. Deal = [o \in OrderHashes |-> "none"]
    BY <2>1, DealIs
  <2> QED BY <2>1, <2>2 DEF Promise!Init
<1>2. EscrowInv /\ [EscrowNext]_escrowVars
        => [Promise!Next]_(<<Deal, [o \in OrderHashes |-> escrows[o].value]>>)
  BY EscrowStepRefines DEF Worth
<1> QED BY <1>1, <1>2, EscrowInvHolds, PTL DEF EscrowSpec, Promise!Spec, KeepsPromise

=============================================================================
