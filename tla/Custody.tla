------------------------------ MODULE Custody ------------------------------
(***************************************************************************)
(* The custody services over their common wallets: deposits, withdrawals,  *)
(* on-chain wallets and transfers, the marketplace, the order service's    *)
(* and the market maker's transactions, and the escrow contract beside     *)
(* them.  Calls of several steps are run by the same workers, and any of   *)
(* them may be cut off between two of its steps.                           *)
(***************************************************************************)
EXTENDS Deposits, Withdrawals, CryptoWallet, P2PMarket, TradingWallets, P2PEscrow

vars == <<money, control, raced, depositVars, withdrawalVars, cryptoVars, p2pVars,
          tradingVars, escrowVars>>

Operations == {"session", "intent", "confirm", "withdraw", "approve", "reject",
               "credit", "debit", "address", "webhook", "transfer", "send",
               "ad", "status", "order", "hold", "release", "trade", "topup", "escrow"}

ASSUME WorkloadsAssumption ==
    \A load \in Workloads :
        DOMAIN load \subseteq Operations /\ \A op \in DOMAIN load : load[op] \subseteq Wallets
ASSUME WorkersAssumption == Workers \subseteq Nat \ {NoCall} /\ IsFiniteSet(Workers)

LedgerTypeOK ==
    /\ wallets \in [Wallets -> Wallet]
    /\ rowLock \in [Wallets -> Workers \cup {NoCall}]
    /\ \A c \in Workers : calls[c].op \in Operations \cup {"idle"}
    /\ work \in Workloads
    /\ faults \in 0..MaxFaults

TypeOK ==
    /\ LedgerTypeOK /\ DepositsTypeOK /\ WithdrawalsTypeOK
    /\ CryptoTypeOK /\ P2PTypeOK /\ TradingTypeOK /\ EscrowTypeOK

\* The ledger all services write to is sound: the balances, locks and rows have
\* their types, and the records of every wallet chain from its opening balance
\* to the one it has, whichever services' transactions meet on it, but for the
\* house's top-ups.
LedgerIsSound == TypeOK /\ AuditTrail

Init ==
    /\ LedgerInit /\ DepositsInit /\ WithdrawalsInit
    /\ CryptoInit /\ P2PInit /\ TradingInit /\ EscrowInit

-----------------------------------------------------------------------------
Deposited ==
    DepositNext /\ UNCHANGED <<withdrawalVars, cryptoVars, p2pVars, tradingVars, escrowVars>>
Withdrawn ==
    WithdrawalNext /\ UNCHANGED <<depositVars, cryptoVars, p2pVars, tradingVars, escrowVars>>
OnChain ==
    CryptoNext /\ UNCHANGED <<depositVars, withdrawalVars, p2pVars, tradingVars, escrowVars>>
Traded ==
    P2PNext /\ UNCHANGED <<depositVars, withdrawalVars, cryptoVars, tradingVars, escrowVars>>
Exchanged ==
    TradingNext /\ UNCHANGED <<depositVars, withdrawalVars, cryptoVars, p2pVars, escrowVars>>
Escrowed ==
    /\ "escrow" \in DOMAIN work
    /\ EscrowNext
    /\ UNCHANGED <<money, control, depositVars, withdrawalVars, cryptoVars, p2pVars,
                   tradingVars>>
Interrupted ==
    /\ \E c \in Workers : CutOff(c)
    /\ UNCHANGED <<depositVars, withdrawalVars, cryptoVars, p2pVars, tradingVars, escrowVars>>

Next ==
    /\ \/ Deposited \/ Withdrawn \/ OnChain \/ Traded \/ Exchanged \/ Escrowed
       \/ Interrupted
    /\ raced' = raced \cup Overlapping'

\* A call that was started goes on, and gets a row lock it waits for, since the
\* database serves the waiting in turn; the payment provider delivers a
\* webhook again as long as it is not answered with success.
StepOf(c) ==
    /\ \/ /\ DepositStep(c)
          /\ UNCHANGED <<withdrawalVars, cryptoVars, p2pVars, tradingVars, escrowVars>>
       \/ /\ CryptoStep(c)
          /\ UNCHANGED <<depositVars, withdrawalVars, p2pVars, tradingVars, escrowVars>>
    /\ raced' = raced \cup Overlapping'
Delivery(d) ==
    /\ \E c \in Workers : DepositWebhook(c, d)
    /\ UNCHANGED <<withdrawalVars, cryptoVars, p2pVars, tradingVars, escrowVars>>
    /\ raced' = raced \cup Overlapping'

Fairness ==
    /\ \A c \in Workers : SF_vars(StepOf(c))
    /\ \A d \in DepositIds : SF_vars(Delivery(d))

Spec == Init /\ [][Next]_vars /\ Fairness

-----------------------------------------------------------------------------
\* The marketplace, which looks at a balance and not at what is locked of it,
\* took something from w.
MarketTook(w) ==
    \E i \in DOMAIN ledger[w] :
        /\ ledger[w][i].ref[1] \in {"ad", "order"}
        /\ ledger[w][i].after < ledger[w][i].before

\* The withdrawals and the order service share the locks of a wallet: what is
\* locked is what the pending withdrawals reserved and what the order service
\* holds, as long as no two calls worked on one of the withdrawals at once and
\* the order service gave up no more than it held.  The balance covers it,
\* unless the marketplace took from the wallet as well.
LocksArePending ==
    \A w \in Wallets :
        /\ \A x \in WithdrawalIds : withdrawals[x].wallet = w => WithdrawalRef(x) \notin raced
        /\ w \notin excess
        => /\ wallets[w].locked =
                held[w] + FoldFunctionOnSet(+, 0,
                             [x \in WithdrawalIds |-> withdrawals[x].amount], PendingOn(w))
           /\ MarketTook(w) \/ wallets[w].locked <= wallets[w].balance
=============================================================================
