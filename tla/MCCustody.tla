----------------------------- MODULE MCCustody -----------------------------
(***************************************************************************)
(* Inputs of the custody runs: what the clients of one behaviour call.     *)
(***************************************************************************)
EXTENDS Custody, TLC

\* Every operation in ops names the wallets ws.
Naming(ops, ws) == [op \in ops |-> ws]

\* A wallet that exists and one that does not.
FiatIn == Naming({"session", "intent", "confirm"}, {<<1, "ETH">>, <<2, "USDT">>})
FiatOut == Naming({"withdraw", "approve", "reject"}, {<<1, "ETH">>})
\* Two users of one chain, and another chain.
Derived == Naming({"address"},
              {<<1, "ETH">>, <<2, "SOL">>, <<2, "USDT">>})
ChainIn == Naming({"address", "webhook"}, {<<1, "ETH">>, <<2, "USDT">>})
SharedIn == Naming({"address", "webhook"}, {<<1, "SOL">>, <<2, "SOL">>})
Transfers == Naming({"transfer"}, {<<1, "ETH">>, <<2, "ETH">>})
\* A currency the provider can send, and one it cannot.
Sends == Naming({"send"}, {<<1, "ETH">>, <<1, "USDT">>})
Market == Naming({"ad", "status", "order"}, {})
Escrows == Naming({"escrow"}, {})
\* Several services on one wallet: an admin's debits beside orders; withdrawals
\* beside orders, beside trades and beside the marketplace; transfers, whose
\* rows are read one step before they are written, beside adjustments and the
\* house's top-ups.
Corrected == Naming({"debit", "hold", "release"}, {<<1, "ETH">>})
Ordered == Naming({"withdraw", "hold", "release"}, {<<1, "ETH">>})
Exchange ==
    Naming({"hold", "withdraw"}, {<<2, "ETH">>})
    @@ Naming({"trade"}, {<<2, "ETH">>, <<1, "USDT">>})
Overdrawn == Naming({"ad", "withdraw"}, {<<1, "ETH">>})
Meeting ==
    Transfers @@ Naming({"credit"}, {<<1, "ETH">>}) @@ Naming({"topup"}, {<<2, "ETH">>})

EveryWorkload ==
    {FiatIn, FiatOut, Derived, ChainIn, SharedIn,
     Transfers, Sends, Market, Escrows, Corrected, Ordered, Exchange, Overdrawn, Meeting}
OnlyFiatIn == {FiatIn}

UsersWithMoney == {<<1, "ETH">>, <<2, "ETH">>, <<1, "USDT">>}
=============================================================================
