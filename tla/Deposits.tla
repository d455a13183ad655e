------------------------------ MODULE Deposits ------------------------------
(***************************************************************************)
(* Fiat deposits (walletUsecase in internal/wallet/usecase): a payment is  *)
(* opened at the provider, then the deposit row is saved; the provider's   *)
(* webhook, or the client's "verify", confirms it and credits the wallet.  *)
(* The provider is external: it reports a payment after it was made, and   *)
(* delivers a webhook again until it is answered with success.             *)
(***************************************************************************)
EXTENDS WalletLedger

CONSTANT DepositIds

VARIABLES
    deposits,  \* the deposit_requests table
    provider,  \* what the provider knows of the payment behind a deposit
    handed     \* the deposits whose client was handed the secret to pay with

depositVars == <<deposits, provider, handed>>

NoDeposit == [status |-> "none", wallet |-> NoWallet, amount |-> 0, expired |-> FALSE]
DepositRef(d) == <<"deposit", d>>
Pending(d) == deposits[d].status = "pending"
TheDeposit(c) == calls[c].on[2]

DepositsTypeOK ==
    /\ deposits \in [DepositIds ->
          {NoDeposit} \cup [status : {"pending", "completed"}, wallet : Wallets,
                            amount : Amounts, expired : BOOLEAN]]
    /\ provider \in [DepositIds -> {"unknown", "session", "intent", "paid"}]
    /\ handed \subseteq DepositIds

DepositsInit ==
    /\ deposits = [d \in DepositIds |-> NoDeposit]
    /\ provider = [d \in DepositIds |-> "unknown"]
    /\ handed = {}

-----------------------------------------------------------------------------
\* Opening a deposit: the wallet, the payment at the provider, the row.

\* Ids are taken in order.
NewDeposit(d) ==
    /\ provider[d] = "unknown"
    /\ \A e \in DepositIds : e < d => provider[e] # "unknown"
    /\ \A c \in Workers : calls[c].on # DepositRef(d)

\* A checkout session (InitiateDeposit) or a payment intent (CreateDepositIntent).
InitiateDeposit(c, d, w, amount) ==
    /\ MayName("session", w) /\ NewDeposit(d)
    /\ Begin(c, "session", "wallet", DepositRef(d), [wallet |-> w, amount |-> amount])
    /\ UNCHANGED <<money, depositVars>>

CreateDepositIntent(c, d, w, amount) ==
    /\ MayName("intent", w) /\ NewDeposit(d)
    /\ Begin(c, "intent", "wallet", DepositRef(d), [wallet |-> w, amount |-> amount])
    /\ UNCHANGED <<money, depositVars>>

\* GetOrCreate of the wallet, in a statement of its own.
OpenWallet(c) ==
    /\ calls[c].op \in {"session", "intent"} /\ calls[c].pc = "wallet"
    /\ MakeWallet(calls[c].mem.wallet)
    /\ Goto(c, "open")
    /\ UNCHANGED <<rowLock, depositVars>>

\* The provider opens the payment.
OpenPayment(c) ==
    /\ calls[c].op \in {"session", "intent"} /\ calls[c].pc = "open"
    /\ provider' = [provider EXCEPT ![TheDeposit(c)] = calls[c].op]
    /\ Goto(c, "save")
    /\ UNCHANGED <<money, deposits, handed>>

\* The row is saved, and then the client of an intent is answered with its
\* secret.  InitiateDeposit drops the session's URL, so that nobody can pay one.
SaveDeposit(c) ==
    /\ calls[c].op \in {"session", "intent"} /\ calls[c].pc = "save"
    /\ deposits' = [deposits EXCEPT ![TheDeposit(c)] =
                      [status |-> "pending", wallet |-> calls[c].mem.wallet,
                       amount |-> calls[c].mem.amount, expired |-> FALSE]]
    /\ handed' = IF calls[c].op = "intent" THEN handed \cup {TheDeposit(c)} ELSE handed
    /\ Finish(c)
    /\ UNCHANGED <<money, provider>>

\* The client pays, if it was handed the secret.  Time passes the deposit's
\* ExpiresAt.
Pay(d) ==
    /\ provider[d] = "intent" /\ d \in handed
    /\ provider' = [provider EXCEPT ![d] = "paid"]
    /\ UNCHANGED <<money, control, deposits, handed>>

Expire(d) ==
    /\ Pending(d) /\ ~deposits[d].expired
    /\ deposits' = [deposits EXCEPT ![d].expired = TRUE]
    /\ UNCHANGED <<money, control, provider, handed>>

-----------------------------------------------------------------------------
\* Confirming a deposit.

\* The provider delivers its webhook, for the first time or again.
DepositWebhook(c, d) ==
    /\ provider[d] = "paid"
    /\ Begin(c, "confirm", "read", DepositRef(d), Nothing)
    /\ UNCHANGED <<money, depositVars>>

\* VerifyDeposit: a deposit that is not pending is answered at once.
VerifyDeposit(c, d) ==
    /\ Pending(d)
    /\ Begin(c, "confirm", "ask", DepositRef(d), Nothing)
    /\ UNCHANGED <<money, depositVars>>

\* The provider is asked; the reference of a session is refused as unknown.
VerifyPayment(c) ==
    /\ At(c, "confirm", "ask")
    /\ IF provider[TheDeposit(c)] = "paid" THEN Goto(c, "read") ELSE Finish(c)
    /\ UNCHANGED <<money, depositVars>>

\* Faulty: the deposit is marked completed before it is credited.
ClaimDeposit(c) ==
    LET d == TheDeposit(c) IN
    /\ At(c, "confirm", "read")
    /\ IF Pending(d) /\ ~deposits[d].expired
       THEN Goto(c, "credit") /\ deposits' = [deposits EXCEPT ![d].status = "completed"]
       ELSE Finish(c) /\ UNCHANGED deposits
    /\ UNCHANGED <<money, provider, handed>>

\* Faulty: the status is not looked at.
ReadExpiryOnly(c) ==
    /\ At(c, "confirm", "read")
    /\ IF ~deposits[TheDeposit(c)].expired THEN Goto(c, "credit") ELSE Finish(c)
    /\ UNCHANGED <<money, depositVars>>

\* ConfirmDeposit reads the row, and looks at its status and expiry here only.
ReadDeposit(c) ==
    /\ At(c, "confirm", "read")
    /\ IF Pending(TheDeposit(c)) /\ ~deposits[TheDeposit(c)].expired
       THEN Goto(c, "credit")
       ELSE Finish(c)
    /\ UNCHANGED <<money, depositVars>>

\* The transaction: the balance, its record and the row's status.
CreditDeposit(c) ==
    LET d == TheDeposit(c)
        row == deposits[d]
    IN  /\ At(c, "confirm", "credit")
        /\ Free(row.wallet)
        /\ Post(Moves(row.wallet, row.amount, 0, DepositRef(d)))
        /\ deposits' = [deposits EXCEPT ![d].status = "completed"]
        /\ Finish(c)
        /\ UNCHANGED <<rowLock, provider, handed>>

DepositStep(c) ==
    \/ OpenWallet(c) \/ OpenPayment(c) \/ SaveDeposit(c)
    \/ VerifyPayment(c) \/ ReadDeposit(c) \/ CreditDeposit(c)

DepositNext ==
    \/ \E c \in Workers :
          \/ DepositStep(c)
          \/ \E d \in DepositIds, w \in Wallets, amount \in Amounts :
                InitiateDeposit(c, d, w, amount) \/ CreateDepositIntent(c, d, w, amount)
          \/ \E d \in DepositIds : DepositWebhook(c, d) \/ VerifyDeposit(c, d)
    \/ \E d \in DepositIds : Pay(d) \/ Expire(d)

-----------------------------------------------------------------------------
\* A deposit's row and the transactions table agree: it is completed exactly
\* when its credit is recorded, whatever was cut off or delivered twice.
DepositsMatchLedger ==
    \A d \in DepositIds :
        deposits[d].status = "completed" <=> Recorded(DepositRef(d))

\* A payment that was made can be credited: its deposit's row is there, also
\* when the call that opened it was cut off after the provider had.
PaymentsHaveRows ==
    \A d \in DepositIds : provider[d] = "paid" => deposits[d].status # "none"

\* No wallet is credited for a payment the provider has not received.
NoCreditWithoutPayment ==
    \A d \in DepositIds : Recorded(DepositRef(d)) => provider[d] = "paid"

\* One payment is credited once when its confirmations do not overlap: any
\* number of later deliveries and verifications changes nothing.
DepositedOnce ==
    \A d \in DepositIds :
        DepositRef(d) \notin raced => ~RecordedTwice(DepositRef(d))

\* "The row is locked FOR UPDATE so concurrent webhook retries can't
\* double-credit" (wallet_usecase.go): the row that is locked is the wallet's,
\* and the deposit's status is not read again under that lock.
NoDoubleCredit == \A d \in DepositIds : ~RecordedTwice(DepositRef(d))

\* A payment that was made is credited, even when calls are cut off, unless
\* the deposit expires first.
PaidIsCredited ==
    \A d \in DepositIds :
        provider[d] = "paid" ~> (Recorded(DepositRef(d)) \/ deposits[d].expired)

\* Every deposit is accounted for: a payment has a row, a credit has a payment
\* and a completed row, and there is one of it, whatever is cut off, expires or
\* is delivered twice.
DepositsAccounted ==
    DepositsMatchLedger /\ PaymentsHaveRows /\ NoCreditWithoutPayment /\ DepositedOnce
=============================================================================
