---------------------------- MODULE Withdrawals ----------------------------
(***************************************************************************)
(* Fiat withdrawals (walletUsecase.InitiateWithdrawal and the admin's      *)
(* approval and rejection), and the admin's adjustments of a balance.  A   *)
(* withdrawal reserves its amount, is paid out at the provider between two *)
(* transactions, and is settled; InitiateWithdrawal does all three itself, *)
(* and an admin may work on the same row as long as it reads pending.      *)
(***************************************************************************)
EXTENDS WalletLedger, FiniteSetsExt

CONSTANT WithdrawalIds

VARIABLES
    withdrawals,  \* the withdrawal_requests table
    paid,         \* external: how often the provider paid a withdrawal out
    lost          \* external: how often it did, and the answer was an error

withdrawalVars == <<withdrawals, paid, lost>>

NoWithdrawal == [status |-> "none", wallet |-> NoWallet, amount |-> 0]
WithdrawalRef(x) == <<"withdrawal", x>>
AdminRef == <<"admin", 0>>
TheWithdrawal(c) == calls[c].on[2]
RowOf(c) == withdrawals[TheWithdrawal(c)]
Review == {"approve", "reject"}

WithdrawalsTypeOK ==
    /\ withdrawals \in [WithdrawalIds ->
          {NoWithdrawal} \cup [status : {"pending", "completed", "failed"},
                               wallet : Wallets, amount : Amounts]]
    /\ paid \in [WithdrawalIds -> Nat]
    /\ lost \in [WithdrawalIds -> Nat]

WithdrawalsInit ==
    /\ withdrawals = [x \in WithdrawalIds |-> NoWithdrawal]
    /\ paid = [x \in WithdrawalIds |-> 0]
    /\ lost = [x \in WithdrawalIds |-> 0]

PendingOn(w) ==
    {x \in WithdrawalIds : withdrawals[x].wallet = w /\ withdrawals[x].status = "pending"}

-----------------------------------------------------------------------------
InitiateWithdrawal(c, x, w, amount) ==
    /\ MayName("withdraw", w) /\ wallets[w].made
    /\ withdrawals[x].status = "none"
    /\ \A y \in WithdrawalIds : y < x => withdrawals[y].status # "none"
    /\ \A d \in Workers : calls[d].on # WithdrawalRef(x)
    /\ Begin(c, "withdraw", "reserve", WithdrawalRef(x), [wallet |-> w, amount |-> amount])
    /\ UNCHANGED <<money, withdrawalVars>>

\* The first transaction: under the wallet's row lock, no other withdrawal is
\* pending and the amount is available; it is locked and the row inserted.
Reserve(c) ==
    LET w == calls[c].mem.wallet
        amount == calls[c].mem.amount
    IN  /\ At(c, "withdraw", "reserve")
        /\ Free(w)
        /\ IF PendingOn(w) = {} /\ Available(w) >= amount
           THEN /\ Relock(w, amount)
                /\ withdrawals' = [withdrawals EXCEPT ![TheWithdrawal(c)] =
                      [status |-> "pending", wallet |-> w, amount |-> amount]]
                /\ Goto(c, "payout")
           ELSE Finish(c) /\ UNCHANGED <<wallets, ledger, withdrawals>>
        /\ UNCHANGED <<rowLock, paid, lost>>

\* ApproveWithdrawal and RejectWithdrawal look at the status outside any
\* transaction, and not again.
ApproveWithdrawal(c, x) ==
    /\ withdrawals[x].status = "pending"
    /\ Begin(c, "approve", "payout", WithdrawalRef(x), Nothing)
    /\ UNCHANGED <<money, withdrawalVars>>

RejectWithdrawal(c, x) ==
    /\ withdrawals[x].status = "pending"
    /\ Begin(c, "reject", "release", WithdrawalRef(x), Nothing)
    /\ UNCHANGED <<money, withdrawalVars>>

\* CreateDisbursement asks the provider to pay.  What is counted is that it
\* paid; how much is a conversion that InitiateWithdrawal makes and
\* ApproveWithdrawal leaves out.
AtPayout(c) == calls[c].op \in {"withdraw", "approve"} /\ calls[c].pc = "payout"
Payout(c) ==
    /\ AtPayout(c)
    /\ paid' = [paid EXCEPT ![TheWithdrawal(c)] = @ + 1]
    /\ Goto(c, "settle")
    /\ UNCHANGED <<money, withdrawals, lost>>

\* An error: an approval leaves the row as it is; an initiation goes on to
\* release the lock.
TakenAsRefused(c) == IF calls[c].op = "withdraw" THEN Goto(c, "release") ELSE Finish(c)

PayoutRefused(c) ==
    /\ AtPayout(c)
    /\ TakenAsRefused(c)
    /\ UNCHANGED <<money, withdrawalVars>>

\* The client answers with an error also when the provider paid and its answer
\* did not come, was not understood or named no batch.
PayoutLost(c) ==
    /\ AtPayout(c)
    /\ faults < MaxFaults
    /\ faults' = faults + 1
    /\ paid' = [paid EXCEPT ![TheWithdrawal(c)] = @ + 1]
    /\ lost' = [lost EXCEPT ![TheWithdrawal(c)] = @ + 1]
    /\ calls' = [calls EXCEPT ![c] = IF calls[c].op = "withdraw"
                                    THEN [calls[c] EXCEPT !.pc = "release"] ELSE Idle]
    /\ UNCHANGED <<money, withdrawals, work, hurt>>

\* Faulty: the status is left as it was.
SettleUnmarked(c) ==
    /\ calls[c].op \in {"withdraw", "approve"} /\ calls[c].pc = "settle"
    /\ Free(RowOf(c).wallet)
    /\ Post(Moves(RowOf(c).wallet, -RowOf(c).amount, -RowOf(c).amount,
                  WithdrawalRef(TheWithdrawal(c))))
    /\ Finish(c)
    /\ UNCHANGED <<rowLock, withdrawalVars>>

\* The second transaction: balance, lock, record and status together.
Settle(c) ==
    /\ calls[c].op \in {"withdraw", "approve"} /\ calls[c].pc = "settle"
    /\ Free(RowOf(c).wallet)
    /\ Post(Moves(RowOf(c).wallet, -RowOf(c).amount, -RowOf(c).amount,
                  WithdrawalRef(TheWithdrawal(c))))
    /\ withdrawals' = [withdrawals EXCEPT ![TheWithdrawal(c)].status = "completed"]
    /\ Finish(c)
    /\ UNCHANGED <<rowLock, paid, lost>>

\* A refused payout or a rejection: the lock is released and the row failed.
\* After a payout the errors of these statements are ignored; one that fails
\* aborts the transaction, which is the call cut off here.
ReleaseLock(c) ==
    /\ calls[c].op \in {"withdraw", "reject"} /\ calls[c].pc = "release"
    /\ Free(RowOf(c).wallet)
    /\ Relock(RowOf(c).wallet, -RowOf(c).amount)
    /\ withdrawals' = [withdrawals EXCEPT ![TheWithdrawal(c)].status = "failed"]
    /\ Finish(c)
    /\ UNCHANGED <<rowLock, paid, lost>>

\* The admin's Credit and Debit, each one transaction.
AdminCredit(c, w, amount) ==
    /\ MayName("credit", w) /\ Room /\ wallets[w].made
    /\ Begin(c, "credit", "credit", AdminRef, [wallet |-> w, amount |-> amount])
    /\ UNCHANGED <<money, withdrawalVars>>

AdminDebit(c, w, amount) ==
    /\ MayName("debit", w) /\ Room /\ wallets[w].made
    /\ Begin(c, "debit", "debit", AdminRef, [wallet |-> w, amount |-> amount])
    /\ UNCHANGED <<money, withdrawalVars>>

\* Faulty: the row is read without its lock.
CreditUnlocked(c) ==
    LET w == calls[c].mem.wallet IN
    /\ At(c, "credit", "credit")
    /\ Post(Moves(w, calls[c].mem.amount, 0, AdminRef))
    /\ Finish(c)
    /\ UNCHANGED <<rowLock, withdrawalVars>>

Credit(c) ==
    LET w == calls[c].mem.wallet IN
    /\ At(c, "credit", "credit")
    /\ Free(w)
    /\ Post(Moves(w, calls[c].mem.amount, 0, AdminRef))
    /\ Finish(c)
    /\ UNCHANGED <<rowLock, withdrawalVars>>

Debit(c) ==
    LET w == calls[c].mem.wallet IN
    /\ At(c, "debit", "debit")
    /\ Free(w)
    /\ IF Available(w) >= calls[c].mem.amount
       THEN Post(Moves(w, -calls[c].mem.amount, 0, AdminRef))
       ELSE UNCHANGED <<wallets, ledger>>
    /\ Finish(c)
    /\ UNCHANGED <<rowLock, withdrawalVars>>

WithdrawalStep(c) ==
    \/ Reserve(c) \/ Payout(c) \/ PayoutRefused(c) \/ PayoutLost(c) \/ Settle(c)
    \/ ReleaseLock(c)
    \/ Credit(c) \/ Debit(c)

WithdrawalNext ==
    \E c \in Workers :
       \/ WithdrawalStep(c)
       \/ \E w \in Wallets, amount \in Amounts :
             \/ \E x \in WithdrawalIds : InitiateWithdrawal(c, x, w, amount)
             \/ AdminCredit(c, w, amount)
             \/ AdminDebit(c, w, amount)
       \/ \E x \in WithdrawalIds : ApproveWithdrawal(c, x) \/ RejectWithdrawal(c, x)

-----------------------------------------------------------------------------
\* A wallet is debited for a withdrawal no more often than a payout of it was
\* answered with success, whoever settles it, and however initiation, approval
\* and rejection overlap.
NeverDebitedUnpaid ==
    \A x \in WithdrawalIds :
        \A w \in Wallets : Cardinality(EntriesOf(w, WithdrawalRef(x))) <= paid[x] - lost[x]

\* A withdrawal that one call at a time worked on, none of them cut off, ends
\* with its status telling what happened, save for the payouts that were made
\* and answered with an error, which nothing in the program knows of: completed,
\* paid once besides those and debited once; failed or still pending between
\* calls, paid no more than those and not debited.
PayoutsMatchStatus ==
    \A x \in WithdrawalIds :
        LET w == withdrawals[x].wallet
            debits == IF w = NoWallet THEN 0 ELSE Cardinality(EntriesOf(w, WithdrawalRef(x)))
        IN  (/\ Undisturbed(WithdrawalRef(x))
             /\ \A c \in Workers : calls[c].on # WithdrawalRef(x))
            => CASE withdrawals[x].status = "completed" -> paid[x] = lost[x] + 1 /\ debits = 1
                 [] OTHER -> paid[x] = lost[x] /\ debits = 0

\* Every withdrawal is accounted for: payouts, debits and status agree.
WithdrawalsAccounted == NeverDebitedUnpaid /\ PayoutsMatchStatus
=============================================================================
