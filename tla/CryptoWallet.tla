---------------------------- MODULE CryptoWallet ----------------------------
(***************************************************************************)
(* On-chain wallets (crypto_wallet_usecase.go) and the transfers between   *)
(* users that are addressed like them (Transfer, InitiateCryptoWithdrawal  *)
(* in wallet_usecase.go): deposit addresses derived from one master key    *)
(* per chain, the provider's webhook for an incoming transaction, and      *)
(* withdrawals the provider sends.                                         *)
(***************************************************************************)
EXTENDS WalletLedger, FiniteSetsExt

CONSTANTS
    TxIds,   \* incoming on-chain transactions
    SendIds  \* withdrawals

VARIABLES
    addresses,  \* the crypto_addresses table, by wallet
    onchain,    \* external: the transactions sent to our addresses
    sent        \* external: how often the provider sent a withdrawal

cryptoVars == <<addresses, onchain, sent>>

ChainFor(currency) ==
    CASE currency \in {"ETH", "USDT"} -> "ethereum"
      [] currency = "BTC" -> "bitcoin"
      [] currency = "SOL" -> "solana"
      [] currency = "BNB" -> "bsc"

\* What the provider is asked to send is in one of these.
Sendable == {"BTC", "ETH"}
NoAddress == [chain |-> "none", index |-> 0]
Address(chain, index) == [chain |-> chain, index |-> index]
NoTx == [to |-> NoAddress, amount |-> 0]
ChainRef(chain) == <<"chain", chain>>
TxRef(t) == <<"tx", t>>
SendRef(x) == <<"send", x>>
TransferRef == <<"transfer", 0>>
NoRow == [made |-> FALSE, balance |-> 0, locked |-> 0]
Owners(address) == {w \in Wallets : addresses[w] = address}
Chains == {ChainFor(cur) : cur \in Currencies}

\* Faulty: the highest index of the currency, not of the chain.
HighestOfCurrency(chain) ==
    IF chain = "ethereum"
    THEN Max({0} \cup {addresses[w].index : w \in {v \in Wallets : CurrencyOf(v) = "USDT"}})
    ELSE 0

\* GetHighestDerivationIndex: over all users and currencies of a chain.
HighestIndex(chain) ==
    Max({0} \cup {addresses[w].index : w \in {v \in Wallets : addresses[v].chain = chain}})

CryptoTypeOK ==
    /\ addresses \in [Wallets -> {NoAddress} \cup [chain : Chains, index : Nat]]
    /\ onchain \in [TxIds -> {NoTx} \cup [to : [chain : Chains, index : Nat], amount : Amounts]]
    /\ sent \in [SendIds -> 0..1]

\* Where transfers are made, users 1..n have asked for their "ETH" address.
FirstAddresses ==
    [w \in Wallets |-> IF CurrencyOf(w) = "ETH" THEN Address("ethereum", UserOf(w))
                       ELSE NoAddress]

CryptoInit ==
    /\ addresses = IF "transfer" \in DOMAIN work THEN FirstAddresses
                   ELSE [w \in Wallets |-> NoAddress]
    /\ onchain = [t \in TxIds |-> NoTx]
    /\ sent = [x \in SendIds |-> 0]

-----------------------------------------------------------------------------
\* getOrCreateAddress.

\* A wallet that has its address is answered with it.
GetDepositAddress(c, w) ==
    /\ MayName("address", w)
    /\ addresses[w] = NoAddress
    /\ Begin(c, "address", "derive", ChainRef(ChainFor(CurrencyOf(w))), w)
    /\ UNCHANGED <<money, cryptoVars>>

\* The next index of the chain; Solana has one address, at index 0, for all.
DeriveAddress(c) ==
    LET w == calls[c].mem
        chain == ChainFor(CurrencyOf(w))
    IN  /\ At(c, "address", "derive")
        /\ GotoWith(c, "save", [wallet |-> w, address |-> Address(chain,
                       IF chain = "solana" THEN 0 ELSE HighestIndex(chain) + 1)])
        /\ UNCHANGED <<money, cryptoVars>>

\* The insert; a wallet has at most one address, and the loser of a race is
\* answered with an error.
SaveAddress(c) ==
    LET w == calls[c].mem.wallet IN
    /\ At(c, "address", "save")
    /\ addresses' = IF addresses[w] = NoAddress
                    THEN [addresses EXCEPT ![w] = calls[c].mem.address]
                    ELSE addresses
    /\ Finish(c)
    /\ UNCHANGED <<money, onchain, sent>>

-----------------------------------------------------------------------------
\* HandleCryptoWebhook.

\* Somebody sends coins to an address he was shown.
SendOnChain(t, w, amount) ==
    /\ MayName("webhook", w)
    /\ addresses[w] # NoAddress
    /\ onchain[t] = NoTx
    /\ \A s \in TxIds : s < t => onchain[s] # NoTx
    /\ onchain' = [onchain EXCEPT ![t] = [to |-> addresses[w], amount |-> amount]]
    /\ UNCHANGED <<money, control, addresses, sent>>

\* The provider reports a transaction, as often as it likes, and reports what
\* happened: the endpoint takes its word.  Too few confirmations are refused
\* before anything is read.  The first row with the address names the wallet:
\* any of its owners.
CryptoWebhook(c, t, w) ==
    /\ onchain[t] # NoTx
    /\ w \in Owners(onchain[t].to)
    /\ Begin(c, "webhook", "seen", TxRef(t), w)
    /\ UNCHANGED <<money, cryptoVars>>

\* FindByRefID, before any row is locked.
AlreadySeen(c) ==
    /\ At(c, "webhook", "seen")
    /\ IF Recorded(calls[c].on) THEN Finish(c) ELSE Goto(c, "find")
    /\ UNCHANGED <<money, cryptoVars>>

\* The wallet is looked up; one that is missing will be created.
FindWallet(c) ==
    /\ At(c, "webhook", "find")
    /\ GotoWith(c, "credit", [wallet |-> calls[c].mem, made |-> wallets[calls[c].mem].made])
    /\ UNCHANGED <<money, cryptoVars>>

\* The row lock, the balance and the record.  Creating a wallet that another
\* transaction has created meanwhile fails, and all is rolled back.
CreditTx(c) ==
    LET w == calls[c].mem.wallet IN
    /\ At(c, "webhook", "credit")
    /\ Free(w)
    /\ IF calls[c].mem.made \/ ~wallets[w].made
       THEN Post(Moves(w, onchain[calls[c].on[2]].amount, 0, calls[c].on))
       ELSE UNCHANGED <<wallets, ledger>>
    /\ Finish(c)
    /\ UNCHANGED <<rowLock, cryptoVars>>

-----------------------------------------------------------------------------
\* Transfer, and the crypto withdrawal that turns out to be one.

\* The recipient is the user of an address, whatever the address's currency;
\* the sender may not be the recipient.  Both wallets are found or made.
Transfer(c, w, v, amount) ==
    /\ MayName("transfer", w)
    /\ Room
    /\ addresses[v] # NoAddress
    /\ UserOf(v) # UserOf(w)
    /\ Begin(c, "transfer", "first", TransferRef,
             [from |-> w, to |-> <<UserOf(v), CurrencyOf(w)>>, amount |-> amount,
              row |-> NoRow])
    /\ UNCHANGED <<money, cryptoVars>>

\* A withdrawal to an address of ours is a transfer in that address's currency
\* or refused; this one goes to an address of nobody here.
InitiateCryptoWithdrawal(c, x, w, amount) ==
    /\ MayName("send", w) /\ wallets[w].made
    /\ sent[x] = 0 /\ ~Recorded(SendRef(x))
    /\ \A d \in Workers : calls[d].on # SendRef(x)
    /\ Begin(c, "send", "debit", SendRef(x), [wallet |-> w, amount |-> amount])
    /\ UNCHANGED <<money, cryptoVars>>

\* Row locks in the order of the user ids.
SenderFirst(m) == <<m.from, m.to>>   \* faulty: the sender's row comes first
LowFirst(m) ==
    IF UserOf(m.from) > UserOf(m.to) THEN <<m.to, m.from>> ELSE <<m.from, m.to>>

\* The first row is locked and read.
LockFirst(c) ==
    LET w == LowFirst(calls[c].mem)[1] IN
    /\ At(c, "transfer", "first")
    /\ Free(w)
    /\ rowLock' = [rowLock EXCEPT ![w] = c]
    /\ GotoWith(c, "second", [calls[c].mem EXCEPT !.row = wallets[w]])
    /\ UNCHANGED <<wallets, ledger, cryptoVars>>

\* The second row is locked and read; what is available is computed from the
\* row as it was read, the new balances and the records too; commit.
LockSecond(c) ==
    LET m == calls[c].mem
        pair == LowFirst(m)
        rows == [w \in {m.from, m.to} |-> IF w = pair[1] THEN m.row ELSE wallets[w]]
    IN  /\ At(c, "transfer", "second")
        /\ Free(pair[2])
        /\ IF rows[m.from].balance - rows[m.from].locked >= m.amount
           THEN Commit(rows, MovesBetween(m.from, m.to, m.amount, TransferRef))
           ELSE UNCHANGED <<wallets, ledger>>
        /\ rowLock' = [rowLock EXCEPT ![pair[1]] = NoCall]
        /\ Finish(c)
        /\ UNCHANGED cryptoVars

\* The debit, in a transaction of its own.  A currency the provider cannot
\* send is refused after it.
DebitSend(c) ==
    LET w == calls[c].mem.wallet IN
    /\ At(c, "send", "debit")
    /\ Free(w)
    /\ IF Available(w) >= calls[c].mem.amount
       THEN /\ Post(Moves(w, -calls[c].mem.amount, 0, calls[c].on))
            /\ IF CurrencyOf(w) \in Sendable THEN Goto(c, "provider") ELSE Finish(c)
       ELSE Finish(c) /\ UNCHANGED <<wallets, ledger>>
    /\ UNCHANGED <<rowLock, cryptoVars>>

\* The provider sends.  When it fails the debit stays: the reversal tests an
\* error that a declaration of the same name hides.
SendTransaction(c) ==
    /\ At(c, "send", "provider")
    /\ sent' = [sent EXCEPT ![calls[c].on[2]] = @ + 1]
    /\ Finish(c)
    /\ UNCHANGED <<money, addresses, onchain>>

SendFails(c) ==
    /\ At(c, "send", "provider")
    /\ Finish(c)
    /\ UNCHANGED <<money, cryptoVars>>

CryptoStep(c) ==
    \/ DeriveAddress(c) \/ SaveAddress(c)
    \/ AlreadySeen(c) \/ FindWallet(c) \/ CreditTx(c)
    \/ LockFirst(c) \/ LockSecond(c)
    \/ DebitSend(c) \/ SendTransaction(c) \/ SendFails(c)

CryptoNext ==
    \/ \E c \in Workers :
          \/ CryptoStep(c)
          \/ \E w \in Wallets :
                \/ GetDepositAddress(c, w)
                \/ \E t \in TxIds : CryptoWebhook(c, t, w)
                \/ \E amount \in Amounts, v \in Wallets :
                      Transfer(c, w, v, amount)
                \/ \E x \in SendIds, amount \in Amounts :
                      InitiateCryptoWithdrawal(c, x, w, amount)
    \/ \E t \in TxIds, w \in Wallets, amount \in Amounts : SendOnChain(t, w, amount)

-----------------------------------------------------------------------------
\* Two wallets have the same address only on Solana, where all share one, or
\* when two derivations on that chain overlapped: no index is given out twice,
\* though two currencies share the chain "ethereum" and its indexes.
AddressesDiffer ==
    \A v, w \in Wallets :
        (v # w /\ addresses[v] = addresses[w] /\ addresses[v] # NoAddress)
        => \/ addresses[v].chain = "solana"
           \/ ChainRef(addresses[v].chain) \in raced

\* "crediting is idempotent by txId" (HandleCryptoWebhook): true as long as two
\* reports of a transaction do not overlap; and only an owner is credited.
CreditedOnceToOwner ==
    \A t \in TxIds :
        /\ TxRef(t) \notin raced => ~RecordedTwice(TxRef(t))
        /\ \A w \in Wallets :
              EntriesOf(w, TxRef(t)) # {} => addresses[w] = onchain[t].to

\* What the provider sent was debited before, exactly once.
SendsAreDebited ==
    \A x \in SendIds :
        sent[x] > 0 => Recorded(SendRef(x)) /\ ~RecordedTwice(SendRef(x))

\* The chains and the ledger agree: what arrives at an address is credited
\* once to the one user it was given to, and what is sent was debited once.
ChainsMatchLedger == AddressesDiffer /\ CreditedOnceToOwner /\ SendsAreDebited

\* Transfers, in both directions at once, all come to an end: their row locks
\* are taken in one order, so that none waits for another in a circle.
TransfersEnd == \A c \in Workers : calls[c].op = "transfer" ~> calls[c].op # "transfer"
=============================================================================
