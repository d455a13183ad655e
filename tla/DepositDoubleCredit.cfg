CONSTANTS
    Users = {1, 2}
    Currencies = {"ETH", "USDT", "SOL"}
    Funded <- UsersWithMoney
    Opening = 3
    Workers = {1, 2}
    Workloads <- OnlyFiatIn
    Amounts = {1, 2}
    House = 2
    Target = 2
    MaxEntries = 2
    MaxFaults = 0
    DepositIds = {1}
    WithdrawalIds = {1, 2}
    MaxExcess = 1
    TxIds = {1}
    SendIds = {1, 2}
    AdIds = {1}
    OrderIds = {1, 2}
    Prices = {2}
    Base = "ETH"
    Quote = "USDT"
    OrderHashes = {"o1"}
    Values = {1}
    MaxPool = 3
    MaxNonce = 5
SPECIFICATION Spec
INVARIANTS
    NoDoubleCredit
CHECK_DEADLOCK FALSE
