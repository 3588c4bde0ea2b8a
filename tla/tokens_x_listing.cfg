INIT Init
NEXT Next
CONSTANTS
    Lenders = {c1, c2}
    Positions = {p1, p2}
    LendAmounts = {1, 2}
    MaxLendFaults = 2
    MaxLendOps = 3
    Traders = {c1, c2}
    Swaps = {s1, s2}
    Shares = {h1, h2}
    DexAmounts = {2}
    MaxDexFaults = 2
    MaxDexOps = 3
    Users = {c1, c2}
    Owners = {o1, o2}
    Listings = {l1}
    Bids = {b1, b2}
    Prices = {1, 2}
    MaxSupply = 2
    MaxNftFaults = 1
    MaxNftOps = 4
    GasCallers = {c1, c2}
    GasAmounts = {1, 2}
    Allocation = 4
    MaxBigint = 999
    MaxGasOps = 6
    Keys = {k1, k2}
    MaxAnswers = 2
    MpcCallers = {c1, c2}
    Schemes = {"2-of-3", "3-of-5"}
    MaxMpcFaults = 2
    MaxMpcOps = 4
    SignerKeys = {k1, k2}
    MultiSigTxs = {t1}
    OfflineIds = {r1}
    Transfers = {x1}
    MaxSigners = 3
    MaxExecuting = 2
    SmartCallers = {c1, c2}
    SpendAmounts <- SpentAndRefunded
    MaxAmount = 2
    DailyLimit = 2
    MaxSmartFaults = 1
    MaxSmartOps = 4
    AuthCallers = {c1, c2}
    MaxAttempts = 2
    MaxAuthFaults = 1
    MaxAuthOps = 5
    RpcEndpoints <- DevAndTest
    MaxConsecutiveFailures = 2
    Sweeps = {s1, s2}
    Watchers = {a1}
    MaxProbes = 4
    MaxReports = 1
    EventCallers = {c1, c2}
    Sockets = {k1, k2}
    SubscriptionIds = {i1, i2}
    Reported = {t1}
    MaxListeners = 3
    MaxEventFaults = 1
    MaxEventOps = 3
    Readers = {c1, c2}
    QueryTtl = 2
    ResponseTtl = 1
    MaxTime = 4
    MaxVersions = 1
    MaxRedisFaults = 1
    MaxCacheOps = 3
SYMMETRY Symmetry
CHECK_DEADLOCK FALSE
INVARIANT OwnersMayList
