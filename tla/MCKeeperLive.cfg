\* One process, one tick at a time, an order without expiry, pauses; and the
\* arithmetic over amounts to 3 and ratios to twice RATIO_SCALE.
SPECIFICATION FairKeeperSpec
CONSTANTS
    alice = alice
    keeper = keeper
    s1 = s1
    p1 = p1
    p2 = p2
    t1 = t1
    t2 = t2
    Users <- MCUsers
    Slots = {s1}
    OwnerOf <- MCOwnerOf
    NoOrder = NoOrder
    Terms <- MCOpenEnded
    SrcSupply <- MCLowSupply
    DstSupply <- MCDstSupply
    FeeRates = {0}
    Pauses = {FALSE, TRUE}
    Hooks = {FALSE}
    MaxTime = 0
    MaxStray = 0
    RATIO_SCALE = 2
    FEE_SCALE = 4
    MAX_U64 = 4
    MaxAmount = 3
    MaxRatio = 4
    KeeperWallet = keeper
    Processes = {p1}
    Ticks = {t1}
    ProcessOf <- MCOneProcess
    WorkerOf <- MCSameWorker
    SpendCap = 1
    Unquoted = FALSE
    SwapOuts = {2}
    HostTimes = {0, 1}
    NoFee = NoFee
    NoTx = NoTx
INVARIANTS
    CeilRatioIsLeast
    FillableIffDelivers
    PlanIsAcceptable
PROPERTIES
    Served
