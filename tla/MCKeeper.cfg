\* Two processes with worker identities of their own, one tick each.
SPECIFICATION KeeperSpec
CONSTANTS
    alice = alice
    keeper = keeper
    s1 = s1
    p1 = p1
    p2 = p2
    t1 = t1
    t2 = t2
    Users <- MCUsers
    Slots = {s1}
    OwnerOf <- MCOwnerOf
    NoOrder = NoOrder
    Terms <- MCOpenEnded
    SrcSupply <- MCLowSupply
    DstSupply <- MCDstSupply
    FeeRates = {0}
    Pauses = {FALSE}
    Hooks = {FALSE}
    MaxTime = 0
    MaxStray = 0
    RATIO_SCALE = 2
    FEE_SCALE = 4
    MAX_U64 = 4
    MaxAmount = 5
    MaxRatio = 4
    KeeperWallet = keeper
    Processes = {p1, p2}
    Ticks = {t1, t2}
    ProcessOf <- MCOwnProcess
    WorkerOf <- MCOwnWorker
    SpendCap = 1
    Unquoted = FALSE
    SwapOuts = {2}
    HostTimes = {0}
    NoFee = NoFee
    NoTx = NoTx
INVARIANTS
    KeeperTypeOK
    ReceiptsAreReal
    OneAttempt
