\* One process whose two ticks overlap; nothing fails but quotes, which may
\* also miss the floor or meet it; failsafe, expiry, and a minimum fill above
\* the cap.
SPECIFICATION SmoothSpec
CONSTANTS
    alice = alice
    keeper = keeper
    s1 = s1
    p1 = p1
    p2 = p2
    t1 = t1
    t2 = t2
    Users <- MCUsers
    Slots = {s1}
    OwnerOf <- MCOwnerOf
    NoOrder = NoOrder
    Terms <- MCTerms
    SrcSupply <- MCLowSupply
    DstSupply <- MCLowInventory
    FeeRates = {0}
    Pauses = {FALSE}
    Hooks = {FALSE}
    MaxTime = 1
    MaxStray = 0
    RATIO_SCALE = 2
    FEE_SCALE = 4
    MAX_U64 = 4
    MaxAmount = 5
    MaxRatio = 4
    KeeperWallet = keeper
    Processes = {p1}
    Ticks = {t1, t2}
    ProcessOf <- MCOneProcess
    WorkerOf <- MCSameWorker
    SpendCap = 1
    Unquoted = TRUE
    SwapOuts = {0, 1, 2}
    HostTimes = {0, 1}
    NoFee = NoFee
    NoTx = NoTx
INVARIANTS
    PlansAreAccepted
    NoFillForgotten
PROPERTIES
    Receipted
