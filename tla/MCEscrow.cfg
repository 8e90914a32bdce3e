SPECIFICATION CrankedSpec
CONSTANTS
    alice = alice
    bob = bob
    Users <- MCUsers
    Slots = {s1}
    OwnerOf <- MCOwnerOf
    NoOrder = NoOrder
    Terms <- MCTerms
    SrcSupply <- MCSrcSupply
    DstSupply <- MCDstSupply
    FeeRates = {0, 1}
    Pauses = {FALSE, TRUE}
    Hooks = {FALSE, TRUE}
    MaxTime = 2
    MaxStray = 1
    RATIO_SCALE = 2
    FEE_SCALE = 4
    MAX_U64 = 5
INVARIANTS
    TypeOK
    EscrowCovers
    OwnerPaid
PROPERTIES
    Released
    ClosesAccounted
    KeepsPromise
