SPECIFICATION Spec
CONSTANTS
    Sessions = {s1}
    Wallets = {w1, w2}
    NoWallet = NoWallet
    Deadlines = {2}
    Undated = Undated
    NoDeadline = NoDeadline
    Destinations = {spcxx, other}
    DefaultDest = spcxx
    Pages <- MCPages
    ErrorPages <- MCErrorPages
    MintStates <- MCControls
    Unread = Unread
    Amounts = {1}
    Supply = 1
    NoRow = NoRow
    NoEntry = NoEntry
    NoAsset = NoAsset
    CatalogLife = 2
    MintLife = 1
    QuoteLife = 1
    MaxTime = 2
    MaxActs = 1
SYMMETRY MCWalletSymmetry
INVARIANTS
    TypeOK
    ReceiptsConfirmed
    ToldTheTruth
PROPERTIES
    MintHeeded
    PageHeeded
    KeepsLedger
CHECK_DEADLOCK FALSE
