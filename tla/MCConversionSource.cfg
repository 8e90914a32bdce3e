SPECIFICATION Spec
CONSTANTS
    Sessions = {s1}
    Wallets = {w1}
    NoWallet = NoWallet
    Deadlines = {2, 4}
    Undated = Undated
    NoDeadline = NoDeadline
    Destinations = {spcxx}
    DefaultDest = spcxx
    Pages <- MCDatedPages
    ErrorPages = {}
    MintStates <- MCOpen
    Unread = Unread
    Amounts = {1}
    Supply = 1
    NoRow = NoRow
    NoEntry = NoEntry
    NoAsset = NoAsset
    CatalogLife = 2
    MintLife = 1
    QuoteLife = 1
    MaxTime = 1
    MaxActs = 1
PROPERTIES
    SourceRequired
CHECK_DEADLOCK FALSE
