SPECIFICATION Spec
CONSTANTS
    Sessions = {s1}
    Wallets = {w1}
    NoWallet = NoWallet
    Deadlines = {4}
    Undated = Undated
    NoDeadline = NoDeadline
    Destinations = {spcxx}
    DefaultDest = spcxx
    Pages <- MCDatedPages
    ErrorPages = {}
    MintStates <- MCOpen
    Unread = Unread
    Amounts = {1}
    Supply = 1
    NoRow = NoRow
    NoEntry = NoEntry
    NoAsset = NoAsset
    CatalogLife = 2
    MintLife = 1
    QuoteLife = 1
    MaxTime = 3
    MaxActs = 1
PROPERTIES
    QuoteFreshAtExecute
CHECK_DEADLOCK FALSE
