\* The events of an asset that is not SPACEX, or SPACEX's feed, which is stale
\* after one unit of time.
SPECIFICATION FairRecordsSpec
CONSTANTS
    d1 = d1
    d2 = d2
    c1 = c1
    c2 = c2
    Assets = {"SPACEX", "OPENAI"}
    Calls = {c1, c2}
    Deadlines = {d1, d2}
    Unstated = Unstated
    NoSnapshot = NoSnapshot
    FeedLife = 1
    LastTime = 2
    blank = blank
    swap = swap
    plain = plain
    longer = longer
    Listings = {l1, l2}
    Terms = {blank, swap}
    Texts = {blank, plain, longer}
    Pages <- MCPages
    ErrorPages <- MCErrorPages
    Dated = {swap}
    Blank = blank
    NoEntry = NoEntry
    NoAsset = NoAsset
    NoRow = NoRow
INVARIANTS
    TypeOK
PROPERTIES
    FeedIsDated
    EventsCatchUp
    EventsComeToRest
