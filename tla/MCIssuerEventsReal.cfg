SPECIFICATION Spec
CONSTANTS
    blank = blank
    swap = swap
    plain = plain
    longer = longer
    Listings = {l1, l2}
    Terms = {blank, swap}
    Texts = {blank, plain, longer}
    Pages <- MCPages
    ErrorPages <- MCErrorPages
    Dated = {}
    Blank = blank
    NoEntry = NoEntry
    NoAsset = NoAsset
    NoRow = NoRow
INVARIANTS
    RealTransitions
