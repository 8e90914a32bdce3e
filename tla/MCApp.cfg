\* What the user does and what the API serves anew is two things in all.  A
\* tick of the design source is half a second, and a late one makes up for nine.
SPECIFICATION FairAppSpec
CONSTANTS
    a1 = a1
    a2 = a2
    spacex = spacex
    openai = openai
    o1 = o1
    o2 = o2
    Settings = {"api", "design"}
    Addresses = {a1, a2}
    Trusting = {a1}
    Assets = {spacex, openai}
    Spacex = spacex
    Verified = {spacex}
    Providers = 2
    NoOne = NoOne
    Nothing = Nothing
    MaxActs = 2
    Ids = {o1, o2}
    First = o1
    FirstTarget = 1
    FirstWait = 9
    Ratios = {0, 1}
    Opening = 0
    MarketEvery = 2
    Waits = {0, 9}
    ArmAfter = 4
    WatchAfter = 7
    ExecuteAfter = 3
    SettleAfter = 8
    FailsafeAfter = 5
    Periods = {1, 9}
    None = None
INVARIANTS
    ConsoleTypeOK
    EventsInOrder
    OneReceipt
PROPERTIES
    NeverGoesBack
    ConnectingEnds
    ShowsWhatIs
    DesignEnds
