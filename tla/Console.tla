------------------------------ MODULE Console ------------------------------
(***************************************************************************)
(* The console's picture of the world (backendSource.ts): which wallet is  *)
(* connected, whose activity and which order address are shown, and the    *)
(* lists and the market of the last refresh.  Every fetch and every wallet *)
(* prompt is an await, and what comes back is written whatever has changed *)
(* meanwhile, unless it was told to stop: a refresh by its AbortSignal, an *)
(* inspection by inspectGen.  The activity a connection loads has neither. *)
(*                                                                         *)
(* The six reads of a refresh are one, of a version of what the API        *)
(* serves.  A refresh that is aborted and an inspection that is superseded *)
(* return after the await they are in without a further write, so they are *)
(* dropped at once.  A user does only what the wallet dialog offers.       *)
(***************************************************************************)
EXTENDS Integers, FiniteSets, Bags, BagsExt

CONSTANTS
    Addresses,     \* wallets a provider may give
    Trusting,      \* those that gave the page their trust before
    Assets,        \* assets that may be selected
    Verified,      \* those whose destination mint is verified
    Spacex,        \* the asset selected first
    Providers,     \* how many providers a restore tries in turn
    NoOne,         \* no wallet
    Nothing,       \* no assets
    MaxActs        \* bound: what the user does, and newer versions served

ASSUME ConsoleAssumption ==
    /\ NoOne \notin Addresses
    /\ Trusting \subseteq Addresses
    /\ Spacex \in Assets
    /\ Verified \subseteq Assets
    /\ Providers \in Nat \ {0}
    /\ Nothing \notin Nat
    /\ MaxActs \in Nat

VARIABLES
    wallet,     \* walletState: whether it is connecting, and its address
    conns,      \* where each connection under way is: a bag
    leaving,    \* disconnects that wait for the provider
    loads,      \* owners whose activity a connection loads: a bag
    activity,   \* whose activity is shown; NoOne: none is
    derived,    \* inspect.derivedPda: of which owner and asset
    look,       \* the newest inspection
    selected,   \* selectedAssetId
    refreshes,  \* refreshes in flight and not aborted
    feedCalls,  \* /v1/feed/refresh calls in flight
    running,    \* timer # null
    lists,      \* version of assets, actions and receipts shown
    market,     \* version of the markets shown
    conversions,  \* requestConversion calls: asked for, and settled
    served,     \* version the API serves
    acts        \* what the user has done, and versions served since

consoleVars ==
    <<wallet, conns, leaving, loads, activity, derived, look, selected,
      refreshes, feedCalls, running, lists, market, conversions, served, acts>>

walletVars == <<wallet, conns, leaving, loads, activity>>
inspectVars == <<derived, look, selected>>
feedVars == <<refreshes, feedCalls, running, lists, market>>

Trusted(left) == [at |-> "trusted", left |-> left]
Prompted == [at |-> "prompt"]
Balances(address) == [at |-> "balances", address |-> address]

Apart == [connecting |-> FALSE, address |-> NoOne]

NoPda == [owner |-> NoOne, asset |-> NoOne]
PdaOf(owner, asset) == [owner |-> owner, asset |-> asset]

NoLook == [at |-> "none"]
ProofLook == [at |-> "proof"]
PdaLook(owner, asset) == [at |-> "pda", pda |-> PdaOf(owner, asset)]

Asked(since) == [at |-> "asked", since |-> since]
Loading(read, owner) == [at |-> "activity", read |-> read, owner |-> owner]

ConsoleInit ==
    /\ wallet = Apart
    /\ conns = EmptyBag
    /\ leaving = 0
    /\ loads = EmptyBag
    /\ activity = NoOne
    /\ derived = NoPda
    /\ look = NoLook
    /\ selected = Spacex
    /\ refreshes = {}
    /\ feedCalls = 0
    /\ running = FALSE
    /\ lists = Nothing
    /\ market = 0
    /\ conversions = [asked |-> 0, settled |-> 0]
    /\ served = 1
    /\ acts = 0

Acts == acts < MaxActs /\ acts' = acts + 1

-----------------------------------------------------------------------------

(* inspectChainState.  The receipt's order is looked up first, if there is
   one; then owner and asset are read, and without a wallet or a verified
   mint there is nothing to ask.  A new inspection supersedes the last. *)
LooksFor(owner, asset, shown) ==
    IF owner = NoOne \/ shown = Nothing \/ asset \notin Verified
    THEN look' = NoLook /\ derived' = NoPda
    ELSE look' = PdaLook(owner, asset) /\ UNCHANGED derived

Inspects(owner, asset, shown) ==
    \/ shown # Nothing /\ look' = ProofLook /\ UNCHANGED derived
    \/ LooksFor(owner, asset, shown)

ProofAnswers ==
    /\ look.at = "proof"
    /\ LooksFor(wallet.address, selected, lists)
    /\ UNCHANGED <<walletVars, selected, feedVars, conversions, served, acts>>

PdaAnswers ==
    /\ look.at = "pda"
    /\ derived' = look.pda
    /\ look' = NoLook
    /\ UNCHANGED <<walletVars, selected, feedVars, conversions, served, acts>>

\* /v1/pda answers without an address, or the API is not reached.
LookFails ==
    /\ look.at # "none"
    /\ look' = NoLook
    /\ \/ UNCHANGED derived
       \/ look.at = "pda" /\ derived' = NoPda
    /\ UNCHANGED <<walletVars, selected, feedVars, conversions, served, acts>>

SelectAsset(asset) ==
    /\ Acts
    /\ selected' = asset
    /\ Inspects(wallet.address, asset, lists)
    /\ UNCHANGED <<walletVars, feedVars, conversions, served>>

-----------------------------------------------------------------------------

(* connectWallet, from the dialog: its buttons are there while no wallet is
   connected and enabled while none is connecting. *)
ConnectWallet ==
    /\ Acts
    /\ wallet = Apart
    /\ wallet' = [wallet EXCEPT !.connecting = TRUE]
    /\ conns' = BagAdd(conns, Prompted)
    /\ UNCHANGED <<leaving, loads, activity, inspectVars, feedVars, conversions, served>>

\* The holder approves, or the provider trusts the page; balances are read.
Approve(c, address) ==
    /\ \/ c.at = "prompt"
       \/ c.at = "trusted" /\ address \in Trusting
    /\ conns' = BagAdd(BagRemove(conns, c), Balances(address))
    /\ UNCHANGED <<wallet, leaving, loads, activity, inspectVars, feedVars, conversions, served, acts>>

KeepsConnecting == UNCHANGED wallet  \* mutant: the catch resets nothing

ForgetsWallet == wallet' = Apart

\* The holder rejects, or 20 s pass.
GiveUp(c) ==
    /\ c.at = "prompt"
    /\ ForgetsWallet
    /\ conns' = BagRemove(conns, c)
    /\ UNCHANGED <<leaving, loads, activity, inspectVars, feedVars, conversions, served, acts>>

(* restoreTrustedWallet: a provider that does not trust the page, or takes
   2.5 s, makes way for the next. *)
Distrust(c) ==
    /\ c.at = "trusted"
    /\ conns' = IF c.left = 1 THEN BagRemove(conns, c)
                ELSE BagAdd(BagRemove(conns, c), Trusted(c.left - 1))
    /\ UNCHANGED <<wallet, leaving, loads, activity, inspectVars, feedVars, conversions, served, acts>>

\* applyConnectedWallet, once /v1/balances has answered or failed.
ApplyConnectedWallet(c) ==
    /\ c.at = "balances"
    /\ wallet' = [connecting |-> FALSE, address |-> c.address]
    /\ loads' = BagAdd(loads, c.address)
    /\ Inspects(c.address, selected, lists)
    /\ conns' = BagRemove(conns, c)
    /\ UNCHANGED <<leaving, activity, selected, feedVars, conversions, served, acts>>

\* loadActivity without a signal: what it finds is shown.
ActivityArrives(owner) ==
    /\ activity' = owner
    /\ loads' = BagRemove(loads, owner)
    /\ UNCHANGED <<wallet, conns, leaving, inspectVars, feedVars, conversions, served, acts>>

\* It answers with an error, which shows as none, or is not reached.
ActivityFails(owner) ==
    /\ activity' \in {activity, NoOne}
    /\ loads' = BagRemove(loads, owner)
    /\ UNCHANGED <<wallet, conns, leaving, inspectVars, feedVars, conversions, served, acts>>

\* disconnectWallet, up to the provider's disconnect and from there.
DisconnectWallet ==
    /\ Acts
    /\ wallet.address # NoOne
    /\ leaving' = leaving + 1
    /\ UNCHANGED <<wallet, conns, loads, activity, inspectVars, feedVars, conversions, served>>

Leave ==
    /\ leaving > 0
    /\ leaving' = leaving - 1
    /\ wallet' = Apart
    /\ activity' = NoOne
    /\ derived' = NoPda
    /\ UNCHANGED <<conns, loads, look, selected, feedVars, conversions, served, acts>>

-----------------------------------------------------------------------------

(* refresh: it aborts the one before it, asks, writes the lists, waits for
   the activity of the wallet connected by then, and writes the rest. *)
NothingAborted(rs) == rs  \* mutant: no abort

Aborted(rs) == {}

StartRefresh == refreshes' = Aborted(refreshes) \cup {Asked(served)}

Poll ==
    /\ running
    /\ StartRefresh
    /\ UNCHANGED <<walletVars, inspectVars, feedCalls, running, lists, market, conversions, served, acts>>

\* start's call of /v1/feed/refresh has ended, well or badly.
FeedRefreshed ==
    /\ feedCalls > 0
    /\ feedCalls' = feedCalls - 1
    /\ StartRefresh
    /\ UNCHANGED <<walletVars, inspectVars, running, lists, market, conversions, served, acts>>

(* requestConversion, which outlives a stop, a disconnect and the wallet it
   was called for (what it asks of the API is Conversion's).  One that settles
   refreshes, and goes on to connect once more the wallet connected by then;
   the refresh it waits for may be aborted at any time. *)
RequestConversion ==
    /\ Acts
    /\ wallet.address # NoOne
    /\ conversions' = [conversions EXCEPT !.asked = @ + 1]
    /\ UNCHANGED <<walletVars, inspectVars, feedVars, served>>

ConversionSettles ==
    /\ conversions.asked > 0
    /\ conversions' = [asked |-> conversions.asked - 1, settled |-> conversions.settled + 1]
    /\ StartRefresh
    /\ UNCHANGED <<walletVars, inspectVars, feedCalls, running, lists, market, served, acts>>

\* Refused, submitted, or an error.
ConversionEnds ==
    /\ conversions.asked > 0
    /\ conversions' = [conversions EXCEPT !.asked = @ - 1]
    /\ UNCHANGED <<walletVars, inspectVars, feedVars, served, acts>>

ConnectsAgain ==
    /\ conversions.settled > 0
    /\ conversions' = [conversions EXCEPT !.settled = @ - 1]
    /\ conns' = IF wallet.address = NoOne THEN conns
                ELSE BagAdd(conns, Balances(wallet.address))
    /\ UNCHANGED <<wallet, leaving, loads, activity, inspectVars, feedVars, served, acts>>

KeepsActivity == UNCHANGED activity  \* mutant: without a wallet the list is left alone

(* loadActivity: without a wallet there is none; with one, what is found is
   shown later. *)
LoadsActivity == activity' = IF wallet.address = NoOne THEN NoOne ELSE activity

\* The answers are of a version served since they were asked for.
RefreshArrives(r, read) ==
    /\ r.at = "asked"
    /\ lists' = read
    /\ LoadsActivity
    /\ refreshes' = (refreshes \ {r}) \cup {Loading(read, wallet.address)}
    /\ UNCHANGED <<wallet, conns, leaving, loads, inspectVars, feedCalls, running, market,
                   conversions, served, acts>>

\* Neither the catalog nor the feed is reached: the lists are empty.
RefreshArrivesEmpty(r) == RefreshArrives(r, Nothing)

FirstMarket(read) ==  \* mutant: what is there is kept
    IF read = Nothing \/ market # 0 THEN market ELSE read

MarketFrom(read) == IF read = Nothing THEN market ELSE read

FinishRefresh(r, found) ==
    /\ r.at = "activity"
    /\ activity' = IF r.owner = NoOne THEN activity ELSE found
    /\ market' = MarketFrom(r.read)
    /\ refreshes' = refreshes \ {r}
    /\ Inspects(wallet.address, selected, lists)
    /\ UNCHANGED <<wallet, conns, leaving, loads, selected, feedCalls, running, lists,
                   conversions, served, acts>>

\* /v1/activity answers with an error, which shows as none.
FinishRefreshWithout(r) == FinishRefresh(r, NoOne) /\ r.owner # NoOne

\* /v1/activity is not reached: the rest of the refresh is skipped.
ThrowRefresh(r) ==
    /\ r.at = "activity" /\ r.owner # NoOne
    /\ refreshes' = refreshes \ {r}
    /\ UNCHANGED <<walletVars, inspectVars, feedCalls, running, lists, market, conversions, served, acts>>

\* start, when the page is mounted, and stop, when it is not any more.
Start ==
    /\ ~running
    /\ conns' = BagAdd(conns, Trusted(Providers))
    /\ feedCalls' = feedCalls + 1
    /\ running' = TRUE
    /\ UNCHANGED <<wallet, leaving, loads, activity, inspectVars, refreshes, lists,
                   market, conversions, served, acts>>

Stop ==
    /\ Acts
    /\ running
    /\ running' = FALSE
    /\ refreshes' = Aborted(refreshes)
    /\ UNCHANGED <<walletVars, inspectVars, feedCalls, lists, market, conversions, served>>

\* What the API serves gets newer.
Serve ==
    /\ Acts
    /\ served' = served + 1
    /\ UNCHANGED <<walletVars, inspectVars, feedVars, conversions>>

-----------------------------------------------------------------------------

\* What the user and the page do.
UserActs ==
    \/ Start
    \/ Stop
    \/ ConnectWallet
    \/ DisconnectWallet
    \/ RequestConversion
    \/ \E asset \in Assets : SelectAsset(asset)

\* What may go wrong on the way to the API.
Unreached ==
    \/ LookFails
    \/ \E owner \in BagToSet(loads) : ActivityFails(owner)
    \/ \E r \in refreshes : RefreshArrivesEmpty(r) \/ FinishRefreshWithout(r) \/ ThrowRefresh(r)

WalletAnswers ==
    \/ \E c \in BagToSet(conns) : GiveUp(c) \/ Distrust(c) \/ ApplyConnectedWallet(c)
    \/ \E owner \in BagToSet(loads) : ActivityArrives(owner)
    \/ Leave

AnyArrival ==
    \E r \in refreshes : r.at = "asked" /\ \E read \in r.since..served : RefreshArrives(r, read)
AnyFinish == \E r \in refreshes : r.at = "activity" /\ FinishRefresh(r, r.owner)

\* The steps that are neither a failure nor anybody's act.
AnsweredNext ==
    \/ \E c \in BagToSet(conns), address \in Addresses : Approve(c, address)
    \/ WalletAnswers
    \/ ProofAnswers
    \/ PdaAnswers
    \/ Poll
    \/ FeedRefreshed
    \/ ConversionSettles
    \/ ConversionEnds
    \/ ConnectsAgain
    \/ AnyArrival
    \/ AnyFinish

ConsoleNext == UserActs \/ Unreached \/ AnsweredNext \/ Serve

ConsoleSpec == ConsoleInit /\ [][ConsoleNext]_consoleVars

(* Timers fire and whatever was asked is answered or fails.  A poll every
   15 s cuts off the refresh before it and, once finished, the inspection
   before it; that they are quick enough for ever is too much to ask, that
   they are so again and again is what the strong fairness says. *)
ConsoleFairness ==
    /\ WF_consoleVars(WalletAnswers)
    /\ WF_consoleVars(Poll)
    /\ WF_consoleVars(FeedRefreshed)
    /\ SF_consoleVars(AnyArrival)
    /\ SF_consoleVars(AnyFinish)
    /\ SF_consoleVars(ProofAnswers)
    /\ SF_consoleVars(PdaAnswers)

-----------------------------------------------------------------------------

Pdas == {NoPda} \cup [owner : Addresses, asset : Assets]

Reads == 1..served \cup {Nothing}

(* The console's fields hold what they are declared to hold; a connecting
   wallet has no address, and the refresh that may still write, if any, is
   one. *)
ConsoleTypeOK ==
    /\ wallet \in [connecting : BOOLEAN, address : Addresses \cup {NoOne}]
    /\ wallet.connecting => wallet.address = NoOne
    /\ BagToSet(conns) \subseteq {Prompted}
                        \cup {Trusted(left) : left \in 1..Providers}
                        \cup {Balances(address) : address \in Addresses}
    /\ leaving \in Nat
    /\ BagToSet(loads) \subseteq Addresses
    /\ activity \in Addresses \cup {NoOne}
    /\ derived \in Pdas
    /\ look \in {NoLook, ProofLook} \cup [at : {"pda"}, pda : [owner : Addresses, asset : Assets]]
    /\ selected \in Assets
    /\ feedCalls \in Nat
    /\ running \in BOOLEAN
    /\ lists \in Reads
    /\ market \in 0..served
    /\ conversions \in [asked : Nat, settled : Nat]
    /\ served \in Nat \ {0}
    /\ acts \in 0..MaxActs
    /\ refreshes \in {{}}
                     \cup {{Asked(since)} : since \in 1..served}
                     \cup {{Loading(read, owner)} : read \in Reads, owner \in Addresses \cup {NoOne}}

(* What the console shows never goes back to an older version, although
   refreshes overlap and their answers come in any order. *)
NeverGoesBack ==
    [][/\ market' >= market
       /\ lists # Nothing /\ lists' # Nothing => lists' >= lists]_consoleVars

(* The dialog never stays at "connecting": a prompt nobody answers is given
   up, a restore or a disconnect in between notwithstanding. *)
ConnectingEnds == wallet.connecting ~> ~wallet.connecting

(* In the end the API answers and has nothing new to serve, and the page is
   mounted and left alone. *)
Quiet == <>[]running /\ <>[][AnsweredNext]_consoleVars

\* Activity and order address are those of the connected wallet, or none.
ShowsOwn ==
    /\ activity = wallet.address
    /\ derived = IF wallet.address = NoOne \/ selected \notin Verified
                 THEN NoPda
                 ELSE PdaOf(wallet.address, selected)

(* Then the console comes to show what is: the activity and the order address
   of the wallet that is connected, or none, whatever late answers of another
   wallet, of an earlier selection or of a connection since given up have
   written over them; and the lists and the market the API serves. *)
ShowsWhatIs == Quiet => <>[](ShowsOwn /\ lists = served /\ market = served)

=============================================================================
