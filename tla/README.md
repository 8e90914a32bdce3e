# A TLA+ verification project for T-MINUS

T-MINUS helps holders of PreStocks (Token-2022 tokens whose issuer may pause
them, hook them or change their transfer fee) act on a corporate action before
its deadline. Two paths exist in the repository and this project follows both:

* on Devnet, an **Anchor program** escrows source tokens under a price floor and
  lets anyone fill, and a **keeper** that watches the orders and fills them;
* on Mainnet, an **API** that reads the issuer's page, the mint and Jupiter, offers
  the holder a transaction bound to what it read, and after the holder signs it
  re-reads everything, submits, and stores a receipt; a **console** in the
  browser drives it.

Paths below are relative to `src/`.

## 1. Inventory

| Part | State it keeps | Operations | Correct when |
|---|---|---|---|
| Anchor program, `programs/tminus/src/lib.rs` | one order account and one escrow token account per order address | `place`, `fill`, `cancel`, `expire` | the escrow covers what is unsold; every sale pays the floor in force; nothing is sold after the hard expiry; an order ends only sold out or returned; nothing stays locked |
| SDK, `packages/sdk/src/index.ts` | none | `ceilRatio`, `activeFloor`, `quoteRatioE9`, `isFillable`, `decodeOrder`, `orderPda` | agrees with the program on every amount |
| Keeper policy, `apps/keeper/src/policy.ts` | none | `fillSize`, `chooseFillPlan`, `haltFromIssuer`, `haltFromFeed` | a plan is one the program accepts; it halts when the issuer or the feed is not trusted |
| Keeper loop, `apps/keeper/src/loop.ts`, `leases.ts`, `receipts.ts`, `run.ts` | per process: fee baseline, halt; in Postgres: leases, receipts, health | `tick` (overlapping, every 5 s), `attemptFill`, `simulateAndMaybeSend`, `tryLease`, `releaseLease`, `persistReceipt` | one attempt per order; receipts only of confirmed fills; a fee change halts |
| Feed, `apps/api/src/feed.ts` | rows of `feed_snapshots` | `refreshFeed` (overlapping, without a timeout), `latestFeed` | a deadline called verified is one the issuer's page stated lately |
| Catalog and mint caches, `apps/api/src/prestocks-catalog.ts`, `onchain-mint.ts` | a 120 s and a 30 s in-memory cache | `buildPrestocksCatalog`, `readMintState` | what is signed under is what the issuer says |
| Issuer events, `apps/api/src/event-change.ts`, `event-fingerprint.ts` | rows of `issuer_event_snapshots` | `observeIssuerEvent`, `classifyIssuerChange` | the history says only what the page did, and ends with what it says |
| Conversions, `apps/api/src/executable.ts`, `execution-snapshot.ts`, `safety-gate.ts`, `jupiter-swap.ts` | rows of `receipts` | `buildExecutable`, `executeSignedConversion` | nothing is submitted under a changed event; a receipt only of a confirmed conversion; one conversion per signature |
| Activity, `apps/api/src/activity.ts`, `balances.ts`, `pda.ts`, `program-status.ts` | none (reads receipts and the chain) | HTTP reads | formatting of what others keep |
| Console, `frontend/src/lib/tminus/adapters/backendSource.ts`, dialogs of `components/tminus/app/AppShell.tsx` | wallet, activity, lists, market, inspected order address, `AbortController` and generation counters | `start`, `stop`, `connectWallet`, `restoreTrustedWallet`, `disconnectWallet`, `refresh`, `loadActivity`, `inspectChainState`, `selectAsset`, `requestConversion` | what is shown is the connected wallet's and is never replaced by something older; no dialog hangs |
| Design source, `localDesignSource.ts` | a simulated market and simulated orders with their timers | `createOrder`, `cancelOrder`, `tick` | an order's history walks the states its header draws; one receipt for each settlement; every order ends |
| Page, `context.tsx` | the source it made | `createSource`, mount, unmount | one source runs, the other does nothing |

How they interact: the keeper reads orders from the chain, sends `fill` and
writes `receipts`; the API (which may run the keeper in its own process) writes
`feed_snapshots`, which the keeper trusts only while fresh, and `receipts` of
its own; the console calls the API and the wallet. Everything else is a read.

The hard behaviours: ticks of one keeper overlap (`setInterval` starts one every
5 s whether or not the last ended) and share one worker identity; an order read
in a tick may be filled, cancelled, expired or replaced at the same address
before the fill lands; a transaction may land, fail or vanish after the code
stopped waiting for it; the issuer acts between any two reads; caches serve what
is no longer so; time passes a failsafe or an expiry between a check and a use;
the keeper's clock is its host's and the program's is the chain's; the console
may lose the answer of a request whose handler goes on; the body of an error is
parsed like a page.
`PROJECT.json` lists these at their lines, under `hazards`.

## 2. Plan

| # | Module | What it adds | Depends on | State |
|---|---|---|---|---|
| 1 | `TminusMath`, `MathCheck`, `MathProofs` | the arithmetic of program, SDK and keeper policy; checked inside `MCKeeper` | | done |
| 2 | `Escrow`, `MCEscrow`, `EscrowProofs`, `OrderPromise` | the program, the promise it keeps, its proofs | 1 | done |
| 3 | `Keeper`, `MCKeeper`, `KeeperProofs` | overlapping ticks, leases, halts, sending, confirming, receipts, crashes, composed with `Escrow` | 2 | done |
| 4 | `Conversion`, `MCConversion`, `ConversionProofs`, `ConversionLedger` | the two caches, the bound snapshot, the gates, submit, confirm, receipt, restart; the ledger they implement | | done |
| 5 | `IssuerEvents`, `MCIssuerEvents`, `IssuerEventsProofs` | overlapping listings of the issuer's page and the history they write: fetch, read, compare, insert; failed calls; a change of `sourceUrl` alone | 4 shares the catalog | done |
| 5a | `Feed`, `ApiRecords`, `MCApiRecords` | overlapping refreshes of SPACEX's feed and what the date of a row says of it; checked with 5 as the API's other table | | done |
| 6 | `Console`, `ConsoleProofs` | connect, restore and disconnect of the wallet, polling, refreshes that overlap and are aborted, inspections that are superseded, activity that arrives late | 4 | done |
| 7 | `DesignOrders`, `DesignProofs` | the simulated orders: timers, late ticks, cancellation, settlement | 1 | done |
| 8 | `App`, `MCApp`, `AppProofs` | the page that makes one of the two sources | 6, 7 | done |

Abstract specifications: `OrderPromise` (what an order promises its owner,
implemented by `Escrow` and, by theorem, by `Escrow` with the keeper) and
`ConversionLedger` (what is signed, executed and told, implemented by
`Conversion`). Each of the two sources is, in the page, what it is alone
(`AppRunsSources`).

Left: the history of the one asset with a feed row.

One instance answers as many questions as it can: a run of its own is for a
question whose failures, fairness or bounds would make another one's state space
too large.

## 3. Modules and the code

### TminusMath

Operators only, named after the functions they translate. `CeilRatio`,
`ActiveFloor` and `LegalFill` are of `lib.rs`; `QuoteRatio`, `IsFillable` of the
SDK; `FillSize` and `ChooseFillPlan` of `policy.ts`. `RATIO_SCALE` is the code's
10^9, `MAX_U64` its 2^64 - 1; the Rust intermediate is a u128 and cannot overflow,
the result must fit in a u64 (`RatioFits`). `null` of the TypeScript is `NoFill`
and `NoQuote`. `TransferFee` is Token-2022's fee, outside the repository.

### Escrow

One action per instruction: `Place`, `Fill`, `Cancel`, `Expire`, each the whole
handler with its transfers, its harvest of withheld fees and its closing of both
accounts. `order[s]` is the order account at the address `s` (its seeds fix the
owner, `OwnerOf`), `escrow[s]` and `withheld[s]` are the escrow token account.
`fill` goes by the balance of the escrow account, not by the counters of the
order; both are in the model, and `EscrowCovers` relates them.

The world around it: the issuer pauses, hooks and changes fees at any time
(`IssuerSets`), anybody sends tokens straight to an escrow account
(`StrayDeposit`), the clock moves (`Tick`). `paid` and `stray` are history.

Abstractions: a wallet has one account per mint; the escrow account exists
exactly while the order does; rent is not modelled; `inspect_mint_extensions`
looks at the source mint, so only that one is paused or hooked, but both have a
fee. Amounts of `place` and `fill` are all of `0 .. MAX_U64`.

Met while modelling: filling an order twice in the same instant makes the second
`fill` find no account at all: whatever sets `STATUS_CLOSED` also closes the order
account, so the error `StatusClosed` is never what a caller sees.

### Keeper

`EXTENDS Escrow`: a transaction that lands is `Escrow!Fill`, or a swap and the
fill in one transaction (`FillFrom` with the balances after the swap). `tick[t]`
is the state of one call of `tick`: where it is (`at`) and its local variables.
Every `await` between two reads or writes of shared state is a boundary between
actions:

| Action | Code (`loop.ts` unless named) |
|---|---|
| `ReadIssuer`, `JudgeIssuer` | `readIssuer`, then `haltFromIssuer` and the new `state.lastFeeBps` |
| `CheckFeed` | `latestFeed` of the API's table, `haltFromFeed` |
| `LoadOrders` | `loadOpenOrders` and the reading of the host's clock that the tick plans by (115) |
| `PlanOrder` | `fillSize`, Jupiter's quote, `chooseFillPlan` |
| `TakeLease`, `Release` | `leases.ts` |
| `SendFill` | the re-check of the floor by another reading of the host's clock (233), the balance and the simulation |
| `Confirm`, `PersistReceipt` | `confirmTransaction`, `receipts.ts` |
| `Land`, `Revert`, `Drop` | what the chain makes of a transaction that is waited for |
| `LandLoose`, `DropLoose` | the same of one whose tick gave it up |
| `Throw`, `Crash` | any call that rejects (with the `finally`), the process dying |

The 60 s of a lease and the age of a feed row pass at any pace relative to the
chain's clock, so they are actions (`LeaseRunsOut`, `FeedAges`) and not
comparisons.

`now` is the chain's clock, which the program goes by (`lib.rs:115`). The keeper
goes by `Date.now()` of its host, and nothing in the code relates the two: each
reading is any of `HostTimes`, so a host may be ahead, behind, or set back. A
host that is ahead takes the failsafe's floor too early and the program refuses
its plan until the chain's clock gets there. `PlansAreAccepted` is therefore
claimed of orders on whose failsafe host and chain agree (`FailsafeAgreed`), and
`Served` where the hosts' clocks are steady in the end (`ClocksSteady`).

Abstractions: sending is enabled and every order is of the configured pair; a
call that throws did nothing, except that a transaction handed over may land; at
most one abandoned transaction per tick is followed; `keeper_health` and the log
are write-only and left out.

### Conversion

A session is one press of the button with what comes of it, from
`requestConversion` of the console through `buildExecutable`, the wallet,
`executeSignedConversion`, Jupiter and Solana to the receipt. `console[s]` is
where the browser is, `call[s]` where the API's handler is, `tx[s]` the signed
transaction. The gate (`LookUp`, `FetchPage`, `ReadBaseline`, `Inspect`, then
`Offer`, `Refuse` or `Submit`) runs for the assembly and again for the execution:
the code has it once, `buildExecutable`, and so has the model.

`catalog` and `mintCache` are shared by all requests. An entry of the catalog is
dated when its building began and written when it ended; the deadline is the feed
row's first. A failed read of the mint is cached like an answer. `Restart`
empties the caches and ends the requests.

The catalog parses what `fetchText` returns, answered with success or not
(`prestocks-catalog.ts:180`, `:197-199`): in place of the page it may get nothing
or the body of an error (`FailedTexts`), whose terms then count like the page's;
only the URL tells them apart (`read`). A text warns of an expiry with a date,
with one the strict expression of `feed-parse.ts:16` does not match (`Undated`),
or not at all; the second opens the window without any deadline
(`lifecycle-classify.ts:23-29`), and the gate lets that through.

The browser and the handler are coupled only by the request. `Disconnect` ends
what the browser waits for, with an error, before the request arrives or after:
then the handler goes on, may submit and may store a receipt, and its answer
reaches nobody (`Reply`).

Abstractions: all that the fingerprint covers beside the deadline is one value,
the destination (of the page's text, its `actionType` and `expireWorthless` are
whether it warns); a quote is there and good, or the gate refuses; the quote's age
bound is one constant, although the code has 15 s at assembly and 60 s at
execution; SOL for fees and display units are left out; the content of the page
is read in one step, when it arrives; the clock counts 30 s.

`ConversionLedger` is all of it without the API, its caches, its gate and the
issuer: a paper that is signed, handed in, executed or not; the funds of each
wallet; the receipts; and what the holder was told. `Conversion!Ledger` maps to
it: a paper is the signed transaction with its taker and amount, whether Jupiter
has passed it on or not, and what is told is the outcome the console shows. So
nothing is handed in once its holder was told that it was refused, while an error
leaves everything open: the paper may still be handed in, executed and receipted.
A restart is an error of every conversion whose holder waits, and a receipt says
what the chain took from which wallet.

### IssuerEvents

The history of one asset that has no feed row. `listing[l]` is one request under
way in `listCorporateActions`: it answers from the catalog or fetches (`Begin`,
`Fetch`, `FailToFetch`), replaces the catalog (`Store`), reads the newest row and
decides (`Load`, `FailToLoad`), and inserts (`Insert`, `FailToInsert`). Between
any two of them is an `await`, and another listing may run. `Classify` is
`classifyIssuerChange`; all the kinds of an actionable change are `CHANGED`,
since the code treats them alike, and `SOURCE_UNAVAILABLE` never arises (section
7). An event is its fingerprint: the URL it was read from, its terms, and whether
the tokens expire worthless, which `instructionFromAsset` also says once the
stage is `EXPIRED` (`corporate-action.ts:103`). So the event changes when the
deadline of `Dated` terms passes (`DeadlinePasses`, `over`), although the page
does not; a listing goes by the time it took before it fetched (`passed`). In
place of a page that is not reached it parses the body of the error, or nothing
(`Unreached`). `text` is the hash of the statement. Only the newest row is kept,
because no listing reads another. `went` is history: which terms the page stated
after which.

Abstractions: the 120 s of the catalog are an action (`CatalogAges`), not a
clock; the reads of the mints, between catalog and history, are one more `await`
and have no step; an insert either happens or fails, also when the API restarts.

### Feed

`call[c]` is a request to `/v1/feed` or `/v1/feed/refresh`, or the refresh at boot:
one that refreshes notes the time (`Refresh`), has the page (`PageAnswers`), then
the metrics and the mint, and inserts its row (`Stores`), or something throws
(`RefreshThrows`); one that reads is answered from the newest row (`AskForFeed`).
`snapshot` is the row of the latest date, the only one any query reads.
`stating` is what the issuer's page says and `lastly` is history: when it last
said each deadline. Only the page's deadline and the two verdicts on it are kept of a
row; what is parsed from an error page is any deadline.

`ApiRecords` is `IssuerEvents` for an asset without feed or `Feed` for the one
with: two tables that no request writes together.

### Console

`backendSource.ts`, its wallet, refresh, activity and inspection; the press of the
conversion button is `Conversion`'s, but for what it does to the rest of the class:
a conversion that settles refreshes and connects again. `wallet`, `activity`,
`derived` (the order address shown), `selected`, `lists` and `market` are fields of
the class; `conns`, `loads`, `look`, `refreshes`, `feedCalls`, `conversions` and
`leaving` are the calls under way, each at the await it is in; `conns` and `loads`
are bags, since two prompts, or two reads of one wallet's activity, may be under way
together.

| Action | Code (`backendSource.ts`) |
|---|---|
| `ConnectWallet`, `Approve`, `GiveUp` | `connectWallet`: the prompt, its answer, its refusal or its 20 s |
| `Distrust` | `restoreTrustedWallet` going on to the next provider |
| `ApplyConnectedWallet` | balances read, wallet set, inspection and activity started |
| `DisconnectWallet`, `Leave` | before and after the provider's `disconnect` |
| `ActivityArrives`, `ActivityFails` | `loadActivity` without a signal |
| `Poll`, `FeedRefreshed`, `ConversionSettles` | the callers of `refresh`, with the abort of the one before |
| `RequestConversion`, `ConversionEnds`, `ConnectsAgain` | `requestConversion` as the rest of the class sees it: it outlives a stop and a disconnect, and after its refresh applies the wallet connected by then |
| `RefreshArrives`, `FinishRefresh`, `ThrowRefresh` | the two halves of `refresh` around `loadActivity(signal)` |
| `SelectAsset`, `ProofAnswers`, `PdaAnswers`, `LookFails` | `inspectChainState` under `inspectGen` |
| `Start`, `Stop` | mount and unmount |

What the API serves is a version number, `served`, so that older and newer can be
told apart; a refresh gets any version served since it asked.

Abstractions: the six reads of a refresh are one read; lists from the catalog and
from the feed are not distinguished; a refresh that was aborted and an inspection
that was superseded write nothing after their await and are dropped at once; a provider
that trusts the page may give
any of the addresses in `Trusting`. The user does what the dialog of
`AppShell.tsx` offers, `MaxActs` times; the ratio's history, balances and notices
are left out.

### DesignOrders

`localDesignSource.ts`. An order carries its own entries of `pending` and
`settlements` as timers that hold the periods of 500 ms left; `Tick(d, now)` is
`tick` after `d` periods, the whole of it: the timers that are due (`Transitioned`, then
`Settled`), the market's step every `MarketEvery` ticks, and the decision for each
watching order (`StepOrder`). A background tab gets its ticks late, so `d` may be
more than one. `CreateOrder` and `CancelOrder` come between ticks.

Abstractions: the ratio is one of `Ratios` and moves to any of them; amounts,
the simulated wallet, notices and the texts of events are left out, and no order
depends on them.

### App

The page makes one source by `NEXT_PUBLIC_TMINUS_SOURCE` and keeps it
(`context.tsx`). `App` is the two modules with that choice, and its run is theirs.

## 4. Runs

Scales are small so that everything rounds and overflows: one in fixed point is
2 or 3, one in fee points 4 or 10, the largest u64 4, 5 or 15.

| Run | Question | Instance |
|---|---|---|
| `escrow` | Does the escrow cover, is the owner paid, does every closing account for the funds, is the promise kept, does everything come out in the end? | one address, owner and stranger, five terms (valid ones, ones `place` refuses, one at which a fill of the whole order overflows u64), pauses, hooks, two fee rates, times 0 to 2, stray deposits of 1 |
| `keeper_leases` | Are the types right, are receipts real, is one order attempted by one worker? | two processes with identities of their own; crashes, throws, late landings, leases that run out |
| `keeper_live` | Does the keeper end every open order? Do SDK, keeper policy and program agree on every amount? | one tick after another, failures and clocks that are off while they last, pauses; for the arithmetic every order, keeper and quote with amounts to 3 and ratios to twice the scale |
| `keeper_receipts` | Does the program accept what the keeper plans, is no landed fill forgotten, and does each get a receipt? | two overlapping ticks of one process, no failures; a host's clock that is ahead of the chain's, behind, or set back; quotes that are missing, miss or meet the floor; inventory that runs out, so that a fill is swapped for; a minimum fill at the cap with a failsafe, and above it with an expiry |
| `keeper_fee` | Does a fee change halt the keeper? | violated, section 7 |
| `conversion` | Are receipts confirmed, is the holder told the truth, are mint and page heeded, is the ledger implemented? | one session, two wallets to switch between, a page with a date and one with another destination and none that can be read, an error that carries the date, three states of the mint, clock to 2, one act of the issuer, broken connections, restarts |
| `conversion_deadline`, `conversion_source`, `conversion_quote` | Do deadline, source and quote age halt as documented? | violated, section 7 |
| `issuer_events` | Does the history catch up with the page and come to rest? Is a deadline called verified one the page stated lately? | two listings, two pages (nothing, and terms whose deadline may pass), an error that carries the same terms in other words, every failure, restarts; for SPACEX two requests, two deadlines and none, a clock to 2 and rows stale after 1 |
| `issuer_history` | Does the history say only what the page did? | violated, section 7; the same instance without fairness |
| `app` | Does what the console shows never go back, and become what is? Does connecting end? Do simulated orders walk their states, settle once, and end? | two wallets, one of which trusts the page, two assets, two providers, two acts of the user or the API, conversions among them; two orders, two ratios, ticks on time or nine periods late |

Why these bounds are enough to meet the interesting cases:

* The arithmetic: three units make sizes below, at and above the minimum fill and
  the cap, with a remainder under the minimum; a scale of 2 rounds half of the
  products. The theorems of `MathProofs` are about all amounts.

* `escrow`: three source tokens make orders that need two fills, one fill, or
  have a remainder below the minimum; a clock of 2 has a time before the
  failsafe, between failsafe and expiry, and at the expiry. Orders at different
  addresses do not share accounts; the theorems cover any number of them.
* `keeper_leases`: two ticks, one order of two tokens with a cap of one, so that
  there are two fills, two receipts and a lease row for an older `filled_raw`.
* `keeper_receipts` needs overlap but not the second process; its clock of 1 lets
  the failsafe set in between the plan and the attempt, which `PlansAreAccepted`
  covers, and `HostTimes` of 0 and 1 let either reading of the host's clock be on
  the other side of it (`keeper_live` too; the other two runs ask nothing of the
  floor). A stray deposit would only take its order out of `PlansAreAccepted`;
  `keeper_live` needs neither, since failures leave the same leases and transactions
  behind.
* `conversion`: `CatalogLife` is 2 and `MintLife` 1, so that the catalog outlives
  the mint's entry and the clock's last tick ends either; the deadline is the last
  tick, so a stage may be older than it; one act of the issuer can
  fall between any two steps; two wallets are what a switch needs. The wallets
  are symmetric: they hold the same, no constant or action names one, and the
  properties are safety properties that quantify over them (`ConversionLedger`'s
  too, it has no fairness). Several
  sessions share only the caches and the table; the theorems cover any number of
  them. `MaxTime` and `MaxActs` bound the clock and the issuer. The sessions end,
  so that run and the three after it do not check for deadlock; every other run does.
* `app`: a late answer needs a wallet before and a wallet after, or none, so two
  addresses and two acts (connect and leave, connect and select, stop and start
  again, leave and a restore under way); the API serves something newer at most twice,
  which is what an older answer needs to come after a newer one. In the design
  source the waits are those of the code in periods of 500 ms (1.6, 3.4, 1.4, 3.8
  and 2.4 s as 4, 7, 3, 8 and 5), and nine late periods make every pair of timers
  due in one tick, the last transition and the settlement among them.
* `issuer_events`: a listing is late only against another one, so two suffice to
  meet an older view inserted after a newer one, and two inserts of one change; rows
  differ by their URL alone (a blank page and none), by terms, by text (the page's
  and the error's) and by the deadline alone. In `issuer_history` no terms are
  `Dated`: what it finds is a change of the page that never was. Two requests for
  the feed are what it takes for an older page to be stored last, and a clock of 2
  makes a row stale, a refresh longer than the row's life, and a row that is dated
  after the page changed. `LastTime` bounds the clock.

## 5. Fairness

* `CrankedSpec` (`escrow`, for `Released`): time passes, and somebody signs `expire`
  while it is possible: the program lets anyone. No program of the repository does,
  so this is an assumption on the world and not on the code. Nothing is asked of
  fillers, owners or the issuer; `Released` itself asks that the issuer in the end
  leaves the mint unpaused and unhooked. Without that, the tokens stay.
* `KeeperFairness` (`keeper_live`, `keeper_receipts`): `setInterval` starts ticks for
  ever and the event loop carries each of them on (`Runs`), the chain answers
  what it was sent (`Answered`), 60 s pass (`LeaseRunsOut`). All of it is weak
  fairness. `Served` holds under `Calm`: from some point on nothing fails, the feed
  is fresh, the issuer leaves the mint alone, and no tick plans by a clock ahead of the
  chain's or finds it set back before it sends (`ClocksSteady`), as clocks that are
  kept in step do; a host that stays ahead is served only once the chain's clock has
  passed the failsafe. A stray deposit can leave
  a remainder in escrow that the keeper does not sell, so `keeper_live` has none.
* `Receipted` is claimed where nothing fails (`SmoothSpec`) and there only: a tick
  that throws after its transaction was sent stores no receipt, and nothing
  stores it later. `NoFillForgotten` is its part that needs no fairness: a fill that
  landed has its receipt, or a tick that knows it and is on the way to store it.

* `FairRecordsSpec` (`issuer_events`): consoles ask the API every 15 s
  (`backendSource.ts:511`), so there is always another listing, each listing goes
  on (`Serves`), and the catalog's entry grows old (`CatalogAges`); weak fairness
  of each. `EventsCatchUp` and `EventsComeToRest` (`HistoryCatchesUp` and
  `HistoryComesToRest` of an asset without feed) hold under `Calm`: from
  some point on no call fails, the API does not restart and the issuer leaves
  the page alone. Nothing is asked of the feed: `FeedIsDated` is a safety property.
* `ConsoleFairness` (`app`, for `ConnectingEnds` and `ShowsWhatIs`): the poll
  fires, prompts and reads end (`WalletAnswers`, which includes the code's own
  timeouts), the feed's refresh ends: weak fairness. `AnyArrival`, `AnyFinish`,
  `ProofAnswers` and `PdaAnswers` have strong fairness, because every poll aborts
  the refresh before it and every finished refresh supersedes the inspection
  before it: an answer that always takes longer than 15 s is never shown, and
  what is assumed is that again and again one does not. `ShowsWhatIs` holds under `Quiet`.
* `DesignFairness` (`app`, for `DesignEnds`): the interval keeps firing while the
  source is started.

`Calm` and `Quiet` say that from some point on every step is one of those that are
neither a failure nor the issuer's, the user's or the API's doing; that such an act
could happen and does not is part of it, so a step that looks the same as a failure
does not count as one.

The safety properties assume no fairness.

## 6. Proofs

Proved by TLAPS for every value of the constants, from the named assumptions the
modules state about them (types, positive scales, and for the controls that the
mint may be open).

| Module | Theorem | Says |
|---|---|---|
| `MathProofs` | `CeilRatioIsAlwaysLeast`, `FillableAlwaysDelivers`, `PlanIsAlwaysAcceptable` | what `keeper_live` enumerates of the arithmetic, for any ranges of amounts and any scale; from `CeilRatioLeast`, `FillableIffCovers`, `KeeperSizeLegal`, `PlanAcceptable`, which are about all naturals |
| | `FloorSinksWithFailsafe` | between two readings of a clock, or of two clocks, the floor of valid terms rises only where the failsafe had set in by the first and not by the second |
| | `SplittingPaysNoLess` | a fill cut in two, each rounded up, pays at least what the whole would, and one unit more at most |
| `EscrowProofs` | `TypeCorrect`, `EscrowAlwaysCovers`, `OwnerAlwaysPaid` | the invariants of `escrow` |
| | `AlwaysClosesAccounted` | its action property |
| | `ImplementsPromise` | `Escrow` implements `OrderPromise` |
| `KeeperProofs` | `ReceiptsAlwaysReal` | every receipt is of a fill that landed, no fill has two |
| | `OneAttemptAtATime` | the leases exclude, for workers with identities of their own |
| | `KeeperTyped` | the type invariant of the composed system |
| | `EscrowSoundUnderKeeper` | `EscrowCovers` and `OwnerPaid` with the keeper's swaps and late transactions among the steps |
| | `KeeperKeepsPromise` | the composed system implements `OrderPromise`, and closes orders as `ClosesAccounted` says |
| | `PlansAlwaysAccepted` | a plan for an order that is still as read is accepted, whatever the floor has sunk to and however the host's clock differs, unless the host had the failsafe set in and the chain has not, if quotes (`QuotesFit`) and the keeper's balance (`WalletFits`) fit 64 bits |
| | `NoFillIsForgotten` | the invariant of `keeper_receipts`, for any processes, ticks and orders |
| | `ForgottenByFailureOnly` | with failures too, a receipt that is owed is lost only by a call that throws or a crash |
| | `FeeChangeHaltsUnhalted` | what `keeper_fee` refutes holds of a mint that is never paused or hooked |
| | `InventoryRefusedUnderFee` | with a fee on the destination mint, every payment planned out of the inventory by the chain's time is refused |
| `ConversionProofs` | `ReceiptsOnlyConfirmed`, `HolderToldTheTruth`, `ConversionTyped` | the invariants of `conversion` |
| | `MintAlwaysHeeded`, `PageAlwaysHeeded` | its action properties |
| | `ConversionKeepsLedger` | the conversions implement `ConversionLedger` |
| | `HeededWithoutFeed` | as long as the feed has stored no row, what `conversion_deadline` refutes holds, and, if no error page warns of an expiry, what `conversion_source` refutes |
| `IssuerEventsProofs` | `RowsTyped` | the type invariant of `issuer_events` |
| | `FeedAlwaysDated` | its action property |
| | `SerialRealTransitions` | `RealTransitions`, which `issuer_history` refutes, for listings that do not overlap: a row of a change that compares two readings of the page says what the page did, or that its deadline passed; nothing is said of rows that compare with an unreached page |
| `ConsoleProofs` | `ConsoleTyped`, `ConsoleNeverGoesBack` | the console's types, and that lists and market never go back |
| `DesignProofs` | `HistoriesInOrder`, `SettledOnce` | every history walks the state machine; one receipt for each settlement |
| `AppProofs` | `AppRunsSources`, `AppIsSound` | the source the page makes runs as it would alone while the other stays in its initial state for good; so the two rows above hold of `app` |

The inductive invariants:

* `EscrowProofs!Inv` is the three invariants of the run with the validity of live
  terms. None is inductive alone: `OwnerPaid` needs the failsafe floor to be at
  most the minimum ratio (`TermsValid`), since the floor in force falls when the
  failsafe sets in; the types need `EscrowCovers`, which keeps `filled` within
  u64 although `fill` goes by the escrow balance. The arithmetic of a fill comes
  from `MathProofs!CeilRatioLeast`, through `SaleKeepsFloor`.
* `KeeperProofs!ReceiptInv` adds to `ReceiptsAreReal` that a tick told `landed`
  knows the place of its own fill in the chain's history (`Knows`).
  `KeeperProofs!LeaseInv` says that an attempt that has not outlived its lease
  holds the row of its order (`Holds`). `OneAttemptAtATime` assumes
  `OwnIdentities`: the repository gives all ticks of one process one
  `KEEPER_WORKER_ID`, and `tryLease` lets a worker take its own row again for the
  same `filled_raw`. Overlapping ticks of one process do attempt one order
  together; what that costs is a transaction the program refuses, which
  `keeper_receipts` covers.
* `KeeperProofs!KeeperInv` joins `EscrowProofs!Inv`, the types of what a tick keeps
  and `ReceiptInv`. What is needed beyond the escrow's own proof: a fill after a
  swap starts from other balances, so the step of `Fill` is proved for any
  (`FillFromInv`, `FillFromIsTrade`), and what a tick read of an order is of valid
  terms under the slot it goes by. `KeeperProofs!PlanInv` says of a tick that is
  leasing or attempting that its plan is sound for the order it read (`SoundPlan`):
  a legal size, the floor at the tick's clock, a payment that covers it;
  `PlanAcceptable` makes it so when the plan is chosen, and nothing until the
  attempt changes the plan. Nothing relates that clock to the chain's but
  `FailsafeAgreed`, which makes the floor in force at most the one planned with
  (`FloorSinksWithFailsafe`), so the payment still covers the minimum
  (`CeilRatioGrows`).
* `NoFillForgotten` is inductive with `ReceiptInv` and `NothingLoose`, that no tick
  has given a transaction up. One lemma carries it over every step but a throw and a
  crash (`OwedStays`): a landed fill is owed by the tick whose transaction it was,
  that tick goes straight from the answer to the insert, and the insert writes that
  signature or finds it written. The same lemma gives `ForgottenByFailureOnly`, in
  which failures are allowed and named.
* `KeeperProofs!FeeInv` says that the baseline is the fee seen first (`trusted`). It
  is not an invariant of the keeper, which is the finding of section 7; it is one
  under `NeverHalted`, since the two halts that are judged before the fee are what
  lets a changed fee be stored.
* `ConversionProofs!LedgerInv` says where a session may be with what kind of
  request and transaction (`Sound`, `Working`): the API is at work for a holder who
  waits for it or was told an error (`Erred`). It adds that a session's receipts are of its
  transaction (`Backed`) and what it was told is so (`Told`). The step that needs
  it: the taker posted is the wallet connected by then, and only the comparison
  of snapshots makes it the wallet that signed.
* `ConversionProofs!FreshInv` dates what a request goes by: an entry of a cache
  was true, or was taken back, at or after it was dated (`CatalogSound`,
  `MintCacheSound`), an answer is no older than the entry's lifetime when the
  request looked (`Fresh`), and the history variables lie in the past (`Dated`).
  `MintAlwaysHeeded` and `PageAlwaysHeeded` follow at `Submit`, where what was
  signed equals what was read.
* `ConversionKeepsLedger` is proved action by action from `LedgerInv` and `TypeInv`.
  Most steps are hidden from the ledger (`HiddenStep`). What the invariants are
  needed for: `Submit` hands in a paper of which nothing but an error was told and
  that was not handed in before; `Store` settles with the taker and amount of the
  paper (`Working`) and finds no receipt of it (`Backed`); a refusal by the gate, at
  the assembly or at the execution, is of a paper that is not handed in; and a
  restart or a broken connection is an error only to holders who were told nothing.
* `ConversionProofs!OwnInv`, for `HeededWithoutFeed`: as long as there is no row, the
  deadline of an event that was read from the page is one the page has stated since the
  catalog was built or stopped stating after; and an open window comes from the page
  or from the text of an error that warns of an expiry (`Owned`). The first hypothesis
  is met whenever every `refreshFeed` has failed, as it does while the metrics API or
  the mint's RPC does; the theorem says that the row alone is behind the finding of
  `conversion_deadline`, and row and error pages behind that of `conversion_source`.
* `ConversionProofs!TypeInv` adds to the types those of what a request has read at
  each of its awaits; that a transaction is only ever offered in an open window is the
  gate's first conjunct, at the last of them.
* `IssuerEventsProofs!SerialInv` says that the newest row and the catalog say what
  the page said, and of a deadline only what has passed (`Said`), that what the
  catalog has is no older than the row (`Fresh`), nor the time a listing fetches by
  (`TimeTaken`), and that a row about to be inserted is the catalog's, compared with
  the newest row (`Follows`). With one listing at a time nothing comes between; the
  code does not provide that, so the theorem says what a repair of `RealTransitions`
  has to.

* `IssuerEventsProofs!FeedInv` says that a row's verified deadline was on the page
  at the row's date or after (`RowInv`), and what a refresh has of the page since it
  began (`CallInv`). It holds because the date is taken before the reads; dated
  when the answers are there, a slow refresh would pass an old page for a new one.
* `ConsoleProofs!IInv`: of all refreshes that overlap, at most one may still write
  (each poll aborts the one before), and it asked since what is shown was served,
  or has itself written the lists, no older than the market (`RefreshOK`).
* `DesignProofs!Fine`: an order is in one of seven phases, each with the timers it
  has left (`Phase`); after the decision no timer is later than the settlement, which is
  what a tick that is many periods late needs; its receipts are those of its path.

Only model-checked: `Released`, `Served`, `Receipted`, `EventsCatchUp`,
`EventsComeToRest`, `ConnectingEnds`, `ShowsWhatIs` and `DesignEnds`: liveness
under fairness is out of the prover's reach. Every invariant, every action
property and every refinement of a passing run is a theorem.

## 7. Where the code and its documents differ

| Run | The documents say | The code does |
|---|---|---|
| `keeper_fee` | a fee change halts the keeper (`README.md:618`, `policy.test.ts:29`) | a fee changed during a pause or under a hook becomes the baseline, and no tick ever halts for it |
| `conversion_deadline` | every listing rebuilds the instruction, a changed deadline halts (`README.md:151`, `README.md:185`) | an old feed row's deadline outranks the page just fetched, in the gate and in the fingerprint |
| `conversion_source` | an unavailable source halts (`README.md:189`, `README.md:239`) | `sourceOk` is always true: the URL falls back to the product page, and the terms come from the feed row (or from the body of an error) |
| `conversion_quote` | stale quotes cannot sign (`README.md:664`) | the clock is read before the quote, so no quote is ever too old; at execution the quote of the signed transaction is not looked at |
| `issuer_history` | the history shows only real transitions (`README.md:192`) | a listing with an older view of the page inserts it after a newer row, as a change back that the page never made |

Met while modelling, and denied by no document unless one is named:

* The history records a page that could not be fetched as terms withdrawn, or as the
  terms the body of the error carries, and a deadline that passes as a change of the
  event (`corporate-action.ts:103`); two
  listings may record one change twice; after a failed read the row inserted says
  `NO_CHANGE` and the transition is missing. `EventsCatchUp` holds all the same.
* Of two overlapping refreshes of the feed, the one that began last gives the newest row,
  even if it read the page first, so the newest row may go back to an older page
  for as long as the refreshes took. `refreshFeed` has no timeout, and what it
  returns to `GET /v1/feed` is not looked at for its age.
* A page that warns of an expiry without a date the parser can read opens the
  conversion window with no deadline, and the gate has none to check
  (`lifecycle-classify.ts:23-29`, `safety-gate.ts:74`); the body of an error may do so.
* When the connection of `POST /v1/conversions/execute` breaks, the holder is told an
  error while the handler goes on; the conversion may settle and its receipt be stored.
* A keeper whose host is ahead of the chain plans by the failsafe's floor early and is
  refused at every tick until the chain's clock gets there.
* The keeper halts by the date of the feed row only (`loop.ts:67-100`): a fresh row
  that is `unverified` does not halt it.
* The keeper's receipts name neither owner nor taker in their payload, so
  `/v1/activity` lists none of them for the order's owner.
* The console shows the activity and the order address of a former wallet until the
  next refresh or inspection; a trusted restore or a read of balances that ends after
  `disconnectWallet` connects again; a connection that fails clears a wallet that
  was restored meanwhile; a refresh may start after `stop`, by the `finally` of the
  feed's refresh or by a conversion that settles, which also connects again;
  when `/v1/activity` cannot be reached the market stays as it was
  beside fresh lists.
* `OrderTicket` forgets that it is submitting when it is unmounted, so a second
  conversion may be started beside the first.
* The design source: `settle` clamps the executed ratio to 0.7935 at most, while
  `OrderTicket` takes floors up to 0.95, so a receipt may be below its order's
  floor beside the words "floor honored" (`OrderDetail.tsx:162`); the header draws a
  `FAILSAFE` status that is never entered; cancelling is offered in `TARGET_REACHED`
  and `EXECUTING` and does nothing; the balances are reset by connecting again.

## 8. Not modelled

The models follow the parts that keep state others rely on. By lines that is the
smaller part of the repository:

* Rendering, the landing page, the component kit under `components/ui` (most of which
  nothing imports), fixtures and generated interfaces (`packages/sdk/src/idl.ts`):
  about half of the lines, without state another part relies on.
* Scripts and recorded evidence: one-off sequences of the calls that the models
  have, run by hand against a cluster.
* Of the console: balances, notices, the ratio's history, the API's base address,
  units and texts. Of the design source: amounts, the simulated wallet, notices,
  texts. Of the shell: routes, focus and the dialogs' layout; that the dialog offers
  connecting only without a wallet is in `Console`.
* Of the API: routing and parameters, `activity.ts`, `balances.ts`, `pda.ts`,
  `program-status.ts`, which format what the chain and the tables hold and keep
  nothing; the migrations, whose uniqueness constraints are in `Keeper` and
  `Conversion`. The history of the one asset with a feed row.
* Parsing of the issuer's pages, Jupiter's HTTP API and its retries, instruction
  encoding, the database client: their answers are inputs of the models, failures
  included.
