----------------------------- MODULE Conversion -----------------------------
(***************************************************************************)
(* Mainnet conversions (apps/api/src and the console's requestConversion). *)
(* A holder asks for an executable transaction.  The API looks up the      *)
(* issuer's event, the mint and a Jupiter route, and if nothing refuses,   *)
(* answers with a transaction and a snapshot of what it saw.  The holder   *)
(* signs, some time later, and posts both; the API sees everything again,  *)
(* compares the snapshots, hands the transaction to Jupiter, waits for     *)
(* Solana and stores a receipt.                                            *)
(*                                                                         *)
(* What the API sees comes through two caches every request shares: the    *)
(* catalog (the issuer's page, 120 s) and the mint (30 s).  The event's    *)
(* deadline and the fee it is compared with come from the newest row of    *)
(* feed_snapshots where there is one.  Every await is a step, so that      *)
(* requests, the issuer, the wallet and the clock interleave.              *)
(*                                                                         *)
(* A session is one press of the button and what comes of it; a holder who *)
(* gives one up and tries again is two sessions of one wallet.  The asset  *)
(* is SPACEX, the only one requestConversion signs for.  The browser waits *)
(* for the API or hears that the connection broke; the handler at the API  *)
(* does not notice and goes on.                                            *)
(*                                                                         *)
(* What a page says is the date it warns of, that it warns of an expiry    *)
(* without a date the parser can read, or nothing of an expiry; and a      *)
(* destination, which stands for all else the fingerprint covers.          *)
(***************************************************************************)
EXTENDS Integers, FiniteSets

CONSTANTS
    Sessions,      \* conversions the holders may ask for
    Wallets,       \* the holders' addresses
    NoWallet,      \* no wallet is connected
    Deadlines,     \* deadlines a page may state
    Undated,       \* a page that warns of an expiry, its date not readable
    NoDeadline,    \* one that says nothing of it; deadline = null
    Destinations,  \* destinations a page may name
    Pages,         \* what the issuer's page may say: [terms, dest]
    ErrorPages,    \* what may be sent for it with an error
    DefaultDest,   \* SPCXx, where the page names none
    MintStates,    \* controls of the mint: [paused, hooked, rate]
    Unread,        \* the mint could not be read (rpcOk = false)
    Amounts,       \* amounts the holders ask to convert
    Supply,        \* what each wallet holds of the source
    NoRow,         \* no row in feed_snapshots, or the read failed
    NoEntry,       \* an empty cache
    NoAsset,       \* a catalog without the asset
    CatalogLife,   \* CACHE_MS of the catalog
    MintLife,      \* CACHE_MS of the mint
    QuoteLife,     \* quoteStaleMs at execute
    MaxTime,       \* the clock stops here
    MaxActs        \* bound on the issuer's changes

ASSUME ConversionAssumption ==
    /\ NoWallet \notin Wallets
    /\ Deadlines \subseteq Nat
    /\ {NoDeadline, Undated} \cap Nat = {}
    /\ Undated # NoDeadline
    /\ DefaultDest \in Destinations
    /\ Pages \union ErrorPages
          \subseteq [terms : Deadlines \union {Undated, NoDeadline}, dest : Destinations]
    /\ MintStates \subseteq [paused : BOOLEAN, hooked : BOOLEAN, rate : Nat]
    /\ Unread \notin MintStates
    /\ Amounts \subseteq Nat \ {0}
    /\ Supply \in Nat
    /\ {CatalogLife, MintLife} \subseteq Nat \ {0}
    /\ {QuoteLife, MaxTime, MaxActs} \subseteq Nat

VARIABLES
    clock,
    page,        \* the issuer's page
    mint,        \* the mint's account on the chain
    feedRow,     \* newest row of feed_snapshots: [terms, rate], or NoRow
    catalog,     \* cache of buildPrestocksCatalog: [at, event]
    mintCache,   \* cache of readMintState: [at, seen]
    connected,   \* connected[s]: walletState.address where s was started
    console,     \* console[s]: requestConversion
    call,        \* call[s]: the API's handler at work for s
    tx,          \* tx[s]: the transaction signed in s
    balance,     \* balance[w]: source tokens of w on the chain
    receipts,    \* rows of receipts
    acts,        \* changes the issuer made
    pageSince,   \* history: when the page came to say what it says
    mintSince    \* history: when the mint came to be as it is

chain    == <<mint, balance, mintSince>>
caches   == <<catalog, mintCache>>
issuer   == <<page, pageSince, acts>>
vars     == <<clock, page, mint, feedRow, catalog, mintCache, connected, console,
              call, tx, balance, receipts, acts, pageSince, mintSince>>

NoCall == [at |-> "none"]  \* the API is not at work for the session

Unsigned == [status |-> "unsigned"]

Init ==
    /\ clock = 0
    /\ page \in Pages
    /\ mint \in MintStates
    /\ feedRow = NoRow
    /\ catalog = NoEntry
    /\ mintCache = NoEntry
    /\ connected \in [Sessions -> Wallets]
    /\ console = [s \in Sessions |-> [at |-> "idle"]]
    /\ call = [s \in Sessions |-> NoCall]
    /\ tx = [s \in Sessions |-> Unsigned]
    /\ balance = [w \in Wallets |-> Supply]
    /\ receipts = {}
    /\ acts = 0
    /\ pageSince = 0
    /\ mintSince = 0

-----------------------------------------------------------------------------
(* What the API makes of the issuer. *)

(* The text a page is read from when it was not answered with success: that of
   the error, or none at all. *)
Blank == [terms |-> NoDeadline, dest |-> DefaultDest]

FailedTexts == ErrorPages \union {Blank}

DateIn(terms) == IF terms \in Deadlines THEN terms ELSE NoDeadline

(* The row's deadline first, though the row may be old, then the text's. *)
DeadlineOf(row, text) ==
    IF row # NoRow /\ row.terms \in Deadlines THEN row.terms ELSE DateIn(text.terms)

(* The row's event type hides the text's, whatever it is. *)
Warned(row, text) ==
    IF row # NoRow THEN row.terms # NoDeadline ELSE text.terms # NoDeadline

Stage(deadline, warned, time) ==
    IF deadline # NoDeadline /\ deadline <= time THEN "EXPIRED"
    ELSE IF warned \/ deadline # NoDeadline THEN "CONVERSION_WINDOW"
    ELSE "TERMS_PENDING"

(* An entry of the catalog.  The fingerprint is over all of it: sourceUrl is
   the asset's page only if that was read, actionType and expireWorthless are
   those of the text, and the latter is set with the stage too. *)
EventOf(row, text, read, time) ==
    LET deadline == DeadlineOf(row, text)
    IN  [read     |-> read,
         deadline |-> deadline,
         warned   |-> text.terms # NoDeadline,
         dest     |-> text.dest,
         stage    |-> Stage(deadline, Warned(row, text), time)]

(* readMintState: the entry while it is young, else the chain, whose failure
   is cached like an answer. *)
Present(entry, life) == entry # NoEntry  \* mutant: the age not looked at

Young(entry, life) == entry # NoEntry /\ clock - entry.at < life

ReadMint(seen) ==
    IF Young(mintCache, MintLife)
    THEN seen = mintCache.seen /\ UNCHANGED mintCache
    ELSE seen \in {mint, Unread} /\ mintCache' = [at |-> clock, seen |-> seen]

-----------------------------------------------------------------------------
(* The holder asks, and the gate (buildExecutable) runs. *)

SetCall(s, state) == call' = [call EXCEPT ![s] = state]

At(s, step) == call[s].at = step

Tell(s, outcome) == console' = [console EXCEPT ![s] = [at |-> "told", outcome |-> outcome]]

(* The browser waits for the API's answer. *)
Waits(s) == console[s].at \in {"asking", "posted"}

(* The handler answers, to a browser that may be gone. *)
Reply(s, outcome) == IF Waits(s) THEN Tell(s, outcome) ELSE UNCHANGED console

(* getCorporateAction has the catalog; without the asset it answers 404. *)
Found(s, row, event) ==
    IF event = NoAsset
    THEN SetCall(s, NoCall) /\ Reply(s, "error")
    ELSE /\ SetCall(s, [at |-> "baseline", req |-> call[s].req, row |-> row, event |-> event])
         /\ UNCHANGED console

(* A request to assemble a transaction, or to execute one under the snapshot
   the console posts with it. *)
Assembly(taker, amount) ==
    [assemble |-> TRUE, taker |-> taker, amount |-> amount, began |-> clock]

Execution(taker, amount, bound) ==
    [assemble |-> FALSE, taker |-> taker, amount |-> amount, began |-> clock, bound |-> bound]

Ask(s) ==
    /\ console[s].at = "idle"
    /\ connected[s] # NoWallet
    /\ \E amount \in Amounts :
          SetCall(s, [at |-> "lookup", req |-> Assembly(connected[s], amount)])
    /\ console' = [console EXCEPT ![s] = [at |-> "asking"]]
    /\ UNCHANGED <<clock, chain, caches, issuer, feedRow, connected, tx, receipts>>

(* latestFeed, and the catalog if it is young. *)
LookUp(s) ==
    /\ At(s, "lookup")
    /\ \E row \in {feedRow, NoRow} :
          IF Young(catalog, CatalogLife)
          THEN Found(s, row, catalog.event)
          ELSE /\ SetCall(s, [at |-> "fetch", req |-> call[s].req, row |-> row, asOf |-> clock])
               /\ UNCHANGED console
    /\ UNCHANGED <<clock, chain, caches, issuer, feedRow, connected, tx, receipts>>

(* The pages arrive, or errors in their place, and the catalog is stored under
   the time its building began; if neither list could be fetched, without the
   asset. *)
FetchPage(s) ==
    /\ At(s, "fetch")
    /\ \E event \in {EventOf(call[s].row, page, TRUE, call[s].asOf), NoAsset}
                       \union {EventOf(call[s].row, text, FALSE, call[s].asOf) : text \in FailedTexts} :
          /\ catalog' = [at |-> call[s].asOf, event |-> event]
          /\ Found(s, call[s].row, event)
    /\ UNCHANGED <<clock, chain, mintCache, issuer, feedRow, connected, tx, receipts>>

(* listCorporateActions: the fee to compare with is the row's, or that of the
   mint.  Then the clock is read. *)
ReadBaseline(s) ==
    /\ At(s, "baseline")
    /\ LET row == call[s].row
           Go(rate) == SetCall(s, [at |-> "inspect", req |-> call[s].req, event |-> call[s].event,
                                   baseline |-> rate, now |-> clock])
           unopened == call[s].event.stage = "TERMS_PENDING"
       IN  \/ row # NoRow /\ Go(row.rate) /\ UNCHANGED mintCache
           \/ row = NoRow /\ unopened /\ Go(Unread) /\ UNCHANGED mintCache
           \/ /\ row = NoRow /\ ~unopened
              /\ \E seen \in MintStates \union {Unread} :
                    /\ ReadMint(seen)
                    /\ Go(IF seen = Unread THEN Unread ELSE seen.rate)
    /\ UNCHANGED <<clock, chain, catalog, issuer, feedRow, connected, console, tx, receipts>>

(* holderPosition, which takes an RPC failure for enough, and readMintState
   if there is a window to route in. *)
Inspect(s) ==
    /\ At(s, "inspect")
    /\ LET c == call[s] IN
       \E seen \in MintStates \union {Unread}, funded \in {balance[c.req.taker] >= c.req.amount, TRUE} :
          /\ IF c.event.stage = "CONVERSION_WINDOW" THEN ReadMint(seen)
             ELSE seen = Unread /\ UNCHANGED mintCache
          /\ SetCall(s, [at |-> "quote", req |-> c.req, event |-> c.event, baseline |-> c.baseline,
                         now |-> c.now, seen |-> seen, funded |-> funded])
    /\ UNCHANGED <<clock, chain, catalog, issuer, feedRow, connected, console, tx, receipts>>

(* evaluateSafety.  The quote is there and above the floor, and was fetched at
   quotedAt. *)
Allowed(c, quotedAt) ==
    /\ c.event.stage = "CONVERSION_WINDOW"
    /\ c.event.deadline # NoDeadline => c.now < c.event.deadline
    /\ c.seen # Unread
    /\ ~c.seen.paused
    /\ ~c.seen.hooked
    /\ c.baseline \in {Unread, c.seen.rate}
    /\ c.funded
    /\ c.now - quotedAt <= QuoteLife

Snapshot(c) ==
    [event |-> c.event, taker |-> c.req.taker, amount |-> c.req.amount, mint |-> c.seen]

SameButEvent(bound, live) ==  \* mutant: the fingerprint not compared
    [bound EXCEPT !.event = live.event] = live

SameButTaker(bound, live) ==  \* mutant: the wallet not compared
    [bound EXCEPT !.taker = live.taker] = live

SameSnapshot(bound, live) == bound = live

(* The quote of an assembly arrives and nothing refuses: the console gets a
   transaction. *)
Offer(s) ==
    /\ At(s, "quote")
    /\ call[s].req.assemble
    /\ Allowed(call[s], clock)
    /\ SetCall(s, NoCall)
    /\ IF Waits(s)
       THEN console' = [console EXCEPT ![s] =
                           [at |-> "signing", snapshot |-> Snapshot(call[s]), quotedAt |-> clock]]
       ELSE UNCHANGED console
    /\ UNCHANGED <<clock, chain, caches, issuer, feedRow, connected, tx, receipts>>

(* Either gate refuses: there is no quote, or one below the floor, or
   something else is wrong. *)
Refuse(s) ==
    /\ At(s, "quote")
    /\ SetCall(s, NoCall)
    /\ Reply(s, "refused")
    /\ UNCHANGED <<clock, chain, caches, issuer, feedRow, connected, tx, receipts>>

(* The holder signs, or does not. *)
Sign(s) ==
    /\ console[s].at = "signing"
    /\ LET offer == console[s] IN
       /\ tx' = [tx EXCEPT ![s] = [status |-> "signed", snapshot |-> offer.snapshot,
                                   quotedAt |-> offer.quotedAt]]
       /\ console' = [console EXCEPT ![s] = [at |-> "signed"]]
    /\ UNCHANGED <<clock, chain, caches, issuer, feedRow, connected, call, receipts>>

Decline(s) ==
    /\ console[s].at = "signing"
    /\ Tell(s, "refused")
    /\ UNCHANGED <<clock, chain, caches, issuer, feedRow, connected, call, tx, receipts>>

(* POST /v1/conversions/execute, for the wallet that is connected by then. *)
Post(s) ==
    /\ console[s].at = "signed"
    /\ \/ /\ connected[s] = NoWallet
          /\ Tell(s, "error")
          /\ UNCHANGED call
       \/ /\ connected[s] # NoWallet
          /\ LET bound == tx[s].snapshot IN
             SetCall(s, [at  |-> "lookup",
                         req |-> Execution(connected[s], bound.amount, bound)])
          /\ console' = [console EXCEPT ![s] = [at |-> "posted"]]
    /\ UNCHANGED <<clock, chain, caches, issuer, feedRow, connected, tx, receipts>>

(* The connection breaks under apiGet or apiPost: the request has not arrived,
   or its handler goes on. *)
Disconnect(s) ==
    /\ Waits(s)
    /\ Tell(s, "error")
    /\ UNCHANGED call \/ (At(s, "lookup") /\ SetCall(s, NoCall))
    /\ UNCHANGED <<clock, chain, caches, issuer, feedRow, connected, tx, receipts>>

(* executeSignedConversion after its gate: the snapshots agree, nothing
   refuses, and Jupiter is called. *)
Submit(s) ==
    /\ At(s, "quote")
    /\ ~call[s].req.assemble
    /\ SameSnapshot(call[s].req.bound, Snapshot(call[s]))
    /\ Allowed(call[s], clock)
    /\ tx' = [tx EXCEPT ![s].status = "submitted"]
    /\ SetCall(s, [at |-> "jupiter", req |-> call[s].req])
    /\ UNCHANGED <<clock, chain, caches, issuer, feedRow, connected, console, receipts>>

(* Jupiter answers Success and a signature; or it fails, or does not answer
   within 30 s, whatever becomes of the transaction. *)
AnswerAsRefusal(s) ==  \* mutant: no answer in time is told as a refusal
    /\ At(s, "jupiter")
    /\ \/ /\ tx[s].status \in {"sent", "landed", "failed"}
          /\ SetCall(s, [at |-> "confirm", req |-> call[s].req])
          /\ UNCHANGED console
       \/ /\ SetCall(s, NoCall)
          /\ Reply(s, "refused")
    /\ UNCHANGED <<clock, chain, caches, issuer, feedRow, connected, tx, receipts>>

Answer(s) ==
    /\ At(s, "jupiter")
    /\ \/ /\ tx[s].status \in {"sent", "landed", "failed"}
          /\ SetCall(s, [at |-> "confirm", req |-> call[s].req])
          /\ UNCHANGED console
       \/ /\ SetCall(s, NoCall)
          /\ Reply(s, "error")
    /\ UNCHANGED <<clock, chain, caches, issuer, feedRow, connected, tx, receipts>>

(* confirmAndMeasure found the transaction without an error. *)
Included(s) == tx[s].status \in {"landed", "failed"}  \* mutant: err not looked at

Confirmed(s) == tx[s].status = "landed"

ConfirmWithoutReturn(s) ==  \* mutant: PENDING is answered and the handler goes on
    /\ At(s, "confirm")
    /\ SetCall(s, [at |-> "store", req |-> call[s].req])
    /\ \/ Confirmed(s) /\ UNCHANGED console
       \/ Reply(s, "submitted")
    /\ UNCHANGED <<clock, chain, caches, issuer, feedRow, connected, tx, receipts>>

(* It may also find an error, throw, or not find it in 24 tries. *)
Confirm(s) ==
    /\ At(s, "confirm")
    /\ \/ /\ Confirmed(s)
          /\ SetCall(s, [at |-> "store", req |-> call[s].req])
          /\ UNCHANGED console
       \/ /\ SetCall(s, NoCall)
          /\ Reply(s, "submitted")
       \/ /\ SetCall(s, NoCall)
          /\ Reply(s, "error")
    /\ UNCHANGED <<clock, chain, caches, issuer, feedRow, connected, tx, receipts>>

(* The receipt is stored and the holder told, or the insert throws. *)
Store(s) ==
    /\ At(s, "store")
    /\ SetCall(s, NoCall)
    /\ \/ /\ receipts' = receipts \union
                {[sig |-> s, taker |-> call[s].req.taker, amount |-> call[s].req.amount]}
          /\ Reply(s, "settled")
       \/ /\ Reply(s, "error")
          /\ UNCHANGED receipts
    /\ UNCHANGED <<clock, chain, caches, issuer, feedRow, connected, tx>>

(* The API restarts: its caches and the requests in it are gone. *)
Restart ==
    /\ catalog' = NoEntry
    /\ mintCache' = NoEntry
    /\ call' = [s \in Sessions |-> NoCall]
    /\ console' = [s \in Sessions |->
                      IF Waits(s) THEN [at |-> "told", outcome |-> "error"] ELSE console[s]]
    /\ UNCHANGED <<clock, chain, issuer, feedRow, connected, tx, receipts>>

-----------------------------------------------------------------------------
(* What goes on around the API. *)

(* refreshFeed: the page and the mint of now, the page as it was answered, with
   an error or not; any other failure stores no row. *)
RefreshFeed ==
    /\ \E text \in {page} \union FailedTexts :
          feedRow' = [terms |-> text.terms, rate |-> mint.rate]
    /\ UNCHANGED <<clock, chain, caches, issuer, connected, console, call, tx, receipts>>

(* Jupiter takes a transaction to the chain, perhaps long after it was asked. *)
Broadcast(s) ==
    /\ tx[s].status = "submitted"
    /\ tx' = [tx EXCEPT ![s].status = "sent"]
    /\ UNCHANGED <<clock, chain, caches, issuer, feedRow, connected, console, call, receipts>>

(* Solana executes it, or fails it, or its blockhash runs out. *)
Land(s) ==
    LET taker == tx[s].snapshot.taker
        amount == tx[s].snapshot.amount
    IN  /\ tx[s].status = "sent"
        /\ ~mint.paused
        /\ balance[taker] >= amount
        /\ tx' = [tx EXCEPT ![s].status = "landed"]
        /\ balance' = [balance EXCEPT ![taker] = @ - amount]
        /\ UNCHANGED <<clock, mint, mintSince, caches, issuer, feedRow, connected, console, call, receipts>>

Fall(s) ==
    /\ tx[s].status = "sent"
    /\ \E status \in {"failed", "dropped"} : tx' = [tx EXCEPT ![s].status = status]
    /\ UNCHANGED <<clock, chain, caches, issuer, feedRow, connected, console, call, receipts>>

SwitchWallet(s) ==
    /\ console[s].at \notin {"posted", "told"}
    /\ \E w \in (Wallets \union {NoWallet}) \ {connected[s]} :
          connected' = [connected EXCEPT ![s] = w]
    /\ UNCHANGED <<clock, chain, caches, issuer, feedRow, console, call, tx, receipts>>

IssuerWrites ==
    /\ acts < MaxActs
    /\ acts' = acts + 1
    /\ page' \in Pages \ {page}
    /\ pageSince' = clock
    /\ UNCHANGED <<clock, chain, caches, feedRow, connected, console, call, tx, receipts>>

IssuerActs ==
    /\ acts < MaxActs
    /\ acts' = acts + 1
    /\ mint' \in MintStates \ {mint}
    /\ mintSince' = clock
    /\ UNCHANGED <<clock, balance, caches, page, pageSince, feedRow, connected, console, call, tx, receipts>>

Tick ==
    /\ clock < MaxTime
    /\ clock' = clock + 1
    /\ UNCHANGED <<chain, caches, issuer, feedRow, connected, console, call, tx, receipts>>

Next ==
    \/ \E s \in Sessions :
          \/ Ask(s) \/ LookUp(s) \/ FetchPage(s) \/ ReadBaseline(s) \/ Inspect(s)
          \/ Offer(s) \/ Refuse(s) \/ Sign(s) \/ Decline(s) \/ Post(s) \/ Disconnect(s)
          \/ Submit(s) \/ Answer(s) \/ Confirm(s) \/ Store(s)
          \/ Broadcast(s) \/ Land(s) \/ Fall(s) \/ SwitchWallet(s)
    \/ Restart
    \/ RefreshFeed
    \/ IssuerWrites
    \/ IssuerActs
    \/ Tick

Spec == Init /\ [][Next]_vars

-----------------------------------------------------------------------------
(* Properties. *)

Events == [read : BOOLEAN, deadline : Deadlines \union {NoDeadline}, warned : BOOLEAN,
           dest : Destinations, stage : {"TERMS_PENDING", "EXPIRED", "CONVERSION_WINDOW"}]

Snapshots == [event : Events, taker : Wallets, amount : Amounts, mint : MintStates]

Outcomes == {"settled", "submitted", "refused", "error"}

(* Entries of the caches are of the past; what a holder signs was allowed on
   an open window; and the API is at work only for a holder who waits, or who
   was told that the connection failed (executable.ts, api.ts). *)
TypeOK ==
    /\ clock \in 0 .. MaxTime
    /\ page \in Pages
    /\ mint \in MintStates
    /\ feedRow \in {NoRow} \union [terms : Deadlines \union {Undated, NoDeadline}, rate : Nat]
    /\ catalog \in {NoEntry} \union [at : 0 .. clock, event : Events \union {NoAsset}]
    /\ mintCache \in {NoEntry} \union [at : 0 .. clock, seen : MintStates \union {Unread}]
    /\ connected \in [Sessions -> Wallets \union {NoWallet}]
    /\ \A s \in Sessions :
          /\ console[s].at \in {"idle", "asking", "signing", "signed", "posted", "told"}
          /\ console[s].at = "told" => console[s].outcome \in Outcomes
          /\ call[s].at # "none" =>
                Waits(s) \/ console[s] = [at |-> "told", outcome |-> "error"]
          /\ tx[s].status # "unsigned" =>
                /\ tx[s].status \in {"signed", "submitted", "sent", "landed", "failed", "dropped"}
                /\ tx[s].snapshot \in Snapshots
                /\ tx[s].snapshot.event.stage = "CONVERSION_WINDOW"
    /\ balance \in [Wallets -> 0 .. Supply]

(* Every receipt is of a transaction that landed on the chain, for the wallet
   that signed it and the amount it took, and no transaction has two
   (executable.ts: confirmAndMeasure before the insert). *)
ReceiptsConfirmed ==
    /\ \A r \in receipts :
          /\ tx[r.sig].status = "landed"
          /\ r.taker = tx[r.sig].snapshot.taker
          /\ r.amount = tx[r.sig].snapshot.amount
    /\ \A r, q \in receipts : r.sig = q.sig => r = q

(* What the holder is told is so: settled, and the receipt is there; refused,
   and nothing went to Jupiter or ever will; submitted, and it did.  An error
   promises nothing (backendSource.ts: requestConversion on 200, 409 and 202). *)
ToldTheTruth ==
    \A s \in Sessions : console[s].at = "told" =>
        LET sent == tx[s].status \notin {"unsigned", "signed"} IN
        /\ console[s].outcome = "settled" => \E r \in receipts : r.sig = s
        /\ console[s].outcome = "refused" => ~sent
        /\ console[s].outcome = "submitted" => sent

(* The conversions implement ConversionLedger: the papers are the signed
   transactions, whether Jupiter has passed them on or not, and the funds are
   the balances on the chain. *)
PaperOf(s) ==
    IF tx[s].status = "unsigned" THEN [fate |-> "unsigned"]
    ELSE [fate   |-> IF tx[s].status = "sent" THEN "submitted" ELSE tx[s].status,
          taker  |-> tx[s].snapshot.taker,
          amount |-> tx[s].snapshot.amount]

ToldOf(s) == IF console[s].at = "told" THEN console[s].outcome ELSE "nothing"

Ledger == INSTANCE ConversionLedger
          WITH paper <- [s \in Sessions |-> PaperOf(s)],
               told  <- [s \in Sessions |-> ToldOf(s)],
               funds <- balance,
               book  <- receipts

KeepsLedger == Ledger!LedgerSpec

Submits(s) ==
    /\ tx[s].status = "signed"
    /\ tx'[s].status = "submitted"

(* Nothing goes to Jupiter on a mint that has been paused, hooked or under
   another fee than signed since before the cache the request reads could have
   been filled: its answers, and its errors, serve for 30 s and no longer
   (executable.ts, onchain-mint.ts). *)
HeedsMint(s) ==
    (Submits(s) /\ (mint # tx[s].snapshot.mint \/ mint.paused \/ mint.hooked))
        => mintSince > call[s].req.began - MintLife

MintHeeded == [][\A s \in Sessions : HeedsMint(s)]_vars

(* Nothing goes to Jupiter for a destination that was read from the page and
   that the page has not named since before the catalog could have been built;
   nor, whatever stage the catalog keeps, from the deadline on that was signed,
   if one was (executable.ts, prestocks-catalog.ts). *)
HeedsPage(s) ==
    Submits(s) =>
        LET signed == tx[s].snapshot.event
            began  == call[s].req.began
        IN  /\ (signed.read /\ signed.dest # page.dest) => pageSince > began - CatalogLife
            /\ signed.deadline # NoDeadline => began < signed.deadline

PageHeeded == [][\A s \in Sessions : HeedsPage(s)]_vars

(* The same of the deadline: nothing goes to Jupiter under a deadline the page
   has not stated since before the catalog could have been built.  README.md
   says that every listing rebuilds the instruction and that a change of the
   deadline halts signing. *)
DeadlineHeeded ==
    [][\A s \in Sessions : Submits(s) =>
         LET signed == tx[s].snapshot.event
         IN  (signed.read /\ signed.deadline # DateIn(page.terms))
                => pageSince > call[s].req.began - CatalogLife]_vars

(* Nothing is signed for unless the issuer's page was read.  README.md lists
   SOURCE_UNAVAILABLE and EVIDENCE_MISSING as halts. *)
SourceRequired ==
    [][\A s \in Sessions : Submits(s) => tx[s].snapshot.event.read]_vars

(* No transaction goes to Jupiter whose quote is older than allowed.  README.md
   says the age is enforced at execute and that stale quotes cannot sign. *)
QuoteFreshAtExecute ==
    [][\A s \in Sessions : Submits(s) => clock - tx[s].quotedAt <= QuoteLife]_vars

=============================================================================
