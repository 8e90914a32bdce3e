------------------------------- MODULE Keeper -------------------------------
(***************************************************************************)
(* The keeper (apps/keeper/src): processes that run a tick every few       *)
(* seconds.  A tick reads the issuer's controls, the feed and the open     *)
(* orders, plans a fill of each, takes a lease on the order in Postgres,   *)
(* simulates, sends and confirms the transaction, stores a receipt and     *)
(* gives the lease back.  setInterval starts the next tick whether or not  *)
(* the last one ended, so a process has several at once; every await is a  *)
(* point where the other ticks, the chain and the issuer move on.          *)
(*                                                                         *)
(* The chain is Escrow: a transaction that lands is its Fill.  A lease and *)
(* the newest feed row grow old by actions of their own, since 60 s and    *)
(* FEED_STALE_MS pass at any pace relative to the chain's clock.  Nothing  *)
(* ties a host's own clock to the chain's either: Date.now() may read      *)
(* ahead of it or behind, while the program goes by Clock::unix_timestamp, *)
(* which is now.  Sending is enabled, all orders are of the configured     *)
(* pair, and keeper_health and the log, which nothing reads back, are left *)
(* out.                                                                    *)
(***************************************************************************)
EXTENDS Escrow, Sequences, Functions

CONSTANTS
    KeeperWallet,  \* the wallet that pays for fills
    Processes,     \* running copies of the keeper
    Ticks,         \* ticks that may be under way
    ProcessOf,     \* ProcessOf[t]: the process of tick t
    WorkerOf,      \* WorkerOf[p]: KEEPER_WORKER_ID of process p
    SpendCap,      \* KEEPER_SPEND_CAP_RAW
    Unquoted,      \* KEEPER_INVENTORY_WITHOUT_QUOTE
    SwapOuts,      \* amounts Jupiter may quote or deliver; 0: it fails
    HostTimes,     \* what Date.now() may read on a keeper's host
    NoFee,         \* state.lastFeeBps = null
    NoTx           \* no transaction

ASSUME KeeperAssumption ==
    /\ KeeperWallet \in Users
    /\ \A s \in Slots : OwnerOf[s] # KeeperWallet
    /\ ProcessOf \in [Ticks -> Processes]
    /\ DOMAIN WorkerOf = Processes
    /\ SpendCap \in Nat
    /\ Unquoted \in BOOLEAN
    /\ SwapOuts \subseteq Nat
    /\ HostTimes \subseteq Nat
    /\ NoFee \notin FeeRates

VARIABLES
    tick,      \* tick[t]: where tick t is and what it knows
    baseline,  \* baseline[p]: state.lastFeeBps of process p
    leases,    \* keeper_leases: the row of each order that has one
    feed,      \* newest row of feed_snapshots: "fresh", or "stale" if old or none
    loose,     \* loose[t]: a transaction t sent and no longer waits for
    receipts,  \* rows of receipts
    landed,    \* history: the keeper's fills the chain executed, in order
    trusted    \* history: the fee process p saw first since it started

keeperVars == <<tick, baseline, leases, feed, loose, receipts, landed, trusted>>
allVars == <<vars, keeperVars>>

Idle == [at |-> "idle"]

Me(t) == WorkerOf[ProcessOf[t]]

KeeperInit ==
    /\ Init
    /\ tick = [t \in Ticks |-> Idle]
    /\ baseline = [p \in Processes |-> NoFee]
    /\ leases = <<>>
    /\ feed = "stale"
    /\ loose = [t \in Ticks |-> NoTx]
    /\ receipts = {}
    /\ landed = <<>>
    /\ trusted = [p \in Processes |-> NoFee]

Goto(t, state) == tick' = [tick EXCEPT ![t] = state]

-----------------------------------------------------------------------------
(* The head of a tick: the issuer, the feed, the orders. *)

(* haltFromIssuer.  state.lastFeeBps follows the fee it reads unless the
   halt is for the fee. *)
HaltFromIssuer(seen, previous) ==
    IF seen.paused THEN "issuer_paused"
    ELSE IF seen.hooked THEN "transfer_hook_attached"
    ELSE IF previous # NoFee /\ seen.srcRate # previous THEN "issuer_fee_changed"
    ELSE "none"

(* readIssuer returns; what the tick does with it comes later. *)
ReadIssuer(t) ==
    /\ tick[t].at = "idle"
    /\ Goto(t, [at |-> "judge", seen |-> mint])
    /\ UNCHANGED <<vars, baseline, leases, feed, loose, receipts, landed, trusted>>

JudgeIssuer(t) ==
    LET p    == ProcessOf[t]
        rate == tick[t].seen.srcRate
        halt == HaltFromIssuer(tick[t].seen, baseline[p])
    IN  /\ tick[t].at = "judge"
        /\ baseline' = [baseline EXCEPT ![p] =
                           IF halt = "issuer_fee_changed" THEN @ ELSE rate]
        /\ trusted' = [trusted EXCEPT ![p] = IF @ = NoFee THEN rate ELSE @]
        /\ Goto(t, [at |-> "feed", halt |-> halt # "none"])
        /\ UNCHANGED <<vars, leases, feed, loose, receipts, landed>>

(* latestFeed, then both halts: a halted tick is over. *)
CheckFeed(t) ==
    /\ tick[t].at = "feed"
    /\ \/ feed = "fresh" /\ ~tick[t].halt /\ Goto(t, [at |-> "load"])
       \/ (feed # "fresh" \/ tick[t].halt) /\ Goto(t, Idle)
    /\ UNCHANGED <<vars, baseline, leases, feed, loose, receipts, landed, trusted>>

(* loadOpenOrders, and the one reading of the host's clock the tick plans by. *)
LoadOrdersAt(t, time) ==
    /\ tick[t].at = "load"
    /\ Goto(t, [at    |-> "orders",
                now   |-> time,
                items |-> [s \in {r \in Slots : IsOpen(r)} |-> order[s]]])
    /\ UNCHANGED <<vars, baseline, leases, feed, loose, receipts, landed, trusted>>

LoadOrders(t) == \E time \in HostTimes : LoadOrdersAt(t, time)

-----------------------------------------------------------------------------
(* One order of the tick. *)

NextOrder(t, s) ==
    [at |-> "orders", now |-> tick[t].now,
     items |-> Restrict(tick[t].items, DOMAIN tick[t].items \ {s})]

At(t, place) == [tick[t] EXCEPT !.at = place]

QuoteFor(size, out) == IF out = 0 THEN NoQuote ELSE [in |-> size, out |-> out]

(* The plan for o as the tick read it: with the tick's clock, the wallet's
   balance and Jupiter's answer of this moment. *)
PlanFor(o, time, out) ==
    LET remaining == o.escrowed - o.filled
        size      == FillSize(remaining, SpendCap, o.terms.minFill)
    IN  IF remaining <= 0 \/ time >= o.terms.hardExpiry THEN Skip
        ELSE ChooseFillPlan(remaining, SpendCap, o.terms.minFill,
                            ActiveFloor(time, o.terms), dst[KeeperWallet],
                            QuoteFor(size, out), Unquoted)

PlanOrder(t, s, out) ==
    /\ tick[t].at = "orders"
    /\ s \in DOMAIN tick[t].items
    /\ LET plan == PlanFor(tick[t].items[s], tick[t].now, out)
       IN  \/ plan = Skip /\ Goto(t, NextOrder(t, s))
           \/ /\ plan # Skip
              /\ Goto(t, [at |-> "lease", now |-> tick[t].now,
                          items |-> tick[t].items, slot |-> s, plan |-> plan,
                          outcome |-> "unsent", sig |-> 0, failed |-> FALSE,
                          late |-> FALSE])
    /\ UNCHANGED <<vars, baseline, leases, feed, loose, receipts, landed, trusted>>

(* attemptFill runs for s, under a lease it took. *)
Attempts(t, s) ==
    /\ tick[t].at \in {"attempt", "confirm", "receipt"}
    /\ tick[t].slot = s

(* tryLease: the upsert of one row.  A row that is there stays unless it has
   run out or is its own worker's for the same filled_raw. *)
HeldForSameFill(s, worker, filled) ==  \* mutant: a row for another filled_raw gives way
    /\ s \in DOMAIN leases
    /\ ~leases[s].expired
    /\ leases[s].worker # worker /\ leases[s].filled = filled

HeldUntilReleased(s, worker, filled) ==  \* mutant: leased_until not looked at
    /\ s \in DOMAIN leases
    /\ leases[s].worker # worker \/ leases[s].filled # filled

LeaseHeld(s, worker, filled) ==
    /\ s \in DOMAIN leases
    /\ ~leases[s].expired
    /\ leases[s].worker # worker \/ leases[s].filled # filled

Upsert(s, row) ==
    [r \in DOMAIN leases \cup {s} |-> IF r = s THEN row ELSE leases[r]]

TakeLease(t) ==
    LET s      == tick[t].slot
        filled == tick[t].items[s].filled
    IN  /\ tick[t].at = "lease"
        /\ \/ /\ ~LeaseHeld(s, Me(t), filled)
              /\ leases' = Upsert(s, [worker |-> Me(t), filled |-> filled,
                                       expired |-> FALSE])
              /\ Goto(t, At(t, "attempt"))
           \/ /\ LeaseHeld(s, Me(t), filled)
              /\ Goto(t, NextOrder(t, s))
              /\ UNCHANGED leases
        /\ UNCHANGED <<vars, baseline, feed, loose, receipts, landed, trusted>>

(* The transaction of a plan: the fill alone, or a swap of the keeper's own
   source tokens and then the fill. *)
TxOf(t) ==
    [slot |-> tick[t].slot, size |-> tick[t].plan.fillSrc, pay |-> tick[t].plan.dstRaw,
     swap |-> tick[t].plan.action = "atomic_swap"]

(* What the chain says to tx in this state, the swap delivering out. *)
Executable(tx, out) ==
    \/ /\ ~tx.swap
       /\ FillAccepted(tx.slot, KeeperWallet, tx.size, tx.pay, dst[KeeperWallet])
    \/ /\ tx.swap
       /\ out > 0
       /\ src[KeeperWallet] >= tx.size
       /\ FillAccepted(tx.slot, KeeperWallet, tx.size, tx.pay, dst[KeeperWallet] + out)

Execute(tx, out) ==
    \/ /\ ~tx.swap
       /\ Fill(tx.slot, KeeperWallet, tx.size, tx.pay)
    \/ /\ tx.swap
       /\ out > 0
       /\ src[KeeperWallet] >= tx.size
       /\ FillFrom(tx.slot, KeeperWallet, tx.size, tx.pay,
                   [src EXCEPT ![KeeperWallet] = @ - tx.size],
                   [dst EXCEPT ![KeeperWallet] = @ + out])

(* attemptFill up to sendTransaction: the floor by another reading of the
   host's clock, the balance, the simulation; any of them refusing gives the
   lease back. *)
SendFillAt(t, out, time) ==
    LET tx     == TxOf(t)
        o      == tick[t].items[tx.slot]
        minDst == CeilRatio(tx.size, ActiveFloor(time, o.terms))
        goes   == tx.pay >= minDst /\ Executable(tx, out)
    IN  /\ tick[t].at = "attempt"
        /\ \/ goes /\ Goto(t, [At(t, "confirm") EXCEPT !.outcome = "sent"])
           \/ ~goes /\ Goto(t, At(t, "release"))
        /\ UNCHANGED <<vars, baseline, leases, feed, loose, receipts, landed, trusted>>

SendFill(t, out) == \E time \in HostTimes : SendFillAt(t, out, time)

(* confirmTransaction returns.  conf.value.err ends the attempt. *)
ConfirmedAny(outcome) == outcome \in {"landed", "failed"}  \* mutant: err not looked at

Confirmed(outcome) == outcome = "landed"

Confirm(t) ==
    LET outcome == tick[t].outcome
    IN  /\ tick[t].at = "confirm"
        /\ outcome # "sent"
        /\ \/ /\ Confirmed(outcome)
              /\ Goto(t, At(t, "receipt"))
           \/ /\ ~Confirmed(outcome)
              /\ Goto(t, [At(t, "release") EXCEPT !.failed = outcome = "dropped"])
        /\ UNCHANGED <<vars, baseline, leases, feed, loose, receipts, landed, trusted>>

(* persistReceipt: an insert that does nothing if the signature is there. *)
InsertByOrder(r) ==  \* mutant: on conflict (order_pda) do nothing
    IF \E q \in receipts : q.slot = r.slot THEN receipts ELSE receipts \cup {r}

Insert(r) ==
    IF \E q \in receipts : q.sig = r.sig THEN receipts ELSE receipts \cup {r}

PersistReceipt(t) ==
    /\ tick[t].at = "receipt"
    /\ receipts' = Insert([sig |-> tick[t].sig, slot |-> tick[t].slot,
                           size |-> tick[t].plan.fillSrc, pay |-> tick[t].plan.dstRaw])
    /\ Goto(t, At(t, "release"))
    /\ UNCHANGED <<vars, baseline, leases, feed, loose, landed, trusted>>

(* releaseLease: the row of the order if it is this worker's, then the next
   order, or the end of the tick after an error. *)
Release(t) ==
    LET s == tick[t].slot
    IN  /\ tick[t].at = "release"
        /\ leases' = Restrict(leases, {r \in DOMAIN leases :
                                         r # s \/ leases[r].worker # Me(t)})
        /\ Goto(t, IF tick[t].failed THEN Idle ELSE NextOrder(t, s))
        /\ UNCHANGED <<vars, baseline, feed, loose, receipts, landed, trusted>>

Finish(t) ==
    /\ tick[t].at = "orders"
    /\ DOMAIN tick[t].items = {}
    /\ Goto(t, Idle)
    /\ UNCHANGED <<vars, baseline, leases, feed, loose, receipts, landed, trusted>>

-----------------------------------------------------------------------------
(* What happens to transactions.  A node includes one while its blockhash
   is valid, whether or not the tick still waits. *)

Record(tx) == [slot |-> tx.slot, size |-> tx.size, pay |-> tx.pay]

Sent(t) == tick[t].at = "confirm" /\ tick[t].outcome = "sent"

Land(t, out) ==
    /\ Sent(t)
    /\ Execute(TxOf(t), out)
    /\ landed' = Append(landed, Record(TxOf(t)))
    /\ Goto(t, [tick[t] EXCEPT !.outcome = "landed", !.sig = Len(landed) + 1])
    /\ UNCHANGED <<baseline, leases, feed, loose, receipts, trusted>>

(* Included, but refused by the program or by the swap. *)
Revert(t, out) ==
    /\ Sent(t)
    /\ ~Executable(TxOf(t), out)
    /\ Goto(t, [tick[t] EXCEPT !.outcome = "failed"])
    /\ UNCHANGED <<vars, baseline, leases, feed, loose, receipts, landed, trusted>>

(* Never included: the wait ends with an exception. *)
Drop(t) ==
    /\ Sent(t)
    /\ Goto(t, [tick[t] EXCEPT !.outcome = "dropped"])
    /\ UNCHANGED <<vars, baseline, leases, feed, loose, receipts, landed, trusted>>

LandLoose(t, out) ==
    /\ loose[t] # NoTx
    /\ Execute(loose[t], out)
    /\ landed' = Append(landed, Record(loose[t]))
    /\ loose' = [loose EXCEPT ![t] = NoTx]
    /\ UNCHANGED <<tick, baseline, leases, feed, receipts, trusted>>

DropLoose(t) ==
    /\ loose[t] # NoTx
    /\ loose' = [loose EXCEPT ![t] = NoTx]
    /\ UNCHANGED <<vars, tick, baseline, leases, feed, receipts, landed, trusted>>

-----------------------------------------------------------------------------
(* Failures and timers. *)

(* What t has in flight is in flight without it.  At most one transaction
   per tick is followed after its tick gave it up: a bound. *)
LetGo(t) ==
    IF Sent(t) THEN TxOf(t) ELSE loose[t]

CanLetGo(t) == Sent(t) => loose[t] = NoTx

(* An RPC, Jupiter or Postgres call throws.  Between lease and release the
   finally gives the lease back first; a throw in the finally leaves it. *)
Throw(t) ==
    /\ tick[t].at \in {"judge", "feed", "load", "lease", "attempt", "confirm",
                       "receipt", "release"}
    /\ CanLetGo(t)
    /\ loose' = [loose EXCEPT ![t] = LetGo(t)]
    /\ IF tick[t].at \in {"attempt", "confirm", "receipt"}
       THEN Goto(t, [At(t, "release") EXCEPT !.failed = TRUE])
       ELSE Goto(t, Idle)
    /\ UNCHANGED <<vars, baseline, leases, feed, receipts, landed, trusted>>

(* The process dies and is started again. *)
Crash(p) ==
    LET lost == {t \in Ticks : ProcessOf[t] = p}
    IN  /\ \E t \in lost : tick[t] # Idle
        /\ \A t \in lost : CanLetGo(t)
        /\ tick' = [t \in Ticks |-> IF t \in lost THEN Idle ELSE tick[t]]
        /\ loose' = [t \in Ticks |-> IF t \in lost THEN LetGo(t) ELSE loose[t]]
        /\ baseline' = [baseline EXCEPT ![p] = NoFee]
        /\ trusted' = [trusted EXCEPT ![p] = NoFee]
        /\ UNCHANGED <<vars, leases, feed, receipts, landed>>

(* leased_until passes; late marks, for the properties, the attempts that
   outlive their lease. *)
LeaseRunsOut(s) ==
    /\ s \in DOMAIN leases
    /\ ~leases[s].expired
    /\ leases' = [leases EXCEPT ![s].expired = TRUE]
    /\ tick' = [t \in Ticks |->
                   IF Attempts(t, s) /\ Me(t) = leases[s].worker
                   THEN [tick[t] EXCEPT !.late = TRUE] ELSE tick[t]]
    /\ UNCHANGED <<vars, baseline, feed, loose, receipts, landed, trusted>>

(* refreshFeed of the API stores a row; FEED_STALE_MS pass without one. *)
RefreshFeed ==
    /\ feed # "fresh"
    /\ feed' = "fresh"
    /\ UNCHANGED <<vars, tick, baseline, leases, loose, receipts, landed, trusted>>

FeedAges ==
    /\ feed = "fresh"
    /\ feed' = "stale"
    /\ UNCHANGED <<vars, tick, baseline, leases, loose, receipts, landed, trusted>>

(* The rest of the chain: owners, other fillers, the issuer and time. *)
World ==
    /\ \/ \E s \in Slots :
            \/ \E amount \in U64, t \in Terms : Place(s, amount, t)
            \/ \E filler \in Users \ {KeeperWallet}, size, pay \in U64 :
                  Fill(s, filler, size, pay)
            \/ Cancel(s)
            \/ Expire(s)
            \/ \E user \in Users \ {KeeperWallet}, amount \in 1..MaxStray :
                  StrayDeposit(s, user, amount)
       \/ IssuerSets
       \/ Tick
    /\ UNCHANGED keeperVars

(* The steps the tick takes by itself. *)
Runs(t) ==
    \/ ReadIssuer(t)
    \/ JudgeIssuer(t)
    \/ CheckFeed(t)
    \/ LoadOrders(t)
    \/ \E s \in Slots, out \in SwapOuts : PlanOrder(t, s, out)
    \/ TakeLease(t)
    \/ \E out \in SwapOuts : SendFill(t, out)
    \/ Confirm(t)
    \/ PersistReceipt(t)
    \/ Release(t)
    \/ Finish(t)

(* The chain answers a transaction the tick waits for. *)
Answered(t) == \E out \in SwapOuts : Land(t, out) \/ Revert(t, out)

Fails ==
    \/ \E t \in Ticks : Throw(t) \/ Drop(t)
    \/ \E p \in Processes : Crash(p)

(* The steps that are nobody's failure. *)
SmoothNext ==
    \/ \E t \in Ticks :
        \/ Runs(t)
        \/ Answered(t)
        \/ \E out \in SwapOuts : LandLoose(t, out)
        \/ DropLoose(t)
    \/ \E s \in Slots : LeaseRunsOut(s)
    \/ RefreshFeed
    \/ FeedAges
    \/ World

KeeperNext == SmoothNext \/ Fails

KeeperSpec == KeeperInit /\ [][KeeperNext]_allVars

(* A process starts ticks for ever, the event loop carries each of them on,
   the chain answers what it was sent, and leases run out.  Nothing is
   assumed of failures, of the feed, of the issuer or of the owners. *)
KeeperFairness ==
    /\ \A t \in Ticks : WF_allVars(Runs(t)) /\ WF_allVars(Answered(t))
    /\ \A s \in Slots : WF_allVars(LeaseRunsOut(s))

FairKeeperSpec == KeeperSpec /\ KeeperFairness

SmoothSpec == KeeperInit /\ [][SmoothNext]_allVars /\ KeeperFairness

-----------------------------------------------------------------------------
(* Properties. *)

ItemsOf(slots) == [slots -> Orders]

Stations ==
    [at : {"idle", "load"}]
    \cup [at : {"judge"}, seen : Mints]
    \cup [at : {"feed"}, halt : BOOLEAN]
    \cup [at : {"orders"}, now : Nat, items : UNION {ItemsOf(S) : S \in SUBSET Slots}]
    \cup [at : {"lease", "attempt", "confirm", "receipt", "release"}, now : Nat,
          items : UNION {ItemsOf(S) : S \in SUBSET Slots}, slot : Slots,
          plan : [action : {"inventory", "atomic_swap"}, fillSrc : Nat \ {0}, dstRaw : Nat],
          outcome : {"unsent", "sent", "landed", "failed", "dropped"},
          sig : 0..Len(landed), failed : BOOLEAN, late : BOOLEAN]

(* Every variable of the keeper is of its type; a receipt has a signature. *)
KeeperTypeOK ==
    /\ tick \in [Ticks -> Stations]
    /\ baseline \in [Processes -> FeeRates \cup {NoFee}]
    /\ DOMAIN leases \subseteq Slots
    /\ Range(leases) \subseteq [worker : Range(WorkerOf), filled : U64, expired : BOOLEAN]
    /\ feed \in {"fresh", "stale"}
    /\ \A r \in receipts : r.sig \in 1..Len(landed)

(* README.md:662, "Receipts are written only after Solana confirmation": a
   row of receipts is of a fill the chain executed, with its order, size and
   payment, and no fill has two. *)
ReceiptsAreReal ==
    /\ \A r \in receipts : r.sig \in DOMAIN landed /\ landed[r.sig] = Record(r)
    /\ \A q, r \in receipts : q.sig = r.sig => q = r

(* Policy and program agree: if the order is still as the tick read it by the
   time it attempts the fill, the program accepts what it planned, although
   the clock has moved on and the failsafe may have set in.  Without it a
   keeper would try, and fail, for ever.  A host ahead of the chain may take
   the failsafe to have set in before it has (loop.ts:115 against lib.rs:115);
   what it plans is refused until the chain's clock gets there.  The program
   goes by the escrow balance and by what the owner receives, the keeper by
   the counters of the order and by what it sends, so stray deposits and a
   fee on the destination mint are excluded too. *)
FailsafeAgreed(t, terms) == tick[t].now >= terms.failsafeTs => now >= terms.failsafeTs

StillAsRead(t) ==
    LET s     == tick[t].slot
        terms == order[s].terms
    IN  /\ order[s] = tick[t].items[s]
        /\ FailsafeAgreed(t, terms)
        /\ now < terms.hardExpiry
        /\ MintAllowed
        /\ mint.dstRate = 0
        /\ stray[s] = 0
        /\ IF TxOf(t).swap THEN src[KeeperWallet] >= TxOf(t).size
           ELSE dst[KeeperWallet] >= TxOf(t).pay

PlansAreAccepted ==
    \A t \in Ticks :
        (tick[t].at = "attempt" /\ StillAsRead(t)) => Executable(TxOf(t), TxOf(t).pay)

(* lease.test.ts:11, "concurrent lease: only one worker wins": two ticks
   attempt one order at a time only if one of them has outlived its lease. *)
OneAttempt ==
    \A s \in Slots : \A t, u \in Ticks :
        (t # u /\ Attempts(t, s) /\ Attempts(u, s)) => tick[t].late \/ tick[u].late

(* policy.test.ts:29, "halts when transfer fee bps changes after a baseline":
   a tick that is not halted by the issuer read the fee its process saw
   first. *)
FeeChangeHalts ==
    [][\A t \in Ticks :
          (tick[t].at = "judge" /\ tick'[t].at = "feed" /\ ~tick'[t].halt)
              => tick[t].seen.srcRate = trusted'[ProcessOf[t]]]_allVars

(* A tick plans by a clock that is not ahead of the chain's, and the clock is
   not set back before it sends. *)
ClocksSteady ==
    \A t \in Ticks :
        /\ LoadOrders(t) => \E time \in HostTimes : time <= now /\ LoadOrdersAt(t, time)
        /\ (\E out \in SwapOuts : SendFill(t, out)) =>
               \E out \in SwapOuts, time \in HostTimes :
                   time >= tick[t].now /\ SendFillAt(t, out, time)

(* From some point on nothing throws, dies or gets lost, the hosts' clocks
   are steady, the feed is fresh and the issuer leaves the mint alone. *)
Calm ==
    /\ <>[][SmoothNext /\ ClocksSteady]_allVars
    /\ <>[](feed = "fresh" /\ MintAllowed)

(* The keeper serves: in calm, with the inventory and the quotes of the
   instance, every open order comes to its end, whatever was lost, left
   leased or left in flight before. *)
Served == Calm => \A s \in Slots : IsOpen(s) ~> ~IsOpen(s)

(* A fill the keeper landed has its row in receipts, or a tick that knows its
   signature and is on the way to store it. *)
Owes(t, n) ==
    /\ tick[t].at = "receipt" \/ (tick[t].at = "confirm" /\ tick[t].outcome = "landed")
    /\ tick[t].sig = n

ReceiptedOrOwed(n) ==
    (\E r \in receipts : r.sig = n) \/ (\E t \in Ticks : Owes(t, n))

(* Where nothing fails (SmoothSpec), no fill the keeper landed is forgotten,
   whatever the overlapping ticks do to one order... *)
NoFillForgotten == \A n \in 1..Len(landed) : ReceiptedOrOwed(n)

(* ... and every one gets a receipt of its own in the end.  What there is to
   sell comes to an end, and with it the fills. *)
Receipted == <>[](\A n \in 1..Len(landed) : \E r \in receipts : r.sig = n)

=============================================================================
