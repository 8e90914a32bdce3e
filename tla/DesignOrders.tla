---------------------------- MODULE DesignOrders ----------------------------
(***************************************************************************)
(* The orders of the design source (localDesignSource.ts), which stands in *)
(* for the API in demonstrations: a simulated market and a tick every half *)
(* second that walks each order through its states by timers.              *)
(*                                                                         *)
(* A timer holds the ticks left until it is due.  The browser may deliver  *)
(* a tick late, several periods at once, and there are none while the      *)
(* source is stopped.  Orders meet in nothing but the market, so a tick is *)
(* a function of one order.  Amounts, the simulated wallet and notices,    *)
(* which no order depends on, are left out.                                *)
(***************************************************************************)
EXTENDS Integers, Sequences

CONSTANTS
    Ids,            \* addresses of orders
    First,          \* TM-2481, which is watching when the page loads
    FirstTarget,    \* its target
    FirstWait,      \* and the ticks to its failsafe
    Ratios,         \* values of the executable ratio
    Opening,        \* INITIAL_EXEC_RATIO
    MarketEvery,    \* MARKET_EVERY_TICKS
    Waits,          \* ticks until a failsafe, for the orders placed
    ArmAfter,       \* + 1.6 s
    WatchAfter,     \* + 3.4 s
    ExecuteAfter,   \* + 1.4 s, once the target is reached
    SettleAfter,    \* + 3.8 s, once the target is reached
    FailsafeAfter,  \* + 2.4 s, once the failsafe has come
    Periods,        \* periods a tick may come after the last: 1 unless late
    None            \* no order, no timer

ASSUME DesignAssumption ==
    /\ First \in Ids /\ FirstTarget \in Ratios /\ FirstWait \in Nat
    /\ Ratios \subseteq Int
    /\ Opening \in Ratios
    /\ MarketEvery \in Nat \ {0, 1}
    /\ Waits \subseteq Nat
    /\ ArmAfter \in Nat /\ WatchAfter \in Nat /\ ArmAfter < WatchAfter
    /\ ExecuteAfter \in Nat /\ SettleAfter \in Nat /\ ExecuteAfter < SettleAfter
    /\ FailsafeAfter \in Nat \ {0}
    /\ Periods \subseteq Nat \ {0}
    /\ None \notin [path : {"TARGET", "FAILSAFE"}, ticks : Nat]

VARIABLES
    orders,   \* orders[i]: an order with the timers it is due for, or None
    ratio,    \* the executable ratio
    beat,     \* ticks since the market's last step
    ticking   \* timer # null

designVars == <<orders, ratio, beat, ticking>>

Open == {"PLACED", "ARMED", "WATCHING"}  \* OPEN_STATUSES and CANCELLABLE
Terminal == {"SETTLED", "CANCELLED"}

Timer(to, ticks) == [to |-> to, ticks |-> ticks]
Settlement(path, ticks) == [path |-> path, ticks |-> ticks]

\* An order with its target, the ticks to its failsafe and what it has seen.
Order(target, wait, events, pending) ==
    [status |-> events[Len(events)], target |-> target, wait |-> wait, events |-> events,
     pending |-> pending, settling |-> None, receipts |-> <<>>]

DesignInit ==
    /\ orders = [i \in Ids |->
                    IF i = First
                    THEN Order(FirstTarget, FirstWait, <<"PLACED", "ARMED", "WATCHING">>, <<>>)
                    ELSE None]
    /\ ratio = Opening
    /\ beat = 0
    /\ ticking = FALSE

CreateOrder(i, target, wait) ==
    /\ orders[i] = None
    /\ orders' = [orders EXCEPT ![i] =
                    Order(target, wait, <<"PLACED">>,
                          <<Timer("ARMED", ArmAfter), Timer("WATCHING", WatchAfter)>>)]
    /\ UNCHANGED <<ratio, beat, ticking>>

WithStatus(o, status) ==
    [o EXCEPT !.status = status, !.events = Append(@, status)]

CancelledOnly(o) == WithStatus(o, "CANCELLED")  \* mutant: the timers stay

Cancelled(o) == [WithStatus(o, "CANCELLED") EXCEPT !.pending = <<>>, !.settling = None]

CancelOrder(i) ==
    /\ orders[i] # None
    /\ orders[i].status \in Open
    /\ orders' = [orders EXCEPT ![i] = Cancelled(@)]
    /\ UNCHANGED <<ratio, beat, ticking>>

-----------------------------------------------------------------------------

Less(n, d) == IF n > d THEN n - d ELSE 0

IsDue(timer) == timer.ticks = 0

Nearer(timer, d) == [timer EXCEPT !.ticks = Less(@, d)]

\* d periods have passed.
Aged(o, d) ==
    [o EXCEPT !.wait = Less(@, d),
              !.pending = [k \in DOMAIN @ |-> Nearer(@[k], d)],
              !.settling = IF @ = None THEN None ELSE Nearer(@, d)]

\* applyTransition: an order that has ended keeps its status.
ApplyTransition(o, timer) ==
    IF o.status \in Terminal THEN o ELSE WithStatus(o, timer.to)

NextTransition(o) ==
    IF o.pending = <<>> \/ ~IsDue(Head(o.pending)) THEN o
    ELSE [ApplyTransition(o, Head(o.pending)) EXCEPT !.pending = Tail(@)]

\* An order has at most two transitions ahead, entered in order of time.
Transitioned(o) == NextTransition(NextTransition(o))

\* settle: a receipt and the last status.
Settle(o) ==
    IF o.status \in Terminal THEN o
    ELSE [WithStatus(o, "SETTLED") EXCEPT !.receipts = Append(@, o.settling.path)]

Settled(o) ==
    IF o.settling # None /\ IsDue(o.settling)
    THEN [Settle(o) EXCEPT !.settling = None]
    ELSE o

SettledFirst(o) == Transitioned(Settled(o))  \* mutant: swapped order

ProcessPending(o) == Settled(Transitioned(o))

(* stepOrders: a watching order whose target is met, or else whose failsafe
   has come, is entered for what follows. *)
StepOrderAtFloor(o, now) ==  \* mutant: a failsafe below the target never fires
    IF o.status = "WATCHING" /\ o.pending = <<>> /\ now >= o.target
    THEN [o EXCEPT !.pending = <<Timer("TARGET_REACHED", 0), Timer("EXECUTING", ExecuteAfter)>>,
                   !.settling = Settlement("TARGET", SettleAfter)]
    ELSE o

StepOrder(o, now) ==
    IF o.status # "WATCHING" \/ o.pending # <<>> THEN o
    ELSE IF now >= o.target
    THEN [o EXCEPT !.pending = <<Timer("TARGET_REACHED", 0), Timer("EXECUTING", ExecuteAfter)>>,
                   !.settling = Settlement("TARGET", SettleAfter)]
    ELSE IF o.wait = 0
    THEN [o EXCEPT !.pending = <<Timer("EXECUTING", 0)>>,
                   !.settling = Settlement("FAILSAFE", FailsafeAfter)]
    ELSE o

Stepped(o, d, now) == StepOrder(ProcessPending(Aged(o, d)), now)

\* tick: the timers, the market and the orders, in that order.
Tick(d, now) ==
    /\ ticking
    /\ beat' = (beat + 1) % MarketEvery
    /\ beat' # 0 => now = ratio
    /\ ratio' = now
    /\ orders' = [i \in Ids |-> IF orders[i] = None THEN None ELSE Stepped(orders[i], d, now)]
    /\ UNCHANGED ticking

\* start and stop.
SwitchTicking ==
    /\ ticking' = ~ticking
    /\ UNCHANGED <<orders, ratio, beat>>

AnyTick == \E d \in Periods, now \in Ratios : Tick(d, now)

DesignNext ==
    \/ \E i \in Ids, target \in Ratios, wait \in Waits : CreateOrder(i, target, wait)
    \/ \E i \in Ids : CancelOrder(i)
    \/ AnyTick
    \/ SwitchTicking

DesignSpec == DesignInit /\ [][DesignNext]_designVars

\* The interval keeps firing while the source is started.
DesignFairness == WF_designVars(AnyTick)

-----------------------------------------------------------------------------

Follows == [PLACED |-> {"ARMED", "CANCELLED"},
            ARMED |-> {"WATCHING", "CANCELLED"},
            WATCHING |-> {"TARGET_REACHED", "EXECUTING", "CANCELLED"},
            TARGET_REACHED |-> {"EXECUTING"},
            EXECUTING |-> {"SETTLED"},
            SETTLED |-> {},
            CANCELLED |-> {}]

(* The history of an order walks the state machine the header of the source
   draws, without a leap or a step back, even when a late tick makes several
   transitions and the settlement due at once; but for the header's FAILSAFE, a
   status the code never gives an order: the failsafe leads from WATCHING to
   EXECUTING. *)
EventsInOrder ==
    \A i \in Ids : orders[i] # None =>
        LET events == orders[i].events
        IN  /\ events[1] = "PLACED"
            /\ orders[i].status = events[Len(events)]
            /\ \A k \in 1..Len(events) - 1 : events[k + 1] \in Follows[events[k]]

(* A settled order has one receipt, for the way it went; a cancelled one has
   none, and nothing is left that could still give it one. *)
OneReceipt ==
    \A i \in Ids : orders[i] # None =>
        LET o == orders[i]
            reached == \E k \in DOMAIN o.events : o.events[k] = "TARGET_REACHED"
        IN  /\ o.receipts = IF o.status # "SETTLED" THEN <<>>
                            ELSE IF reached THEN <<"TARGET">> ELSE <<"FAILSAFE">>
            /\ o.status \in Terminal => o.pending = <<>> /\ o.settling = None

(* While the source ticks, every order comes to an end: its failsafe comes,
   if neither its target nor its owner does. *)
DesignEnds ==
    <>[]ticking =>
        \A i \in Ids : orders[i] # None ~> orders[i] # None /\ orders[i].status \in Terminal

=============================================================================
