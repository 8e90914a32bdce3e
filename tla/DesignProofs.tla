---------------------------- MODULE DesignProofs ----------------------------
(***************************************************************************)
(* What TLAPS proves about DesignOrders, for any orders, delays and late   *)
(* ticks: histories walk the state machine, and a settled order has one    *)
(* receipt, for the way it went.                                           *)
(***************************************************************************)
EXTENDS DesignOrders, SequenceTheorems, TLAPS

-----------------------------------------------------------------------------
(* What an order is between two ticks. *)

Statuses == DOMAIN Follows

Timers == [to : Statuses, ticks : Nat]

Settlements == [path : {"TARGET", "FAILSAFE"}, ticks : Nat]

Orders ==
    [status : Statuses, target : Ratios, wait : Nat, events : Seq(Statuses),
     pending : Seq(Timers), settling : Settlements \cup {None}, receipts : Seq({"TARGET", "FAILSAFE"})]

Saw(o) == \E k \in DOMAIN o.events : o.events[k] = "TARGET_REACHED"

Walks(o) ==
    /\ Len(o.events) > 0
    /\ o.events[1] = "PLACED"
    /\ o.status = o.events[Len(o.events)]
    /\ \A k \in 1..Len(o.events) - 1 : o.events[k + 1] \in Follows[o.events[k]]

Ahead(o, pending, settling) == o.pending = pending /\ o.settling = settling

IsPlaced(o) ==
    /\ o.status = "PLACED" /\ ~Saw(o)
    /\ \E t, u \in Nat : Ahead(o, <<Timer("ARMED", t), Timer("WATCHING", u)>>, None)

IsArmed(o) ==
    /\ o.status = "ARMED" /\ ~Saw(o)
    /\ \E u \in Nat : Ahead(o, <<Timer("WATCHING", u)>>, None)

IsWatching(o) == o.status = "WATCHING" /\ ~Saw(o) /\ Ahead(o, <<>>, None)

(* The target is met, or the failsafe has come, and what follows is entered:
   nothing of it is later than the settlement. *)
Decision(pending, settling) ==
    \E t, u, v \in Nat :
        /\ t <= v /\ u <= v
        /\ \/ /\ pending = <<Timer("TARGET_REACHED", t), Timer("EXECUTING", u)>>
              /\ settling = Settlement("TARGET", v)
           \/ pending = <<Timer("EXECUTING", t)>> /\ settling = Settlement("FAILSAFE", v)

IsDecided(o) == o.status = "WATCHING" /\ ~Saw(o) /\ Decision(o.pending, o.settling)

IsReached(o) ==
    /\ o.status = "TARGET_REACHED" /\ Saw(o)
    /\ \E u, v \in Nat :
        u <= v /\ Ahead(o, <<Timer("EXECUTING", u)>>, Settlement("TARGET", v))

Path(o) == IF Saw(o) THEN "TARGET" ELSE "FAILSAFE"

IsExecuting(o) ==
    /\ o.status = "EXECUTING"
    /\ \E v \in Nat : Ahead(o, <<>>, Settlement(Path(o), v))

IsEnded(o) == o.status \in Terminal /\ Ahead(o, <<>>, None)

Phase(o) ==
    \/ IsPlaced(o) \/ IsArmed(o) \/ IsWatching(o) \/ IsDecided(o)
    \/ IsReached(o) \/ IsExecuting(o) \/ IsEnded(o)

Receipted(o) == o.receipts = IF o.status = "SETTLED" THEN <<Path(o)>> ELSE <<>>

Fine(o) == o \in Orders /\ Walks(o) /\ Phase(o) /\ Receipted(o)

-----------------------------------------------------------------------------
(* The steps of one order. *)

LEMMA StatusesAre ==
    Statuses = {"PLACED", "ARMED", "WATCHING", "TARGET_REACHED", "EXECUTING", "SETTLED", "CANCELLED"}
BY DEF Statuses, Follows

LEMMA NoneIsNone ==
    \A path \in {"TARGET", "FAILSAFE"}, v \in Nat :
        Settlement(path, v) \in Settlements /\ Settlement(path, v) # None
BY DesignAssumption DEF Settlement, Settlements

(* A status that may follow extends the history by itself. *)
LEMMA WithStatusWalks ==
    ASSUME NEW o \in Orders, Walks(o), NEW status \in Follows[o.status], status \in Statuses
    PROVE  LET n == WithStatus(o, status)
           IN  /\ n \in Orders /\ Walks(n)
               /\ n.status = status
               /\ Saw(n) <=> Saw(o) \/ status = "TARGET_REACHED"
               /\ n.pending = o.pending /\ n.settling = o.settling /\ n.receipts = o.receipts
<1> DEFINE n == WithStatus(o, status)
<1>1. o.events \in Seq(Statuses) /\ Append(o.events, status) \in Seq(Statuses)
  BY DEF Orders
<1>2. /\ Len(Append(o.events, status)) = Len(o.events) + 1
      /\ \A k \in 1..Len(o.events) : Append(o.events, status)[k] = o.events[k]
      /\ Append(o.events, status)[Len(o.events) + 1] = status
  BY <1>1
<1>3. /\ n \in Orders /\ n.status = status /\ n.events = Append(o.events, status)
      /\ n.pending = o.pending /\ n.settling = o.settling /\ n.receipts = o.receipts
  BY <1>1 DEF WithStatus, Orders
<1>4. Len(o.events) \in Nat /\ DOMAIN o.events = 1..Len(o.events)
  BY <1>1
<1>5. DOMAIN n.events = 1..Len(o.events) + 1
  BY <1>1, <1>2, <1>3
<1>6. Walks(n)
  <2>1. ASSUME NEW k \in 1..Len(o.events) PROVE n.events[k + 1] \in Follows[n.events[k]]
    <3>1. CASE k = Len(o.events)
      BY <1>2, <1>3, <1>4, <3>1 DEF Walks
    <3>2. CASE k # Len(o.events)
      <4>1. k \in 1..Len(o.events) - 1 /\ k + 1 \in 1..Len(o.events)
        BY <1>4, <3>2
      <4>2. QED
        BY <1>2, <1>3, <4>1 DEF Walks
    <3>3. QED
      BY <3>1, <3>2
  <2>2. n.events[1] = "PLACED"
    BY <1>2, <1>3, <1>4 DEF Walks
  <2>3. QED
    BY <1>2, <1>3, <1>4, <2>1, <2>2 DEF Walks
<1>7. Saw(n) <=> Saw(o) \/ status = "TARGET_REACHED"
  BY <1>2, <1>3, <1>4, <1>5 DEF Saw
<1>8. QED
  BY <1>3, <1>6, <1>7

LEMMA TimersAre ==
    /\ \A to, t : Timer(to, t).to = to /\ Timer(to, t).ticks = t
    /\ \A to \in Statuses, t \in Nat : Timer(to, t) \in Timers
BY DEF Timer, Timers

LEMMA LessNat == \A n, d \in Nat : Less(n, d) \in Nat /\ Less(n, d) <= n
BY DEF Less

LEMMA LessMonotone == \A n, m, d \in Nat : n <= m => Less(n, d) <= Less(m, d)
BY DEF Less

(* Timers and settlement get nearer together. *)
LEMMA AgedFine ==
    ASSUME NEW o, Fine(o), NEW d \in Nat
    PROVE  Fine(Aged(o, d))
<1> DEFINE a == Aged(o, d)
<1> o \in Orders
  BY DEF Fine
<1>1. /\ a \in [DOMAIN o -> {a[f] : f \in DOMAIN o}]
      /\ a.status = o.status /\ a.target = o.target /\ a.events = o.events
      /\ a.receipts = o.receipts /\ a.wait = Less(o.wait, d)
      /\ a.pending = [k \in DOMAIN o.pending |-> Nearer(o.pending[k], d)]
      /\ a.settling = IF o.settling = None THEN None ELSE Nearer(o.settling, d)
  BY DEF Aged, Orders
<1> HIDE DEF a
<1>2. \A to, t : Nearer(Timer(to, t), d) = Timer(to, Less(t, d))
  BY DEF Timer, Nearer
<1>3. \A path, v : Nearer(Settlement(path, v), d) = Settlement(path, Less(v, d))
  BY DEF Settlement, Nearer
<1>4. a.pending \in Seq(Timers)
  <2>1. \A timer \in Timers : Nearer(timer, d) \in Timers
    BY LessNat DEF Timers, Nearer
  <2>2. o.pending \in Seq(Timers)
    BY DEF Orders
  <2>3. QED
    BY <1>1, <2>1, <2>2
<1>5. a.settling \in Settlements \cup {None}
  <2>1. \A s \in Settlements : Nearer(s, d) \in Settlements
    BY LessNat DEF Settlements, Nearer
  <2>2. QED
    BY <1>1, <2>1 DEF Orders
<1>6. a \in Orders
  <2>1. a = [status |-> a.status, target |-> a.target, wait |-> a.wait, events |-> a.events,
             pending |-> a.pending, settling |-> a.settling, receipts |-> a.receipts]
    BY <1>1 DEF Orders
  <2>2. a.wait \in Nat
    BY <1>1, LessNat DEF Orders
  <2>3. a.status \in Statuses /\ a.target \in Ratios /\ a.events \in Seq(Statuses) /\ a.receipts \in Seq({"TARGET", "FAILSAFE"})
    BY <1>1 DEF Orders
  <2>4. QED
    BY <1>4, <1>5, <2>1, <2>2, <2>3 DEF Orders
<1>7. Walks(a) /\ Receipted(a) /\ (Saw(a) <=> Saw(o)) /\ Path(a) = Path(o)
  BY <1>1 DEF Fine, Walks, Receipted, Saw, Path
<1>8. \A x, y : o.pending = <<x, y>> => a.pending = <<Nearer(x, d), Nearer(y, d)>>
  BY <1>1
<1>9. \A x : o.pending = <<x>> => a.pending = <<Nearer(x, d)>>
  BY <1>1
<1>10. o.pending = <<>> => a.pending = <<>>
  BY <1>1
<1>11. \A v, path : o.settling = Settlement(path, v) /\ path \in {"TARGET", "FAILSAFE"} /\ v \in Nat
                        => a.settling = Settlement(path, Less(v, d))
  BY <1>1, <1>3, NoneIsNone
<1>12. o.settling = None => a.settling = None
  BY <1>1
<1>13. IsPlaced(o) => IsPlaced(a)
  <2> SUFFICES ASSUME NEW t \in Nat, NEW u \in Nat, o.status = "PLACED", ~Saw(o),
                      Ahead(o, <<Timer("ARMED", t), Timer("WATCHING", u)>>, None)
               PROVE  IsPlaced(a)
    BY DEF IsPlaced
  <2>1. Ahead(a, <<Timer("ARMED", Less(t, d)), Timer("WATCHING", Less(u, d))>>, None)
    BY <1>2, <1>8, <1>12 DEF Ahead
  <2>2. QED
    BY <1>1, <1>7, <2>1, LessNat DEF IsPlaced
<1>14. IsArmed(o) => IsArmed(a)
  BY <1>1, <1>2, <1>7, <1>9, <1>12, LessNat DEF IsArmed, Ahead
<1>15. IsWatching(o) => IsWatching(a)
  BY <1>1, <1>7, <1>10, <1>12 DEF IsWatching, Ahead
<1>16. IsDecided(o) => IsDecided(a)
  <2> SUFFICES ASSUME NEW t \in Nat, NEW u \in Nat, NEW v \in Nat, t <= v, u <= v,
                      o.status = "WATCHING", ~Saw(o),
                      \/ Ahead(o, <<Timer("TARGET_REACHED", t), Timer("EXECUTING", u)>>,
                               Settlement("TARGET", v))
                      \/ Ahead(o, <<Timer("EXECUTING", t)>>, Settlement("FAILSAFE", v))
               PROVE  IsDecided(a)
    BY DEF IsDecided, Decision, Ahead
  <2>1. \/ Ahead(a, <<Timer("TARGET_REACHED", Less(t, d)), Timer("EXECUTING", Less(u, d))>>,
                 Settlement("TARGET", Less(v, d)))
        \/ Ahead(a, <<Timer("EXECUTING", Less(t, d))>>, Settlement("FAILSAFE", Less(v, d)))
    BY <1>2, <1>8, <1>9, <1>11 DEF Ahead
  <2>2. Less(t, d) \in Nat /\ Less(u, d) \in Nat /\ Less(v, d) \in Nat
    BY LessNat
  <2>3. Less(t, d) <= Less(v, d) /\ Less(u, d) <= Less(v, d)
    BY LessMonotone
  <2>4. QED
    BY <1>1, <1>7, <2>1, <2>2, <2>3 DEF IsDecided, Decision, Ahead
<1>17. IsReached(o) => IsReached(a)
  <2> SUFFICES ASSUME NEW u \in Nat, NEW v \in Nat, u <= v, o.status = "TARGET_REACHED", Saw(o),
                      Ahead(o, <<Timer("EXECUTING", u)>>, Settlement("TARGET", v))
               PROVE  IsReached(a)
    BY DEF IsReached
  <2>1. Ahead(a, <<Timer("EXECUTING", Less(u, d))>>, Settlement("TARGET", Less(v, d)))
    BY <1>2, <1>9, <1>11 DEF Ahead
  <2>2. QED
    BY <1>1, <1>7, <2>1, LessNat, LessMonotone DEF IsReached
<1>18. IsExecuting(o) => IsExecuting(a)
  <2> SUFFICES ASSUME NEW v \in Nat, o.status = "EXECUTING", Ahead(o, <<>>, Settlement(Path(o), v))
               PROVE  IsExecuting(a)
    BY DEF IsExecuting
  <2>1. Path(o) \in {"TARGET", "FAILSAFE"}
    BY DEF Path
  <2>2. Ahead(a, <<>>, Settlement(Path(a), Less(v, d)))
    BY <1>7, <1>10, <1>11, <2>1 DEF Ahead
  <2>3. QED
    BY <1>1, <2>2, LessNat DEF IsExecuting
<1>19. IsEnded(o) => IsEnded(a)
  BY <1>1, <1>10, <1>12 DEF IsEnded, Ahead
<1>20. QED
  BY <1>6, <1>7, <1>13, <1>14, <1>15, <1>16, <1>17, <1>18, <1>19 DEF Fine, Phase, a

Calm(o) == o.pending # <<>> => ~IsDue(Head(o.pending))

(* The first timer, when it is due, makes the transition it was entered for
   and leaves the others. *)
LEMMA Transition ==
    ASSUME NEW o, Fine(o), NEW to \in Follows[o.status], to \in Statuses, o.status \notin Terminal,
           o.pending # <<>>, Head(o.pending) = Timer(to, 0)
    PROVE  LET n == NextTransition(o)
           IN  /\ n \in Orders /\ Walks(n)
               /\ n.status = to /\ (Saw(n) <=> Saw(o) \/ to = "TARGET_REACHED")
               /\ n.pending = Tail(o.pending) /\ n.settling = o.settling /\ n.receipts = <<>>
<1> DEFINE w == WithStatus(o, to)
           n == NextTransition(o)
<1>1. /\ w \in Orders /\ Walks(w)
      /\ w.status = to /\ (Saw(w) <=> Saw(o) \/ to = "TARGET_REACHED")
      /\ w.pending = o.pending /\ w.settling = o.settling /\ w.receipts = o.receipts
  BY WithStatusWalks DEF Fine
<1>2. o.pending \in Seq(Timers) /\ Tail(o.pending) \in Seq(Timers)
  BY DEF Fine, Orders
<1>3. n = [w EXCEPT !.pending = Tail(@)]
  BY TimersAre DEF NextTransition, IsDue, ApplyTransition
<1> HIDE DEF w, n
<1>4. n.pending = Tail(o.pending)
  BY <1>1, <1>3 DEF Orders
<1>5. /\ n.status = w.status /\ n.events = w.events /\ n.settling = w.settling
      /\ n.receipts = w.receipts
  BY <1>1, <1>3 DEF Orders
<1>6. n \in Orders
  BY <1>1, <1>2, <1>3, <1>4 DEF Orders
<1>7. Walks(n) /\ (Saw(n) <=> Saw(w))
  BY <1>1, <1>5 DEF Walks, Saw
<1>8. o.receipts = <<>>
  BY DEF Fine, Receipted, Terminal
<1>9. QED
  BY <1>1, <1>4, <1>5, <1>6, <1>7, <1>8 DEF n

LEMMA FollowsAre ==
    /\ "ARMED" \in Follows["PLACED"] /\ "WATCHING" \in Follows["ARMED"]
    /\ "TARGET_REACHED" \in Follows["WATCHING"] /\ "EXECUTING" \in Follows["WATCHING"]
    /\ "EXECUTING" \in Follows["TARGET_REACHED"] /\ "SETTLED" \in Follows["EXECUTING"]
    /\ {"ARMED", "WATCHING", "TARGET_REACHED", "EXECUTING", "SETTLED"} \subseteq Statuses
    /\ \A status \in {"PLACED", "ARMED", "WATCHING", "TARGET_REACHED"} : status \notin Terminal
BY StatusesAre DEF Follows, Terminal

(* A transition leads from phase to phase, and after it one timer is left at
   most, unless none was due. *)
LEMMA NextFine ==
    ASSUME NEW o, Fine(o)
    PROVE  LET n == NextTransition(o)
           IN  /\ Fine(n)
               /\ Calm(n) \/ \E timer : n.pending = <<timer>>
               /\ Calm(o) => n = o
               /\ (\E timer : o.pending = <<timer>>) => Calm(n)
<1> DEFINE n == NextTransition(o)
<1>1. Calm(o) => n = o
  BY DEF Calm, NextTransition
<1>2. CASE Calm(o)
  BY <1>1, <1>2
<1>3. CASE ~Calm(o)
  <2> USE TimersAre DEF Ahead
  <2>1. ASSUME IsPlaced(o) PROVE Fine(n) /\ \E timer : n.pending = <<timer>>
    <3>1. PICK t \in Nat, u \in Nat :
              Ahead(o, <<Timer("ARMED", t), Timer("WATCHING", u)>>, None)
      BY <2>1 DEF IsPlaced
    <3>2. t = 0
      BY <1>3, <3>1 DEF Calm, IsDue
    <3>3. /\ o.pending # <<>> /\ Head(o.pending) = Timer("ARMED", 0)
          /\ Tail(o.pending) = <<Timer("WATCHING", u)>>
      BY <3>1, <3>2
    <3>4. /\ n \in Orders /\ Walks(n) /\ n.status = "ARMED" /\ ~Saw(n)
          /\ n.pending = <<Timer("WATCHING", u)>> /\ n.settling = None /\ n.receipts = <<>>
      BY <2>1, <3>1, <3>3, FollowsAre, Transition DEF IsPlaced
    <3>5. QED
      BY <3>4 DEF Fine, Phase, IsArmed, Receipted
  <2>2. ASSUME IsArmed(o) PROVE Fine(n) /\ n.pending = <<>>
    <3>1. PICK u \in Nat : Ahead(o, <<Timer("WATCHING", u)>>, None)
      BY <2>2 DEF IsArmed
    <3>2. u = 0
      BY <1>3, <3>1 DEF Calm, IsDue
    <3>3. o.pending # <<>> /\ Head(o.pending) = Timer("WATCHING", 0) /\ Tail(o.pending) = <<>>
      BY <3>1, <3>2
    <3>4. /\ n \in Orders /\ Walks(n) /\ n.status = "WATCHING" /\ ~Saw(n)
          /\ n.pending = <<>> /\ n.settling = None /\ n.receipts = <<>>
      BY <2>2, <3>1, <3>3, FollowsAre, Transition DEF IsArmed
    <3>5. QED
      BY <3>4 DEF Fine, Phase, IsWatching, Receipted
  <2>3. ASSUME IsDecided(o)
        PROVE  /\ Fine(n)
               /\ \/ n.pending = <<>>
                  \/ /\ \A timer : o.pending # <<timer>>
                     /\ \E timer : n.pending = <<timer>>
    <3>1. PICK t \in Nat, u \in Nat, v \in Nat :
              /\ t <= v /\ u <= v
              /\ \/ Ahead(o, <<Timer("TARGET_REACHED", t), Timer("EXECUTING", u)>>,
                          Settlement("TARGET", v))
                 \/ Ahead(o, <<Timer("EXECUTING", t)>>, Settlement("FAILSAFE", v))
      BY <2>3 DEF IsDecided, Decision
    <3>2. t = 0
      BY <1>3, <3>1 DEF Calm, IsDue
    <3>3. CASE o.pending = <<Timer("TARGET_REACHED", t), Timer("EXECUTING", u)>>
               /\ o.settling = Settlement("TARGET", v)
      <4>1. /\ o.pending # <<>> /\ Head(o.pending) = Timer("TARGET_REACHED", 0)
            /\ Tail(o.pending) = <<Timer("EXECUTING", u)>>
        BY <3>2, <3>3
      <4>2. /\ n \in Orders /\ Walks(n) /\ n.status = "TARGET_REACHED" /\ Saw(n)
            /\ n.pending = <<Timer("EXECUTING", u)>> /\ n.settling = Settlement("TARGET", v)
            /\ n.receipts = <<>>
        BY <2>3, <3>3, <4>1, FollowsAre, Transition DEF IsDecided
      <4>3. Fine(n)
        BY <3>1, <4>2 DEF Fine, Phase, IsReached, Receipted
      <4>4. \A timer : o.pending # <<timer>>
        BY <3>3
      <4>5. QED
        BY <4>2, <4>3, <4>4
    <3>4. CASE o.pending = <<Timer("EXECUTING", t)>> /\ o.settling = Settlement("FAILSAFE", v)
      <4>1. o.pending # <<>> /\ Head(o.pending) = Timer("EXECUTING", 0) /\ Tail(o.pending) = <<>>
        BY <3>2, <3>4
      <4>2. /\ n \in Orders /\ Walks(n) /\ n.status = "EXECUTING" /\ ~Saw(n)
            /\ n.pending = <<>> /\ n.settling = Settlement("FAILSAFE", v) /\ n.receipts = <<>>
        BY <2>3, <3>4, <4>1, FollowsAre, Transition DEF IsDecided
      <4>3. QED
        BY <3>1, <4>2 DEF Fine, Phase, IsExecuting, Path, Receipted
    <3>5. QED
      BY <3>1, <3>3, <3>4
  <2>4. ASSUME IsReached(o) PROVE Fine(n) /\ n.pending = <<>>
    <3>1. PICK u \in Nat, v \in Nat :
              u <= v /\ Ahead(o, <<Timer("EXECUTING", u)>>, Settlement("TARGET", v))
      BY <2>4 DEF IsReached
    <3>2. u = 0
      BY <1>3, <3>1 DEF Calm, IsDue
    <3>3. o.pending # <<>> /\ Head(o.pending) = Timer("EXECUTING", 0) /\ Tail(o.pending) = <<>>
      BY <3>1, <3>2
    <3>4. /\ n \in Orders /\ Walks(n) /\ n.status = "EXECUTING" /\ Saw(n)
          /\ n.pending = <<>> /\ n.settling = Settlement("TARGET", v) /\ n.receipts = <<>>
      BY <2>4, <3>1, <3>3, FollowsAre, Transition DEF IsReached
    <3>5. QED
      BY <3>4 DEF Fine, Phase, IsExecuting, Path, Receipted
  <2>5. ~IsWatching(o) /\ ~IsExecuting(o) /\ ~IsEnded(o)
    BY <1>3 DEF Calm, IsWatching, IsExecuting, IsEnded
  <2>6. n.pending = <<>> => Calm(n)
    BY DEF Calm
  <2>7. \A x : IsPlaced(o) => o.pending # <<x>>
    BY DEF IsPlaced
  <2>8. QED
    BY <1>3, <2>1, <2>2, <2>3, <2>4, <2>5, <2>6, <2>7 DEF Fine, Phase
<1>4. QED
  BY <1>2, <1>3

(* When the timers that were due have made their transitions, none is. *)
LEMMA TransitionedFine ==
    ASSUME NEW o, Fine(o)
    PROVE  Fine(Transitioned(o)) /\ Calm(Transitioned(o))
<1> DEFINE n == NextTransition(o)
<1>1. Fine(n) /\ (Calm(n) \/ \E timer : n.pending = <<timer>>)
  BY NextFine
<1>2. Fine(NextTransition(n)) /\ (Calm(n) => NextTransition(n) = n)
      /\ ((\E timer : n.pending = <<timer>>) => Calm(NextTransition(n)))
  BY <1>1, NextFine
<1>3. QED
  BY <1>1, <1>2 DEF Transitioned

(* The settlement finds no transition due before it: the order executes. *)
LEMMA SettledFine ==
    ASSUME NEW o, Fine(o), Calm(o)
    PROVE  Fine(Settled(o))
<1> SUFFICES ASSUME o.settling # None, IsDue(o.settling)
             PROVE  Fine([Settle(o) EXCEPT !.settling = None])
  BY DEF Settled
<1> USE DEF Ahead
<1>1. IsExecuting(o)
  <2>1. \A path, v : Settlement(path, v).ticks = v
    BY DEF Settlement
  <2>2. ~IsDecided(o)
    BY <2>1, TimersAre DEF IsDecided, Decision, Calm, IsDue
  <2>3. ~IsReached(o)
    <3> SUFFICES ASSUME NEW u \in Nat, NEW v \in Nat, u <= v,
                        o.pending = <<Timer("EXECUTING", u)>>, o.settling = Settlement("TARGET", v)
                 PROVE  FALSE
      BY DEF IsReached
    <3>1. v = 0 /\ u = 0
      BY <2>1 DEF IsDue
    <3>2. QED
      BY <3>1, TimersAre DEF Calm, IsDue
  <2>4. ~IsPlaced(o) /\ ~IsArmed(o) /\ ~IsWatching(o) /\ ~IsEnded(o)
    BY DEF IsPlaced, IsArmed, IsWatching, IsEnded
  <2>5. QED
    BY <2>2, <2>3, <2>4 DEF Fine, Phase
<1>2. o.status = "EXECUTING" /\ o.pending = <<>> /\ o.settling.path = Path(o)
  BY <1>1 DEF IsExecuting, Settlement
<1> DEFINE w == WithStatus(o, "SETTLED")
           s == [Settle(o) EXCEPT !.settling = None]
<1>3. /\ w \in Orders /\ Walks(w) /\ w.status = "SETTLED" /\ (Saw(w) <=> Saw(o))
      /\ w.pending = <<>> /\ w.receipts = <<>>
  <2>1. "SETTLED" \in Follows[o.status] /\ "SETTLED" \in Statuses
    BY <1>2, StatusesAre DEF Follows
  <2>2. o.receipts = <<>>
    BY <1>2 DEF Fine, Receipted
  <2>3. QED
    BY <1>2, <2>1, <2>2, WithStatusWalks DEF Fine
<1>4. Settle(o) = [w EXCEPT !.receipts = Append(@, Path(o))]
  BY <1>2 DEF Settle, Terminal
<1> HIDE DEF w
<1>5. /\ s.status = "SETTLED" /\ s.events = w.events /\ s.pending = <<>> /\ s.settling = None
      /\ s.receipts = Append(<<>>, Path(o))
  BY <1>3, <1>4 DEF Orders
<1>6. Path(o) \in {"TARGET", "FAILSAFE"} /\ Append(<<>>, Path(o)) = <<Path(o)>>
  <2>1. /\ Path(o) \in {"TARGET", "FAILSAFE"}
        /\ <<>> \in Seq({"TARGET", "FAILSAFE"}) /\ <<Path(o)>> \in Seq({"TARGET", "FAILSAFE"})
    BY DEF Path
  <2>2. Append(<<>>, Path(o)) = <<>> \o <<Path(o)>>
    BY <2>1, AppendIsConcat
  <2>3. QED
    BY <2>1, <2>2, ConcatEmptySeq
<1>7. s \in Orders
  <2>1. Append(w.receipts, Path(o)) \in Seq({"TARGET", "FAILSAFE"})
    BY <1>3, <1>6 DEF Orders
  <2>2. Settle(o) \in Orders
    BY <1>3, <1>4, <2>1 DEF Orders
  <2>3. QED
    BY <2>2 DEF Orders
<1> HIDE DEF s
<1>8. Walks(s) /\ (Saw(s) <=> Saw(o))
  BY <1>3, <1>5 DEF Walks, Saw
<1>9. QED
  BY <1>5, <1>6, <1>7, <1>8 DEF s, Fine, Phase, IsEnded, Terminal, Receipted, Path

LEMMA StepOrderFine ==
    ASSUME NEW o, Fine(o), NEW now
    PROVE  Fine(StepOrder(o, now))
<1> SUFFICES ASSUME o.status = "WATCHING", o.pending = <<>>
             PROVE  Fine(StepOrder(o, now))
  BY DEF StepOrder
<1> USE DEF Ahead
<1>1. ~Saw(o)
  BY DEF Fine, Phase, IsPlaced, IsArmed, IsWatching, IsDecided, IsReached, IsExecuting, IsEnded, Terminal
<1>2. ASSUME NEW pending \in Seq(Timers), NEW settling \in Settlements, NEW s,
             s = [o EXCEPT !.pending = pending, !.settling = settling],
             Decision(pending, settling)
      PROVE  Fine(s)
  <2>1. s \in Orders
    BY <1>2 DEF Fine, Orders
  <2>2. /\ s.status = o.status /\ s.events = o.events /\ s.receipts = o.receipts
        /\ s.pending = pending /\ s.settling = settling
    BY <1>2 DEF Fine, Orders
  <2>3. Walks(s) /\ ~Saw(s) /\ Receipted(s)
    BY <1>1, <2>2 DEF Fine, Walks, Saw, Receipted
  <2>4. IsDecided(s)
    BY <1>2, <2>2, <2>3 DEF IsDecided
  <2>5. QED
    BY <2>1, <2>3, <2>4 DEF Fine, Phase
<1>3. ASSUME now >= o.target PROVE Fine(StepOrder(o, now))
  <2>1. /\ <<Timer("TARGET_REACHED", 0), Timer("EXECUTING", ExecuteAfter)>> \in Seq(Timers)
        /\ Settlement("TARGET", SettleAfter) \in Settlements
        /\ ExecuteAfter \in Nat /\ SettleAfter \in Nat /\ ExecuteAfter <= SettleAfter
    BY DesignAssumption, TimersAre, NoneIsNone, StatusesAre
  <2>2. StepOrder(o, now) =
            [o EXCEPT !.pending = <<Timer("TARGET_REACHED", 0), Timer("EXECUTING", ExecuteAfter)>>,
                      !.settling = Settlement("TARGET", SettleAfter)]
    BY <1>3 DEF StepOrder
  <2>3. Decision(<<Timer("TARGET_REACHED", 0), Timer("EXECUTING", ExecuteAfter)>>,
                 Settlement("TARGET", SettleAfter))
    BY <2>1 DEF Decision
  <2>4. QED
    BY <1>2, <2>1, <2>2, <2>3
<1>4. ASSUME ~(now >= o.target), o.wait = 0 PROVE Fine(StepOrder(o, now))
  <2>1. /\ <<Timer("EXECUTING", 0)>> \in Seq(Timers)
        /\ Settlement("FAILSAFE", FailsafeAfter) \in Settlements
        /\ FailsafeAfter \in Nat
    BY DesignAssumption, TimersAre, NoneIsNone, StatusesAre
  <2>2. StepOrder(o, now) =
            [o EXCEPT !.pending = <<Timer("EXECUTING", 0)>>,
                      !.settling = Settlement("FAILSAFE", FailsafeAfter)]
    BY <1>4 DEF StepOrder
  <2>3. Decision(<<Timer("EXECUTING", 0)>>,
                 Settlement("FAILSAFE", FailsafeAfter))
    BY <2>1 DEF Decision
  <2>4. QED
    BY <1>2, <2>1, <2>2, <2>3
<1>5. QED
  BY <1>3, <1>4 DEF StepOrder

LEMMA SteppedFine ==
    ASSUME NEW o, Fine(o), NEW d \in Nat, NEW now
    PROVE  Fine(Stepped(o, d, now))
<1>1. Fine(Transitioned(Aged(o, d))) /\ Calm(Transitioned(Aged(o, d)))
  BY AgedFine, TransitionedFine
<1>2. Fine(ProcessPending(Aged(o, d)))
  BY <1>1, SettledFine DEF ProcessPending
<1>3. QED
  BY <1>2, StepOrderFine DEF Stepped

LEMMA CancelledFine ==
    ASSUME NEW o, Fine(o), o.status \in Open
    PROVE  Fine(Cancelled(o))
<1> DEFINE w == WithStatus(o, "CANCELLED")
           c == Cancelled(o)
<1>1. "CANCELLED" \in Follows[o.status] /\ "CANCELLED" \in Statuses
  BY StatusesAre DEF Open, Follows
<1>2. /\ w \in Orders /\ Walks(w) /\ w.status = "CANCELLED"
      /\ w.receipts = o.receipts
  BY <1>1, WithStatusWalks DEF Fine
<1>3. c = [w EXCEPT !.pending = <<>>, !.settling = None]
  BY DEF Cancelled
<1> HIDE DEF w, c
<1>4. /\ c.status = "CANCELLED" /\ c.events = w.events /\ c.receipts = w.receipts
      /\ c.pending = <<>> /\ c.settling = None
  BY <1>2, <1>3 DEF Orders
<1>5. c \in Orders
  <2>1. <<>> \in Seq(Timers)
    OBVIOUS
  <2>2. QED
    BY <1>2, <1>3, <2>1 DEF Orders
<1>6. o.receipts = <<>>
  BY DEF Fine, Receipted, Open
<1>7. Walks(c)
  BY <1>2, <1>4 DEF Walks
<1>8. QED
  BY <1>2, <1>4, <1>5, <1>6, <1>7 DEF c, Fine, Phase, IsEnded, Terminal, Ahead, Receipted

-----------------------------------------------------------------------------
(* All orders. *)

AllFine ==
    /\ DOMAIN orders = Ids
    /\ orders = [i \in Ids |-> orders[i]]
    /\ \A i \in Ids : orders[i] # None => Fine(orders[i])

(* An order just placed, and the one that is watching from the start. *)
LEMMA PlacedFine ==
    ASSUME NEW target \in Ratios, NEW wait \in Nat
    PROVE  /\ Fine(Order(target, wait, <<"PLACED">>,
                        <<Timer("ARMED", ArmAfter), Timer("WATCHING", WatchAfter)>>))
           /\ Fine(Order(target, wait, <<"PLACED", "ARMED", "WATCHING">>, <<>>))
<1> USE StatusesAre
<1>1. Fine(Order(target, wait, <<"PLACED">>,
                 <<Timer("ARMED", ArmAfter), Timer("WATCHING", WatchAfter)>>))
  <2> DEFINE o == Order(target, wait, <<"PLACED">>,
                        <<Timer("ARMED", ArmAfter), Timer("WATCHING", WatchAfter)>>)
  <2>1. <<Timer("ARMED", ArmAfter), Timer("WATCHING", WatchAfter)>> \in Seq(Timers)
    BY DesignAssumption, TimersAre
  <2>2. /\ o.status = "PLACED" /\ o.events = <<"PLACED">> /\ o.settling = None /\ o.receipts = <<>>
        /\ o.pending = <<Timer("ARMED", ArmAfter), Timer("WATCHING", WatchAfter)>>
    BY DEF Order
  <2>3. o \in Orders
    BY <2>1 DEF Order, Orders
  <2> HIDE DEF o
  <2>4. Walks(o) /\ ~Saw(o)
    BY <2>2 DEF Walks, Saw
  <2>5. QED
    BY <2>2, <2>3, <2>4, DesignAssumption DEF o, Fine, Phase, IsPlaced, Ahead, Receipted
<1>2. Fine(Order(target, wait, <<"PLACED", "ARMED", "WATCHING">>, <<>>))
  <2> DEFINE o == Order(target, wait, <<"PLACED", "ARMED", "WATCHING">>, <<>>)
  <2>1. /\ o.status = "WATCHING" /\ o.events = <<"PLACED", "ARMED", "WATCHING">>
        /\ o.settling = None /\ o.receipts = <<>> /\ o.pending = <<>>
    BY DEF Order
  <2>2. o \in Orders
    BY DEF Order, Orders
  <2> HIDE DEF o
  <2>3. Walks(o)
    <3>1. \A k \in 1..2 : o.events[k + 1] \in Follows[o.events[k]]
      BY <2>1 DEF Follows
    <3>2. QED
      BY <2>1, <3>1 DEF Walks
  <2>4. ~Saw(o)
    BY <2>1 DEF Saw
  <2>5. QED
    BY <2>1, <2>2, <2>3, <2>4 DEF o, Fine, Phase, IsWatching, Ahead, Receipted
<1>3. QED
  BY <1>1, <1>2

LEMMA FineInit == DesignInit => AllFine
BY PlacedFine, DesignAssumption DEF DesignInit, AllFine

LEMMA FineNext == AllFine /\ [DesignNext]_designVars => AllFine'
<1> SUFFICES ASSUME AllFine, [DesignNext]_designVars PROVE AllFine'
  OBVIOUS
<1>1. ASSUME NEW i \in Ids, NEW target \in Ratios, NEW wait \in Waits, CreateOrder(i, target, wait)
      PROVE  AllFine'
  <2>1. wait \in Nat
    BY DesignAssumption
  <2>2. QED
    BY <1>1, <2>1, PlacedFine DEF CreateOrder, AllFine
<1>2. ASSUME NEW i \in Ids, CancelOrder(i) PROVE AllFine'
  BY <1>2, CancelledFine DEF CancelOrder, AllFine
<1>3. ASSUME NEW d \in Periods, NEW now \in Ratios, Tick(d, now) PROVE AllFine'
  <2>1. d \in Nat
    BY DesignAssumption
  <2>2. QED
    BY <1>3, <2>1, SteppedFine DEF Tick, AllFine
<1>4. ASSUME UNCHANGED orders PROVE AllFine'
  BY <1>4 DEF AllFine
<1>5. QED
  BY <1>1, <1>2, <1>3, <1>4 DEF DesignNext, AnyTick, SwitchTicking, designVars

LEMMA AlwaysFine == DesignSpec => []AllFine
BY FineInit, FineNext, PTL DEF DesignSpec

(* The history of every order walks the state machine, however late the
   ticks of localDesignSource.ts come. *)
THEOREM HistoriesInOrder == DesignSpec => []EventsInOrder
<1>1. AllFine => EventsInOrder
  BY DEF AllFine, Fine, Walks, EventsInOrder
<1>2. QED
  BY <1>1, AlwaysFine, PTL

(* A settled order has one receipt, for the way it went, a cancelled one has
   none, and neither has anything ahead of it. *)
THEOREM SettledOnce == DesignSpec => []OneReceipt
<1>1. ASSUME NEW o, Fine(o)
      PROVE  /\ o.receipts = IF o.status # "SETTLED" THEN <<>>
                             ELSE IF Saw(o) THEN <<"TARGET">> ELSE <<"FAILSAFE">>
             /\ o.status \in Terminal => o.pending = <<>> /\ o.settling = None
  BY <1>1 DEF Fine, Receipted, Path, Phase, IsPlaced, IsArmed, IsWatching, IsDecided, IsReached,
     IsExecuting, IsEnded, Ahead, Terminal
<1>2. AllFine => OneReceipt
  BY <1>1 DEF AllFine, OneReceipt, Saw
<1>3. QED
  BY <1>2, AlwaysFine, PTL

=============================================================================
