---------------------------- MODULE KeeperProofs ----------------------------
(***************************************************************************)
(* What TLAPS proves about Keeper, for any number of processes, ticks and  *)
(* orders, whatever throws, dies, gets lost or lands late: every receipt   *)
(* is of a fill that landed; workers that have identities of their own do  *)
(* not attempt one order together while their leases last; ticks, rows and *)
(* transactions are of their types; the keeper's transactions leave the    *)
(* escrow what Escrow guarantees of it, and the owner what OrderPromise    *)
(* says; and what the policy plans for an order that has not changed is    *)
(* what the program accepts.                                               *)
(***************************************************************************)
EXTENDS Keeper, EscrowProofs

(* The places of a tick that carry the record of an attempt. *)
Underway == {"lease", "attempt", "confirm", "receipt", "release"}

AttemptFields ==
    {"at", "now", "items", "slot", "plan", "outcome", "sig", "failed", "late"}

(* Records of ticks are what the steps below take them for. *)
Shaped ==
    /\ DOMAIN tick = Ticks
    /\ \A t \in Ticks : tick[t].at \in Underway => DOMAIN tick[t] = AttemptFields

IsSeq(s) == \E S : s \in Seq(S)

LEMMA AppendKeeps ==
    ASSUME NEW s, IsSeq(s), NEW e
    PROVE  /\ IsSeq(Append(s, e))
           /\ Len(s) + 1 \in DOMAIN Append(s, e)
           /\ Append(s, e)[Len(s) + 1] = e
           /\ \A i \in DOMAIN s : i \in DOMAIN Append(s, e) /\ Append(s, e)[i] = s[i]
<1>1. PICK S : s \in Seq(S)
  BY DEF IsSeq
<1>2. s \in Seq(S \cup {e}) /\ e \in S \cup {e}
  BY <1>1
<1>3. Append(s, e) \in Seq(S \cup {e})
  BY <1>2
<1>4. QED
  BY <1>2, <1>3 DEF IsSeq

-----------------------------------------------------------------------------
(* The receipts. *)

(* A tick that was told its transaction landed knows where; without it the
   row it stores could be of anything. *)
Knows(t) ==
    /\ tick[t].at = "receipt" => tick[t].outcome = "landed"
    /\ (tick[t].at \in {"confirm", "receipt"} /\ tick[t].outcome = "landed")
          => /\ tick[t].sig \in DOMAIN landed
             /\ landed[tick[t].sig] = Record(TxOf(t))

ReceiptInv ==
    /\ Shaped
    /\ IsSeq(landed)
    /\ \A t \in Ticks : Knows(t)
    /\ ReceiptsAreReal

LEMMA ReceiptInit == KeeperInit => ReceiptInv
BY DEF KeeperInit, ReceiptInv, Shaped, IsSeq, Knows, ReceiptsAreReal, Idle, Underway

(* One tick moves, and what it knows afterwards is right. *)
LEMMA OneTickMoves ==
    ASSUME ReceiptInv, NEW t \in Ticks, NEW state, Goto(t, state),
           UNCHANGED <<landed, receipts>>,
           state.at \in Underway => DOMAIN state = AttemptFields,
           Knows(t)'
    PROVE  ReceiptInv'
<1>1. DOMAIN tick' = Ticks /\ tick'[t] = state
  BY DEF ReceiptInv, Shaped, Goto
<1>2. \A u \in Ticks : u # t => tick'[u] = tick[u]
  BY DEF ReceiptInv, Shaped, Goto
<1>3. Shaped'
  BY <1>1, <1>2 DEF ReceiptInv, Shaped
<1>4. \A u \in Ticks : Knows(u)'
  <2>1. SUFFICES ASSUME NEW u \in Ticks, u # t PROVE Knows(u)'
    OBVIOUS
  <2>2. Knows(u) /\ tick'[u] = tick[u]
    BY <1>2, <2>1 DEF ReceiptInv
  <2>3. QED
    BY <2>2 DEF Knows, TxOf, Record
<1>5. QED
  BY <1>3, <1>4 DEF ReceiptInv, ReceiptsAreReal, Record, IsSeq

(* The steps of a tick that wait for nothing on the chain. *)
LEMMA RunKeeps ==
    ASSUME ReceiptInv, NEW t \in Ticks, Runs(t)
    PROVE  ReceiptInv'
<1> DEFINE Moved(state) ==
             /\ Goto(t, state)
             /\ state.at \in Underway => DOMAIN state = AttemptFields
             /\ UNCHANGED <<landed, receipts>>
             /\ Knows(t)'
<1>0. /\ DOMAIN tick = Ticks
      /\ tick[t].at \in Underway => DOMAIN tick[t] = AttemptFields
      /\ Knows(t)
  BY DEF ReceiptInv, Shaped
<1>1. CASE ReadIssuer(t)
  <2>1. Moved([at |-> "judge", seen |-> mint])
    BY <1>0, <1>1 DEF ReadIssuer, Goto, Knows, Underway
  <2>2. QED
    BY <2>1, OneTickMoves
<1>2. CASE JudgeIssuer(t)
  <2> DEFINE halt == HaltFromIssuer(tick[t].seen, baseline[ProcessOf[t]]) # "none"
  <2>1. Moved([at |-> "feed", halt |-> halt])
    BY <1>0, <1>2 DEF JudgeIssuer, Goto, Knows, Underway
  <2>2. QED
    BY <2>1, OneTickMoves
<1>3. CASE CheckFeed(t)
  <2>1. PICK state \in {[at |-> "load"], Idle} : Goto(t, state)
    BY <1>3 DEF CheckFeed
  <2>2. Moved(state)
    BY <1>0, <1>3, <2>1 DEF CheckFeed, Goto, Knows, Underway, Idle
  <2>3. QED
    BY <2>2, OneTickMoves
<1>4. CASE LoadOrders(t)
  <2>1. \E time \in HostTimes :
            Moved([at    |-> "orders",
                   now   |-> time,
                   items |-> [s \in {r \in Slots : IsOpen(r)} |-> order[s]]])
    BY <1>0, <1>4 DEF LoadOrders, LoadOrdersAt, Goto, Knows, Underway
  <2>2. QED
    BY <2>1, OneTickMoves
<1>5. ASSUME NEW s \in Slots, NEW out \in SwapOuts, PlanOrder(t, s, out)
      PROVE  ReceiptInv'
  <2> DEFINE plan == PlanFor(tick[t].items[s], tick[t].now, out)
             taken == [at |-> "lease", now |-> tick[t].now,
                       items |-> tick[t].items, slot |-> s, plan |-> plan,
                       outcome |-> "unsent", sig |-> 0, failed |-> FALSE,
                       late |-> FALSE]
  <2>1. CASE Goto(t, NextOrder(t, s))
    <3>1. Moved(NextOrder(t, s))
      BY <1>0, <1>5, <2>1 DEF PlanOrder, Goto, Knows, Underway, NextOrder
    <3>2. QED
      BY <3>1, OneTickMoves
  <2>2. CASE Goto(t, taken)
    <3>1. Moved(taken)
      <4>1. taken.at = "lease" /\ DOMAIN taken = AttemptFields
        BY DEF AttemptFields
      <4>2. tick'[t] = taken
        BY <1>0, <2>2 DEF Goto
      <4>3. Knows(t)'
        BY <4>1, <4>2 DEF Knows
      <4>4. UNCHANGED <<landed, receipts>>
        BY <1>5 DEF PlanOrder
      <4>5. QED
        BY <2>2, <4>1, <4>3, <4>4
    <3>2. QED
      BY <3>1, OneTickMoves
  <2>3. QED
    BY <1>5, <2>1, <2>2 DEF PlanOrder
<1>6. CASE TakeLease(t)
  <2>1. CASE Goto(t, At(t, "attempt"))
    <3>1. Moved(At(t, "attempt"))
      BY <1>0, <1>6, <2>1 DEF TakeLease, Goto, At, Knows, Underway, AttemptFields
    <3>2. QED
      BY <3>1, OneTickMoves
  <2>2. CASE Goto(t, NextOrder(t, tick[t].slot))
    <3>1. Moved(NextOrder(t, tick[t].slot))
      BY <1>0, <1>6, <2>2 DEF TakeLease, Goto, Knows, Underway, NextOrder
    <3>2. QED
      BY <3>1, OneTickMoves
  <2>3. QED
    BY <1>6, <2>1, <2>2 DEF TakeLease
<1>7. ASSUME NEW out \in SwapOuts, SendFill(t, out)
      PROVE  ReceiptInv'
  <2> DEFINE sending == [At(t, "confirm") EXCEPT !.outcome = "sent"]
  <2>1. DOMAIN tick[t] = AttemptFields
    BY <1>0, <1>7 DEF SendFill, SendFillAt, Underway
  <2>2. CASE Goto(t, sending)
    <3>1. Moved(sending)
      BY <1>0, <1>7, <2>1, <2>2 DEF SendFill, SendFillAt, Goto, At, Knows, Underway,
         AttemptFields
    <3>2. QED
      BY <3>1, OneTickMoves
  <2>3. CASE Goto(t, At(t, "release"))
    <3>1. Moved(At(t, "release"))
      BY <1>0, <1>7, <2>1, <2>3 DEF SendFill, SendFillAt, Goto, At, Knows, Underway,
         AttemptFields
    <3>2. QED
      BY <3>1, OneTickMoves
  <2>4. QED
    BY <1>7, <2>2, <2>3 DEF SendFill, SendFillAt
<1>8. CASE Confirm(t)
  <2> DEFINE given == [At(t, "release") EXCEPT !.failed = tick[t].outcome = "dropped"]
  <2>1. DOMAIN tick[t] = AttemptFields /\ tick[t].at = "confirm"
    BY <1>0, <1>8 DEF Confirm, Underway
  <2>2. CASE tick[t].outcome = "landed" /\ Goto(t, At(t, "receipt"))
    <3>1. tick'[t] = At(t, "receipt")
      BY <1>0, <2>2 DEF Goto
    <3>2. /\ DOMAIN tick'[t] = AttemptFields
          /\ tick'[t].at = "receipt" /\ tick'[t].outcome = "landed"
          /\ tick'[t].sig = tick[t].sig
          /\ tick'[t].slot = tick[t].slot /\ tick'[t].plan = tick[t].plan
      BY <2>1, <2>2, <3>1 DEF At, AttemptFields
    <3>3. UNCHANGED <<landed, receipts>>
      BY <1>8 DEF Confirm
    <3>4. Knows(t)'
      BY <1>0, <2>1, <2>2, <3>2, <3>3 DEF Knows, Record, TxOf
    <3>5. QED
      BY <2>2, <3>1, <3>2, <3>3, <3>4, OneTickMoves
  <2>3. CASE Goto(t, given)
    <3>1. Moved(given)
      BY <1>0, <1>8, <2>1, <2>3 DEF Confirm, Goto, At, Knows, Underway, AttemptFields
    <3>2. QED
      BY <3>1, OneTickMoves
  <2>4. QED
    BY <1>8, <2>2, <2>3 DEF Confirm, Confirmed
<1>9. CASE PersistReceipt(t)
  <2> DEFINE row == [sig |-> tick[t].sig, slot |-> tick[t].slot,
                     size |-> tick[t].plan.fillSrc, pay |-> tick[t].plan.dstRaw]
  <2>1. /\ tick[t].at = "receipt" /\ DOMAIN tick[t] = AttemptFields
        /\ receipts' = Insert(row)
        /\ Goto(t, At(t, "release"))
        /\ UNCHANGED landed
    BY <1>0, <1>9 DEF PersistReceipt, Underway
  <2>2. row.sig \in DOMAIN landed /\ landed[row.sig] = Record(row)
    BY <1>0, <2>1 DEF Knows, Record, TxOf
  <2>3. ReceiptsAreReal'
    <3>1. CASE \E q \in receipts : q.sig = row.sig
      BY <2>1, <3>1 DEF ReceiptInv, ReceiptsAreReal, Insert, Record
    <3>2. CASE ~\E q \in receipts : q.sig = row.sig
      <4>1. receipts' = receipts \cup {row}
        BY <2>1, <3>2 DEF Insert
      <4>2. QED
        BY <2>1, <2>2, <3>2, <4>1 DEF ReceiptInv, ReceiptsAreReal, Record
    <3>3. QED
      BY <3>1, <3>2
  <2>4. /\ DOMAIN tick' = Ticks
        /\ tick'[t] = At(t, "release")
        /\ \A u \in Ticks : u # t => tick'[u] = tick[u]
    BY <1>0, <2>1 DEF Goto
  <2>5. tick'[t].at = "release" /\ DOMAIN tick'[t] = AttemptFields
    BY <2>1, <2>4 DEF At, AttemptFields
  <2>6. Shaped'
    BY <2>4, <2>5 DEF ReceiptInv, Shaped
  <2>7. ASSUME NEW u \in Ticks PROVE Knows(u)'
    <3>1. CASE u = t
      BY <2>5, <3>1 DEF Knows
    <3>2. CASE u # t
      BY <2>1, <2>4, <3>2 DEF ReceiptInv, Knows, TxOf, Record
    <3>3. QED
      BY <3>1, <3>2
  <2>8. QED
    BY <2>1, <2>3, <2>6, <2>7 DEF ReceiptInv
<1>10. CASE Release(t)
  <2>1. PICK state \in {Idle, NextOrder(t, tick[t].slot)} : Goto(t, state)
    BY <1>10 DEF Release
  <2>2. state.at \in {"idle", "orders"}
    BY <2>1 DEF Idle, NextOrder
  <2>3. Moved(state)
    BY <1>0, <1>10, <2>1, <2>2 DEF Release, Goto, Knows, Underway
  <2>4. QED
    BY <2>3, OneTickMoves
<1>11. CASE Finish(t)
  <2>1. Moved(Idle)
    BY <1>0, <1>11 DEF Finish, Goto, Knows, Underway, Idle
  <2>2. QED
    BY <2>1, OneTickMoves
<1>12. QED
  BY <1>1, <1>2, <1>3, <1>4, <1>5, <1>6, <1>7, <1>8, <1>9, <1>10, <1>11 DEF Runs
(* The chain executes another fill; what is known of the earlier ones
   stays. *)
LEMMA LandedGrows ==
    ASSUME ReceiptInv, NEW row, landed' = Append(landed, row), UNCHANGED receipts
    PROVE  /\ IsSeq(landed)'
           /\ ReceiptsAreReal'
           /\ \A i \in DOMAIN landed : i \in DOMAIN landed' /\ landed'[i] = landed[i]
           /\ Len(landed) + 1 \in DOMAIN landed'
           /\ landed'[Len(landed) + 1] = row
<1>1. /\ IsSeq(Append(landed, row))
      /\ Len(landed) + 1 \in DOMAIN Append(landed, row)
      /\ Append(landed, row)[Len(landed) + 1] = row
      /\ \A i \in DOMAIN landed :
             i \in DOMAIN Append(landed, row) /\ Append(landed, row)[i] = landed[i]
  <2>1. IsSeq(landed)
    BY DEF ReceiptInv
  <2>2. QED
    BY <2>1, AppendKeeps
<1>2. IsSeq(landed)'
  BY <1>1 DEF IsSeq
<1>3. QED
  BY <1>1, <1>2 DEF ReceiptInv, ReceiptsAreReal, Record

LEMMA LandKeeps ==
    ASSUME ReceiptInv, NEW t \in Ticks, NEW out \in SwapOuts, Land(t, out)
    PROVE  ReceiptInv'
<1>1. /\ tick[t].at = "confirm" /\ DOMAIN tick[t] = AttemptFields
      /\ landed' = Append(landed, Record(TxOf(t)))
      /\ tick' = [tick EXCEPT ![t] =
                     [tick[t] EXCEPT !.outcome = "landed", !.sig = Len(landed) + 1]]
      /\ UNCHANGED receipts
  BY DEF ReceiptInv, Shaped, Land, Sent, Goto, Underway
<1>2. /\ IsSeq(landed)'
      /\ ReceiptsAreReal'
      /\ \A i \in DOMAIN landed : i \in DOMAIN landed' /\ landed'[i] = landed[i]
      /\ Len(landed) + 1 \in DOMAIN landed'
      /\ landed'[Len(landed) + 1] = Record(TxOf(t))
  BY <1>1, LandedGrows
<1>3. /\ DOMAIN tick' = Ticks
      /\ tick'[t] = [tick[t] EXCEPT !.outcome = "landed", !.sig = Len(landed) + 1]
      /\ \A u \in Ticks : u # t => tick'[u] = tick[u]
  BY <1>1 DEF ReceiptInv, Shaped
<1>4. /\ DOMAIN tick'[t] = AttemptFields
      /\ tick'[t].at = "confirm" /\ tick'[t].sig = Len(landed) + 1
      /\ tick'[t].slot = tick[t].slot /\ tick'[t].plan = tick[t].plan
  BY <1>1, <1>3 DEF AttemptFields
<1>5. ASSUME NEW u \in Ticks PROVE Knows(u)'
  <2>1. CASE u = t
    BY <1>2, <1>4, <2>1 DEF Knows, TxOf, Record
  <2>2. CASE u # t
    BY <1>2, <1>3, <2>2 DEF ReceiptInv, Knows, TxOf, Record
  <2>3. QED
    BY <2>1, <2>2
<1>6. Shaped'
  BY <1>3, <1>4 DEF ReceiptInv, Shaped
<1>7. QED
  BY <1>2, <1>5, <1>6 DEF ReceiptInv

LEMMA LandLooseKeeps ==
    ASSUME ReceiptInv, NEW t \in Ticks, NEW out \in SwapOuts, LandLoose(t, out)
    PROVE  ReceiptInv'
<1>1. /\ landed' = Append(landed, Record(loose[t]))
      /\ UNCHANGED <<tick, receipts>>
  BY DEF LandLoose
<1>2. /\ IsSeq(landed)'
      /\ ReceiptsAreReal'
      /\ \A i \in DOMAIN landed : i \in DOMAIN landed' /\ landed'[i] = landed[i]
  BY <1>1, LandedGrows
<1>3. QED
  BY <1>1, <1>2 DEF ReceiptInv, Shaped, Knows, TxOf, Record

(* An answer that is no success, or none. *)
LEMMA RefusalKeeps ==
    ASSUME ReceiptInv, NEW t \in Ticks, NEW answer \in {"failed", "dropped"}, Sent(t),
           Goto(t, [tick[t] EXCEPT !.outcome = answer]),
           UNCHANGED <<landed, receipts>>
    PROVE  ReceiptInv'
<1> DEFINE refused == [tick[t] EXCEPT !.outcome = answer]
<1>1. DOMAIN tick[t] = AttemptFields /\ DOMAIN tick = Ticks /\ tick[t].at = "confirm"
  BY DEF ReceiptInv, Shaped, Sent, Underway
<1>2. DOMAIN refused = AttemptFields /\ refused.at = "confirm" /\ refused.outcome = answer
  BY <1>1 DEF AttemptFields
<1>3. tick'[t] = refused
  BY <1>1 DEF Goto
<1>4. Knows(t)'
  BY <1>2, <1>3 DEF Knows
<1>5. QED
  BY <1>2, <1>4, OneTickMoves

(* A failure ends attempts, or has them give their lease back. *)
LEMMA ThrowKeeps ==
    ASSUME ReceiptInv, NEW t \in Ticks, Throw(t)
    PROVE  ReceiptInv'
<1> DEFINE failing == [At(t, "release") EXCEPT !.failed = TRUE]
<1>0. DOMAIN tick = Ticks /\ (tick[t].at \in Underway => DOMAIN tick[t] = AttemptFields)
  BY DEF ReceiptInv, Shaped
<1>1. UNCHANGED <<landed, receipts>>
  BY DEF Throw
<1>2. CASE tick[t].at \in {"attempt", "confirm", "receipt"}
  <2>1. DOMAIN tick[t] = AttemptFields
    BY <1>0, <1>2 DEF Underway
  <2>2. DOMAIN failing = AttemptFields /\ failing.at = "release"
    BY <2>1 DEF At, AttemptFields
  <2>3. Goto(t, failing)
    BY <1>2 DEF Throw
  <2>4. Knows(t)'
    BY <1>0, <2>2, <2>3 DEF Goto, Knows
  <2>5. QED
    BY <1>1, <2>2, <2>3, <2>4, OneTickMoves
<1>3. CASE tick[t].at \notin {"attempt", "confirm", "receipt"}
  <2>1. Goto(t, Idle)
    BY <1>3 DEF Throw
  <2>2. Knows(t)' /\ Idle.at \notin Underway
    BY <1>0, <2>1 DEF Goto, Knows, Idle, Underway
  <2>3. QED
    BY <1>1, <2>1, <2>2, OneTickMoves
<1>4. QED
  BY <1>2, <1>3

LEMMA CrashKeeps ==
    ASSUME ReceiptInv, NEW p \in Processes, Crash(p)
    PROVE  ReceiptInv'
<1>1. /\ tick' = [t \in Ticks |-> IF ProcessOf[t] = p THEN Idle ELSE tick[t]]
      /\ UNCHANGED <<landed, receipts>>
  BY DEF Crash
<1>2. \A t \in Ticks : Shaped' /\ Knows(t)'
  BY <1>1 DEF ReceiptInv, Shaped, Knows, TxOf, Record, Idle, Underway
<1>3. Shaped'
  BY <1>1 DEF ReceiptInv, Shaped, Idle, Underway
<1>4. QED
  BY <1>1, <1>2, <1>3 DEF ReceiptInv, ReceiptsAreReal, Record, IsSeq

LEMMA LeaseRunsOutKeeps ==
    ASSUME ReceiptInv, NEW s \in Slots, LeaseRunsOut(s)
    PROVE  ReceiptInv'
<1>1. /\ DOMAIN tick' = Ticks
      /\ \A t \in Ticks :
            \/ tick'[t] = tick[t]
            \/ Attempts(t, s) /\ tick'[t] = [tick[t] EXCEPT !.late = TRUE]
      /\ UNCHANGED <<landed, receipts>>
  BY DEF LeaseRunsOut
<1>2. ASSUME NEW t \in Ticks
      PROVE  /\ tick'[t].at \in Underway => DOMAIN tick'[t] = AttemptFields
             /\ Knows(t)'
  <2>1. CASE tick'[t] = tick[t]
    BY <1>1, <2>1 DEF ReceiptInv, Shaped, Knows, TxOf, Record
  <2>2. CASE Attempts(t, s) /\ tick'[t] = [tick[t] EXCEPT !.late = TRUE]
    <3>1. DOMAIN tick[t] = AttemptFields
      BY <2>2 DEF ReceiptInv, Shaped, Attempts, Underway
    <3>2. /\ DOMAIN tick'[t] = AttemptFields
          /\ tick'[t].at = tick[t].at /\ tick'[t].outcome = tick[t].outcome
          /\ tick'[t].sig = tick[t].sig /\ tick'[t].slot = tick[t].slot
          /\ tick'[t].plan = tick[t].plan
      BY <2>2, <3>1 DEF AttemptFields
    <3>3. QED
      BY <1>1, <3>2 DEF ReceiptInv, Knows, TxOf, Record
  <2>3. QED
    BY <1>1, <2>1, <2>2
<1>3. QED
  BY <1>1, <1>2 DEF ReceiptInv, Shaped, ReceiptsAreReal, Record, IsSeq

LEMMA OthersKeep ==
    ASSUME ReceiptInv, UNCHANGED <<tick, landed, receipts>>
    PROVE  ReceiptInv'
BY DEF ReceiptInv, Shaped, Knows, TxOf, ReceiptsAreReal, Record, IsSeq
LEMMA ReceiptStep == ReceiptInv /\ [KeeperNext]_allVars => ReceiptInv'
<1> SUFFICES ASSUME ReceiptInv, [KeeperNext]_allVars PROVE ReceiptInv'
  OBVIOUS
<1>1. ASSUME NEW t \in Ticks, Runs(t) PROVE ReceiptInv'
  BY <1>1, RunKeeps
<1>2. ASSUME NEW t \in Ticks, Answered(t) PROVE ReceiptInv'
  <2>1. PICK out \in SwapOuts : Land(t, out) \/ Revert(t, out)
    BY <1>2 DEF Answered
  <2>2. CASE Land(t, out)
    BY <2>2, LandKeeps
  <2>3. CASE Revert(t, out)
    <3>1. Sent(t) /\ Goto(t, [tick[t] EXCEPT !.outcome = "failed"])
      BY <2>3 DEF Revert
    <3>2. UNCHANGED <<landed, receipts>>
      BY <2>3 DEF Revert
    <3>3. QED
      BY <3>1, <3>2, RefusalKeeps
  <2>4. QED
    BY <2>1, <2>2, <2>3
<1>3. ASSUME NEW t \in Ticks, NEW out \in SwapOuts, LandLoose(t, out) PROVE ReceiptInv'
  BY <1>3, LandLooseKeeps
<1>4. ASSUME NEW t \in Ticks, DropLoose(t) PROVE ReceiptInv'
  BY <1>4, OthersKeep DEF DropLoose
<1>5. ASSUME NEW s \in Slots, LeaseRunsOut(s) PROVE ReceiptInv'
  BY <1>5, LeaseRunsOutKeeps
<1>6. CASE RefreshFeed \/ FeedAges
  BY <1>6, OthersKeep DEF RefreshFeed, FeedAges
<1>7. CASE World
  BY <1>7, OthersKeep DEF World, keeperVars
<1>8. ASSUME NEW t \in Ticks, Throw(t) \/ Drop(t) PROVE ReceiptInv'
  <2>1. CASE Throw(t)
    BY <2>1, ThrowKeeps
  <2>2. CASE Drop(t)
    <3>1. Sent(t) /\ Goto(t, [tick[t] EXCEPT !.outcome = "dropped"])
      BY <2>2 DEF Drop
    <3>2. UNCHANGED <<landed, receipts>>
      BY <2>2 DEF Drop
    <3>3. QED
      BY <3>1, <3>2, RefusalKeeps
  <2>3. QED
    BY <1>8, <2>1, <2>2
<1>9. ASSUME NEW p \in Processes, Crash(p) PROVE ReceiptInv'
  BY <1>9, CrashKeeps
<1>10. CASE UNCHANGED allVars
  BY <1>10, OthersKeep DEF allVars, keeperVars
<1>11. QED
  BY <1>1, <1>2, <1>3, <1>4, <1>5, <1>6, <1>7, <1>8, <1>9, <1>10
     DEF KeeperNext, SmoothNext, Fails

(* Whatever ticks overlap, throw, die or are told late, a row of receipts
   is of a fill that landed, and no fill has two rows. *)
THEOREM ReceiptsAlwaysReal == KeeperSpec => []ReceiptsAreReal
<1>1. ReceiptInv => ReceiptsAreReal
  BY DEF ReceiptInv
<1>2. QED
  BY <1>1, ReceiptInit, ReceiptStep, PTL DEF KeeperSpec

-----------------------------------------------------------------------------
(* The leases. *)

(* No two ticks work under one identity. *)
OwnIdentities == \A t, u \in Ticks : t # u => Me(t) # Me(u)

(* An attempt whose lease has not run out has the row of its order. *)
Holds(t) ==
    (tick[t].at \in {"attempt", "confirm", "receipt"} /\ ~tick[t].late)
        => /\ tick[t].slot \in DOMAIN leases
           /\ leases[tick[t].slot].worker = Me(t)
           /\ ~leases[tick[t].slot].expired

LeaseInv == Shaped /\ \A t \in Ticks : Holds(t)

LEMMA LeaseInit == KeeperInit => LeaseInv
BY DEF KeeperInit, LeaseInv, Shaped, Holds, Idle, Underway

LEMMA LeaseInvExcludes == OwnIdentities /\ LeaseInv => OneAttempt
BY DEF OwnIdentities, LeaseInv, Holds, OneAttempt, Attempts

(* A tick moves and leaves the rows of the others alone. *)
LEMMA LeaseMove ==
    ASSUME LeaseInv, NEW t \in Ticks, NEW state, Goto(t, state),
           state.at \in Underway => DOMAIN state = AttemptFields,
           Holds(t)',
           \A u \in Ticks, s \in DOMAIN leases :
              (u # t /\ leases[s].worker = Me(u) /\ ~leases[s].expired)
                 => s \in DOMAIN leases' /\ leases'[s] = leases[s]
    PROVE  LeaseInv'
<1>1. /\ DOMAIN tick' = Ticks /\ tick'[t] = state
      /\ \A u \in Ticks : u # t => tick'[u] = tick[u]
  BY DEF LeaseInv, Shaped, Goto
<1>2. Shaped'
  BY <1>1 DEF LeaseInv, Shaped
<1>3. ASSUME NEW u \in Ticks, u # t PROVE Holds(u)'
  <2>1. Holds(u) /\ tick'[u] = tick[u]
    BY <1>1, <1>3 DEF LeaseInv
  <2>2. QED
    BY <1>3, <2>1 DEF Holds, Me
<1>4. QED
  BY <1>2, <1>3 DEF LeaseInv
LEMMA TakeLeaseHolds ==
    ASSUME OwnIdentities, LeaseInv, NEW t \in Ticks, TakeLease(t)
    PROVE  LeaseInv'
<1> DEFINE s   == tick[t].slot
           row == [worker |-> Me(t), filled |-> tick[t].items[s].filled, expired |-> FALSE]
<1>0. DOMAIN tick = Ticks /\ DOMAIN tick[t] = AttemptFields
  BY DEF LeaseInv, Shaped, TakeLease, Underway
<1>1. CASE /\ ~LeaseHeld(s, Me(t), tick[t].items[s].filled)
           /\ leases' = Upsert(s, row)
           /\ Goto(t, At(t, "attempt"))
  <2>1. /\ DOMAIN leases' = DOMAIN leases \cup {s}
        /\ leases'[s] = row
        /\ \A r \in DOMAIN leases : r # s => leases'[r] = leases[r]
    BY <1>1 DEF Upsert
  <2>2. /\ At(t, "attempt").at = "attempt" /\ DOMAIN At(t, "attempt") = AttemptFields
        /\ At(t, "attempt").slot = s
    BY <1>0 DEF At, AttemptFields
  <2>3. Holds(t)'
    <3>1. tick'[t] = At(t, "attempt")
      BY <1>0, <1>1 DEF Goto
    <3>2. QED
      BY <2>1, <2>2, <3>1 DEF Holds, Me
  <2>4. ASSUME NEW u \in Ticks, NEW r \in DOMAIN leases,
               u # t, leases[r].worker = Me(u), ~leases[r].expired
        PROVE  r \in DOMAIN leases' /\ leases'[r] = leases[r]
    <3>1. r # s
      BY <1>1, <2>4 DEF LeaseHeld, OwnIdentities
    <3>2. QED
      BY <2>1, <3>1
  <2>5. QED
    BY <1>1, <2>2, <2>3, <2>4, LeaseMove
<1>2. CASE Goto(t, NextOrder(t, s)) /\ UNCHANGED leases
  <2>1. NextOrder(t, s).at = "orders"
    BY DEF NextOrder
  <2>2. Holds(t)'
    BY <1>0, <1>2, <2>1 DEF Goto, Holds
  <2>3. QED
    BY <1>2, <2>1, <2>2, LeaseMove DEF Underway
<1>3. QED
  BY <1>1, <1>2 DEF TakeLease

LEMMA ReleaseHolds ==
    ASSUME OwnIdentities, LeaseInv, NEW t \in Ticks, Release(t)
    PROVE  LeaseInv'
<1>1. PICK state \in {Idle, NextOrder(t, tick[t].slot)} : Goto(t, state)
  BY DEF Release
<1>2. state.at \in {"idle", "orders"}
  BY <1>1 DEF Idle, NextOrder
<1>3. leases' = Restrict(leases, {r \in DOMAIN leases :
                                    r # tick[t].slot \/ leases[r].worker # Me(t)})
  BY DEF Release
<1>4. ASSUME NEW u \in Ticks, NEW r \in DOMAIN leases, u # t, leases[r].worker = Me(u)
      PROVE  r \in DOMAIN leases' /\ leases'[r] = leases[r]
  BY <1>3, <1>4 DEF Restrict, OwnIdentities
<1>5. Holds(t)'
  BY <1>1, <1>2 DEF LeaseInv, Shaped, Goto, Holds
<1>6. QED
  BY <1>1, <1>2, <1>4, <1>5, LeaseMove DEF Underway

(* The steps in which the tick keeps the rows as they are and its attempt,
   if it is in one, was one before. *)
LEMMA QuietMove ==
    ASSUME LeaseInv, NEW t \in Ticks, NEW state, Goto(t, state), UNCHANGED leases,
           state.at \in Underway => DOMAIN state = AttemptFields,
           state.at \in {"attempt", "confirm", "receipt"}
             => /\ tick[t].at \in {"attempt", "confirm", "receipt"}
                /\ state.slot = tick[t].slot /\ state.late = tick[t].late
    PROVE  LeaseInv'
<1>1. tick'[t] = state
  BY DEF LeaseInv, Shaped, Goto
<1>2. Holds(t)'
  BY <1>1 DEF LeaseInv, Holds, Me
<1>3. QED
  BY <1>2, LeaseMove

LEMMA LeaseRunsOutHolds ==
    ASSUME LeaseInv, NEW s \in Slots, LeaseRunsOut(s)
    PROVE  LeaseInv'
<1>1. /\ s \in DOMAIN leases
      /\ DOMAIN leases' = DOMAIN leases
      /\ \A r \in DOMAIN leases : r # s => leases'[r] = leases[r]
      /\ DOMAIN tick' = Ticks
      /\ \A t \in Ticks :
            tick'[t] = IF Attempts(t, s) /\ Me(t) = leases[s].worker
                       THEN [tick[t] EXCEPT !.late = TRUE] ELSE tick[t]
  BY DEF LeaseRunsOut
<1>2. ASSUME NEW t \in Ticks
      PROVE  (tick'[t].at \in Underway => DOMAIN tick'[t] = AttemptFields) /\ Holds(t)'
  <2>1. CASE Attempts(t, s) /\ Me(t) = leases[s].worker
    <3>1. tick'[t] = [tick[t] EXCEPT !.late = TRUE] /\ DOMAIN tick[t] = AttemptFields
      BY <1>1, <2>1 DEF LeaseInv, Shaped, Attempts, Underway
    <3>2. DOMAIN tick'[t] = AttemptFields /\ tick'[t].late = TRUE
      BY <3>1 DEF AttemptFields
    <3>3. QED
      BY <3>2 DEF Holds
  <2>2. CASE ~(Attempts(t, s) /\ Me(t) = leases[s].worker)
    <3>1. tick'[t] = tick[t]
      BY <1>1, <2>2
    <3>2. CASE tick[t].at \in {"attempt", "confirm", "receipt"} /\ ~tick[t].late
      <4>1. tick[t].slot # s
        BY <2>2, <3>2 DEF LeaseInv, Holds, Attempts
      <4>2. QED
        BY <1>1, <3>1, <3>2, <4>1 DEF LeaseInv, Shaped, Holds, Me
    <3>3. CASE ~(tick[t].at \in {"attempt", "confirm", "receipt"} /\ ~tick[t].late)
      BY <3>1, <3>3 DEF LeaseInv, Shaped, Holds
    <3>4. QED
      BY <3>2, <3>3
  <2>3. QED
    BY <2>1, <2>2
<1>3. QED
  BY <1>1, <1>2 DEF LeaseInv, Shaped
LEMMA RunHolds ==
    ASSUME OwnIdentities, LeaseInv, NEW t \in Ticks, Runs(t)
    PROVE  LeaseInv'
<1> DEFINE Attempting == {"attempt", "confirm", "receipt"}
           Quiet(state) ==
             /\ Goto(t, state)
             /\ UNCHANGED leases
             /\ state.at \in Underway => DOMAIN state = AttemptFields
             /\ state.at \in Attempting
                  => /\ tick[t].at \in Attempting
                     /\ state.slot = tick[t].slot /\ state.late = tick[t].late
<1>0. tick[t].at \in Underway => DOMAIN tick[t] = AttemptFields
  BY DEF LeaseInv, Shaped
<1>q. ASSUME NEW state, Quiet(state) PROVE LeaseInv'
  BY <1>q, QuietMove
<1>1. CASE ReadIssuer(t)
  <2>1. Quiet([at |-> "judge", seen |-> mint])
    BY <1>1 DEF ReadIssuer, Underway
  <2>2. QED
    BY <2>1, <1>q
<1>2. CASE JudgeIssuer(t)
  <2> DEFINE halt == HaltFromIssuer(tick[t].seen, baseline[ProcessOf[t]]) # "none"
  <2>1. Quiet([at |-> "feed", halt |-> halt])
    BY <1>2 DEF JudgeIssuer, Underway
  <2>2. QED
    BY <2>1, <1>q
<1>3. CASE CheckFeed(t)
  <2>1. PICK state \in {[at |-> "load"], Idle} : Goto(t, state)
    BY <1>3 DEF CheckFeed
  <2>2. Quiet(state)
    BY <1>3, <2>1 DEF CheckFeed, Underway, Idle
  <2>3. QED
    BY <2>2, <1>q
<1>4. CASE LoadOrders(t)
  <2>1. \E time \in HostTimes :
            Quiet([at    |-> "orders",
                   now   |-> time,
                   items |-> [s \in {r \in Slots : IsOpen(r)} |-> order[s]]])
    BY <1>4 DEF LoadOrders, LoadOrdersAt, Underway
  <2>2. QED
    BY <2>1, <1>q
<1>5. ASSUME NEW s \in Slots, NEW out \in SwapOuts, PlanOrder(t, s, out)
      PROVE  LeaseInv'
  <2> DEFINE plan == PlanFor(tick[t].items[s], tick[t].now, out)
             taken == [at |-> "lease", now |-> tick[t].now,
                       items |-> tick[t].items, slot |-> s, plan |-> plan,
                       outcome |-> "unsent", sig |-> 0, failed |-> FALSE,
                       late |-> FALSE]
  <2>1. taken.at = "lease" /\ DOMAIN taken = AttemptFields
    BY DEF AttemptFields
  <2>2. NextOrder(t, s).at = "orders"
    BY DEF NextOrder
  <2>3. PICK state \in {taken, NextOrder(t, s)} : Goto(t, state)
    BY <1>5 DEF PlanOrder
  <2>4. UNCHANGED leases
    BY <1>5 DEF PlanOrder
  <2>5. Quiet(state)
    BY <2>1, <2>2, <2>3, <2>4 DEF Underway
  <2>6. QED
    BY <2>5, <1>q
<1>6. CASE TakeLease(t)
  BY <1>6, TakeLeaseHolds
<1>7. ASSUME NEW out \in SwapOuts, SendFill(t, out)
      PROVE  LeaseInv'
  <2> DEFINE sending == [At(t, "confirm") EXCEPT !.outcome = "sent"]
  <2>1. tick[t].at = "attempt" /\ DOMAIN tick[t] = AttemptFields
    BY <1>0, <1>7 DEF SendFill, SendFillAt, Underway
  <2>2. PICK state \in {sending, At(t, "release")} : Goto(t, state)
    BY <1>7 DEF SendFill, SendFillAt
  <2>3. /\ DOMAIN state = AttemptFields
        /\ state.slot = tick[t].slot /\ state.late = tick[t].late
    BY <2>1, <2>2 DEF At, AttemptFields
  <2>4. Quiet(state)
    BY <1>7, <2>1, <2>2, <2>3 DEF SendFill, SendFillAt
  <2>5. QED
    BY <2>4, <1>q
<1>8. CASE Confirm(t)
  <2> DEFINE given == [At(t, "release") EXCEPT !.failed = tick[t].outcome = "dropped"]
  <2>1. tick[t].at = "confirm" /\ DOMAIN tick[t] = AttemptFields
    BY <1>0, <1>8 DEF Confirm, Underway
  <2>2. PICK state \in {given, At(t, "receipt")} : Goto(t, state)
    BY <1>8 DEF Confirm
  <2>3. /\ DOMAIN state = AttemptFields
        /\ state.slot = tick[t].slot /\ state.late = tick[t].late
    BY <2>1, <2>2 DEF At, AttemptFields
  <2>4. Quiet(state)
    BY <1>8, <2>1, <2>2, <2>3 DEF Confirm
  <2>5. QED
    BY <2>4, <1>q
<1>9. CASE PersistReceipt(t)
  <2>1. tick[t].at = "receipt" /\ DOMAIN tick[t] = AttemptFields
    BY <1>0, <1>9 DEF PersistReceipt, Underway
  <2>2. DOMAIN At(t, "release") = AttemptFields /\ At(t, "release").at = "release"
    BY <2>1 DEF At, AttemptFields
  <2>3. Quiet(At(t, "release"))
    BY <1>9, <2>2 DEF PersistReceipt
  <2>4. QED
    BY <2>3, <1>q
<1>10. CASE Release(t)
  BY <1>10, ReleaseHolds
<1>11. CASE Finish(t)
  <2>1. Quiet(Idle)
    BY <1>11 DEF Finish, Underway, Idle
  <2>2. QED
    BY <2>1, <1>q
<1>12. QED
  BY <1>1, <1>2, <1>3, <1>4, <1>5, <1>6, <1>7, <1>8, <1>9, <1>10, <1>11 DEF Runs

(* An answer of the chain, or a failure. *)
LEMMA OutcomeHolds ==
    ASSUME LeaseInv, NEW t \in Ticks, Sent(t), UNCHANGED leases, NEW state,
           Goto(t, state), DOMAIN state = AttemptFields,
           state.at = "confirm", state.slot = tick[t].slot, state.late = tick[t].late
    PROVE  LeaseInv'
BY QuietMove DEF Sent

LEMMA LeaseStep == OwnIdentities /\ LeaseInv /\ [KeeperNext]_allVars => LeaseInv'
<1> SUFFICES ASSUME OwnIdentities, LeaseInv, [KeeperNext]_allVars PROVE LeaseInv'
  OBVIOUS
<1>0. ASSUME NEW t \in Ticks, Sent(t) PROVE DOMAIN tick[t] = AttemptFields
  BY <1>0 DEF Sent, LeaseInv, Shaped, Underway
<1>1. ASSUME NEW t \in Ticks, Runs(t) PROVE LeaseInv'
  BY <1>1, RunHolds
<1>2. ASSUME NEW t \in Ticks, NEW out \in SwapOuts, Land(t, out) PROVE LeaseInv'
  <2> DEFINE state == [tick[t] EXCEPT !.outcome = "landed", !.sig = Len(landed) + 1]
  <2>1. Sent(t) /\ Goto(t, state) /\ UNCHANGED leases
    BY <1>2 DEF Land
  <2>2. /\ DOMAIN state = AttemptFields
        /\ state.at = "confirm" /\ state.slot = tick[t].slot /\ state.late = tick[t].late
    BY <2>1, <1>0 DEF Sent, AttemptFields
  <2>3. QED
    BY <2>1, <2>2, OutcomeHolds
<1>3. ASSUME NEW t \in Ticks, NEW answer \in {"failed", "dropped"}, Sent(t),
             Goto(t, [tick[t] EXCEPT !.outcome = answer]), UNCHANGED leases
      PROVE  LeaseInv'
  <2> DEFINE state == [tick[t] EXCEPT !.outcome = answer]
  <2>1. /\ DOMAIN state = AttemptFields
        /\ state.at = "confirm" /\ state.slot = tick[t].slot /\ state.late = tick[t].late
    BY <1>3, <1>0 DEF Sent, AttemptFields
  <2>2. QED
    BY <1>3, <2>1, OutcomeHolds
<1>4. ASSUME NEW t \in Ticks, NEW out \in SwapOuts, Revert(t, out) PROVE LeaseInv'
  <2>1. Sent(t) /\ Goto(t, [tick[t] EXCEPT !.outcome = "failed"]) /\ UNCHANGED leases
    BY <1>4 DEF Revert
  <2>2. QED
    BY <2>1, <1>3
<1>5. ASSUME NEW t \in Ticks, Drop(t) PROVE LeaseInv'
  <2>1. Sent(t) /\ Goto(t, [tick[t] EXCEPT !.outcome = "dropped"]) /\ UNCHANGED leases
    BY <1>5 DEF Drop
  <2>2. QED
    BY <2>1, <1>3
<1>6. ASSUME NEW t \in Ticks, Throw(t) PROVE LeaseInv'
  <2> DEFINE failing == [At(t, "release") EXCEPT !.failed = TRUE]
  <2>1. UNCHANGED leases
    BY <1>6 DEF Throw
  <2>2. CASE tick[t].at \in {"attempt", "confirm", "receipt"}
    <3>1. DOMAIN tick[t] = AttemptFields
      BY <2>2 DEF LeaseInv, Shaped, Underway
    <3>2. DOMAIN failing = AttemptFields /\ failing.at = "release"
      BY <3>1 DEF At, AttemptFields
    <3>3. Goto(t, failing)
      BY <1>6, <2>2 DEF Throw
    <3>4. QED
      BY <2>1, <3>2, <3>3, QuietMove
  <2>3. CASE tick[t].at \notin {"attempt", "confirm", "receipt"}
    <3>1. Goto(t, Idle) /\ Idle.at = "idle"
      BY <1>6, <2>3 DEF Throw, Idle
    <3>2. QED
      BY <2>1, <3>1, QuietMove DEF Underway
  <2>4. QED
    BY <2>2, <2>3
<1>7. ASSUME NEW p \in Processes, Crash(p) PROVE LeaseInv'
  <2>1. /\ tick' = [t \in Ticks |-> IF ProcessOf[t] = p THEN Idle ELSE tick[t]]
        /\ UNCHANGED leases
    BY <1>7 DEF Crash
  <2>2. QED
    BY <2>1 DEF LeaseInv, Shaped, Holds, Me, Idle, Underway
<1>8. ASSUME NEW s \in Slots, LeaseRunsOut(s) PROVE LeaseInv'
  BY <1>8, LeaseRunsOutHolds
<1>9. ASSUME UNCHANGED <<tick, leases>> PROVE LeaseInv'
  BY <1>9 DEF LeaseInv, Shaped, Holds, Me
<1>10. CASE UNCHANGED allVars \/ World \/ RefreshFeed \/ FeedAges
  BY <1>9, <1>10 DEF allVars, keeperVars, World, RefreshFeed, FeedAges
<1>11. ASSUME NEW t \in Ticks, NEW out \in SwapOuts, LandLoose(t, out)
       PROVE  LeaseInv'
  BY <1>9, <1>11 DEF LandLoose
<1>12. ASSUME NEW t \in Ticks, DropLoose(t) PROVE LeaseInv'
  BY <1>9, <1>12 DEF DropLoose
<1>13. QED
  BY <1>1, <1>2, <1>4, <1>5, <1>6, <1>7, <1>8, <1>10, <1>11, <1>12
     DEF KeeperNext, SmoothNext, Fails, Answered

(* tryLease keeps its promise to workers with identities of their own, one
   tick each: two of them are never in one order's attempt while both of
   their leases last, whatever crashes and throws leave behind. *)
THEOREM OneAttemptAtATime ==
    ASSUME OwnIdentities
    PROVE  KeeperSpec => []OneAttempt
<1>1. LeaseInv /\ [KeeperNext]_allVars => LeaseInv'
  BY LeaseStep
<1>2. LeaseInv => OneAttempt
  BY LeaseInvExcludes
<1>3. QED
  BY <1>1, <1>2, LeaseInit, PTL DEF KeeperSpec
-----------------------------------------------------------------------------
(* The types.  What a tick knows of an order it keeps under the order's slot,
   and what is in flight is a fill of some slot; the balances the types need
   are those of the escrow, whose invariant the keeper's swaps must keep. *)

Snapshots == UNION {ItemsOf(S) : S \in SUBSET Slots}

Plans == [action : {"inventory", "atomic_swap"}, fillSrc : Nat \ {0}, dstRaw : Nat]

Outcomes == {"unsent", "sent", "landed", "failed", "dropped"}

Attempting(n) ==
    [at : Underway, now : Nat, items : Snapshots, slot : Slots, plan : Plans,
     outcome : Outcomes, sig : 0..n, failed : BOOLEAN, late : BOOLEAN]

Txs == [slot : Slots, size : Nat \ {0}, pay : Nat, swap : BOOLEAN]

HoldsItsOrder(t) == tick[t].at \in Underway => tick[t].slot \in DOMAIN tick[t].items

TicksTyped ==
    /\ tick \in [Ticks -> Stations]
    /\ \A t \in Ticks : HoldsItsOrder(t)
    /\ Len(landed) \in Nat

RowsTyped ==
    /\ baseline \in [Processes -> FeeRates \cup {NoFee}]
    /\ DOMAIN leases \subseteq Slots
    /\ Range(leases) \subseteq [worker : Range(WorkerOf), filled : U64, expired : BOOLEAN]
    /\ feed \in {"fresh", "stale"}
    /\ loose \in [Ticks -> Txs \cup {NoTx}]

TypeInv == Inv /\ TicksTyped /\ RowsTyped

LEMMA TypeInit == KeeperInit => TypeInv
<1> SUFFICES ASSUME KeeperInit PROVE TypeInv
  OBVIOUS
<1>1. Inv
  BY InitInv DEF KeeperInit
<1>2. TicksTyped
  BY DEF KeeperInit, TicksTyped, HoldsItsOrder, Stations, Idle, Underway
<1>3. RowsTyped
  BY DEF KeeperInit, RowsTyped, Range
<1>4. QED
  BY <1>1, <1>2, <1>3 DEF TypeInv

(* A tick with an attempt under way has the record of one. *)
LEMMA UnderwayTyped ==
    ASSUME TicksTyped, NEW t \in Ticks, tick[t].at \in Underway
    PROVE  tick[t] \in Attempting(Len(landed))
BY DEF TicksTyped, Stations, Attempting, Underway, Snapshots, Plans, Outcomes

LEMMA AttemptIsStation ==
    ASSUME NEW x \in Attempting(Len(landed))
    PROVE  x \in Stations
BY DEF Attempting, Stations, Underway, Snapshots, Plans, Outcomes

LEMMA TxTyped ==
    ASSUME TicksTyped, NEW t \in Ticks, tick[t].at \in Underway
    PROVE  TxOf(t) \in Txs
<1>1. tick[t] \in Attempting(Len(landed))
  BY UnderwayTyped
<1>2. tick[t].slot \in Slots /\ tick[t].plan \in Plans
  BY <1>1 DEF Attempting
<1>3. tick[t].plan.fillSrc \in Nat \ {0} /\ tick[t].plan.dstRaw \in Nat
  BY <1>2 DEF Plans
<1>4. QED
  BY <1>2, <1>3 DEF TxOf, Txs

(* The swap of an atomic transaction moves the keeper's own tokens; the fill
   that follows keeps the escrow's invariant on the balances it finds. *)
LEMMA ExecuteKeeps ==
    ASSUME Inv, NEW tx \in Txs, NEW out \in SwapOuts, Execute(tx, out)
    PROVE  Inv'
<1>1. /\ tx.slot \in Slots /\ tx.size \in Nat /\ tx.pay \in Nat /\ out \in Nat
      /\ KeeperWallet \in Users
  BY KeeperAssumption DEF Txs
<1>2. src \in [Users -> Nat] /\ dst \in [Users -> Nat]
  BY DEF Inv, TypeOK
<1>3. CASE Fill(tx.slot, KeeperWallet, tx.size, tx.pay)
  BY <1>1, <1>2, <1>3, FillFromInv DEF Fill
<1>4. CASE /\ src[KeeperWallet] >= tx.size
           /\ FillFrom(tx.slot, KeeperWallet, tx.size, tx.pay,
                       [src EXCEPT ![KeeperWallet] = @ - tx.size],
                       [dst EXCEPT ![KeeperWallet] = @ + out])
  <2>1. /\ [src EXCEPT ![KeeperWallet] = @ - tx.size] \in [Users -> Nat]
        /\ [dst EXCEPT ![KeeperWallet] = @ + out] \in [Users -> Nat]
    BY <1>1, <1>2, <1>4
  <2>2. QED
    BY <1>1, <1>4, <2>1, FillFromInv
<1>5. QED
  BY <1>3, <1>4 DEF Execute

LEMMA ChainStep == TypeInv /\ [KeeperNext]_allVars => Inv'
<1> SUFFICES ASSUME TypeInv, [KeeperNext]_allVars PROVE Inv'
  OBVIOUS
<1>0. Inv /\ ([Next]_vars => Inv')
  BY NextInv DEF TypeInv
<1>1. ASSUME NEW t \in Ticks, Runs(t) PROVE UNCHANGED vars
  BY <1>1 DEF Runs, ReadIssuer, JudgeIssuer, CheckFeed, LoadOrders, LoadOrdersAt,
     PlanOrder, TakeLease, SendFill, SendFillAt, Confirm, PersistReceipt, Release,
     Finish
<1>2. ASSUME NEW t \in Ticks, NEW out \in SwapOuts, Land(t, out) PROVE Inv'
  <2>1. TxOf(t) \in Txs
    BY <1>2, TxTyped DEF Land, Sent, TypeInv, Underway
  <2>2. QED
    BY <1>0, <1>2, <2>1, ExecuteKeeps DEF Land
<1>3. ASSUME NEW t \in Ticks, NEW out \in SwapOuts, LandLoose(t, out) PROVE Inv'
  <2>1. loose[t] \in Txs
    BY <1>3 DEF LandLoose, TypeInv, RowsTyped
  <2>2. QED
    BY <1>0, <1>3, <2>1, ExecuteKeeps DEF LandLoose
<1>4. CASE World
  <2>1. Next
    BY <1>4 DEF World, Next
  <2>2. QED
    BY <1>0, <2>1
<1>5. ASSUME NEW t \in Ticks, NEW out \in SwapOuts, Revert(t, out) PROVE UNCHANGED vars
  BY <1>5 DEF Revert
<1>6. ASSUME NEW t \in Ticks, DropLoose(t) \/ Throw(t) \/ Drop(t) PROVE UNCHANGED vars
  BY <1>6 DEF DropLoose, Throw, Drop
<1>7. ASSUME NEW s \in Slots, LeaseRunsOut(s) PROVE UNCHANGED vars
  BY <1>7 DEF LeaseRunsOut
<1>8. ASSUME NEW p \in Processes, Crash(p) PROVE UNCHANGED vars
  BY <1>8 DEF Crash
<1>9. ASSUME RefreshFeed \/ FeedAges \/ UNCHANGED allVars PROVE UNCHANGED vars
  BY <1>9 DEF RefreshFeed, FeedAges, allVars
<1>10. QED
  BY <1>0, <1>1, <1>2, <1>3, <1>4, <1>5, <1>6, <1>7, <1>8, <1>9
     DEF KeeperNext, SmoothNext, Answered, Fails

(* One tick moves to a place of its type. *)
LEMMA TypedMove ==
    ASSUME TicksTyped, NEW t \in Ticks, NEW state, Goto(t, state), UNCHANGED landed,
           state \in Stations,
           state.at \in Underway => state.slot \in DOMAIN state.items
    PROVE  TicksTyped'
<1>1. tick' \in [Ticks -> Stations]
  BY DEF TicksTyped, Goto
<1>2. Stations' = Stations
  BY DEF Stations
<1>3. \A u \in Ticks : HoldsItsOrder(u)'
  BY DEF TicksTyped, Goto, HoldsItsOrder
<1>4. QED
  BY <1>1, <1>2, <1>3 DEF TicksTyped

(* An attempt goes on with another place, outcome or mark. *)
LEMMA AttemptMove ==
    ASSUME TicksTyped, NEW t \in Ticks, tick[t].at \in Underway, NEW at \in Underway,
           NEW outcome \in Outcomes, NEW failed \in BOOLEAN,
           UNCHANGED landed,
           Goto(t, [tick[t] EXCEPT !.at = at, !.outcome = outcome, !.failed = failed])
    PROVE  TicksTyped'
<1> DEFINE state == [tick[t] EXCEPT !.at = at, !.outcome = outcome, !.failed = failed]
<1>1. tick[t] \in Attempting(Len(landed))
  BY UnderwayTyped
<1>2. state \in Attempting(Len(landed))
  BY <1>1 DEF Attempting
<1>3. state \in Stations
  BY <1>2, AttemptIsStation
<1>4. state.slot = tick[t].slot /\ state.items = tick[t].items
  BY <1>1 DEF Attempting
<1>5. state.slot \in DOMAIN state.items
  BY <1>4 DEF TicksTyped, HoldsItsOrder
<1> HIDE DEF state
<1>6. Goto(t, state)
  BY DEF state
<1>7. QED
  BY <1>3, <1>5, <1>6, TypedMove

(* The orders a tick has left are orders, and so are those without one. *)
LEMMA LeftTyped ==
    ASSUME TicksTyped, NEW t \in Ticks, tick[t].at \in Underway \cup {"orders"}, NEW s
    PROVE  /\ tick[t].now \in Nat /\ tick[t].items \in Snapshots
           /\ NextOrder(t, s) \in Stations
           /\ NextOrder(t, s).at = "orders"
<1>1. tick[t].now \in Nat /\ tick[t].items \in Snapshots
  <2>1. CASE tick[t].at \in Underway
    BY <2>1, UnderwayTyped DEF Attempting
  <2>2. CASE tick[t].at = "orders"
    BY <2>2 DEF TicksTyped, Stations, Snapshots
  <2>3. QED
    BY <2>1, <2>2
<1>2. PICK S \in SUBSET Slots : tick[t].items \in [S -> Orders]
  BY <1>1 DEF Snapshots, ItemsOf
<1>3. Restrict(tick[t].items, DOMAIN tick[t].items \ {s}) \in ItemsOf(S \ {s})
  BY <1>2 DEF Restrict, ItemsOf
<1>4. NextOrder(t, s) \in Stations
  BY <1>1, <1>2, <1>3 DEF NextOrder, Stations
<1>5. QED
  BY <1>1, <1>4 DEF NextOrder

LEMMA SnapshotItem ==
    ASSUME NEW items \in Snapshots, NEW s \in DOMAIN items
    PROVE  s \in Slots /\ items[s] \in Orders
BY DEF Snapshots, ItemsOf

(* What a plan is, if there is one. *)
LEMMA PlanFacts ==
    ASSUME Inv, NEW o \in Orders, NEW time \in Nat, NEW out \in SwapOuts,
           PlanFor(o, time, out) # Skip
    PROVE  LET plan  == PlanFor(o, time, out)
               left  == o.escrowed - o.filled
               floor == ActiveFloor(time, o.terms)
           IN  /\ plan \in Plans
               /\ left \in Nat
               /\ floor \in Nat
               /\ LegalFill(plan.fillSrc, left, o.terms.minFill)
               /\ plan.dstRaw >= CeilRatio(plan.fillSrc, floor)
               /\ plan.dstRaw <= dst[KeeperWallet] \/ plan.dstRaw <= out
<1> DEFINE plan  == PlanFor(o, time, out)
           left  == o.escrowed - o.filled
           floor == ActiveFloor(time, o.terms)
           size  == FillSize(left, SpendCap, o.terms.minFill)
           minDst == CeilRatio(size, floor)
           quote == QuoteFor(size, out)
           held  == dst[KeeperWallet]
<1>1. /\ o.escrowed \in Nat /\ o.filled \in Nat /\ o.terms.minFill \in Nat
      /\ o.terms.minRatio \in Nat /\ o.terms.failsafeFloor \in Nat
  BY OrderTyped
<1>2. left > 0 /\ plan = ChooseFillPlan(left, SpendCap, o.terms.minFill, floor,
                                        held, quote, Unquoted)
  BY <1>1 DEF PlanFor
<1>3. left \in Nat /\ floor \in Nat
  BY <1>1, <1>2 DEF ActiveFloor
<1>4. SpendCap \in Nat /\ Unquoted \in BOOLEAN /\ held \in Nat /\ out \in Nat
  BY KeeperAssumption DEF Inv, TypeOK
<1>5. size \in Nat
  BY <1>1, <1>3, <1>4 DEF FillSize, NoFill
<1>6. minDst \in Nat
  <2>1. size * floor \in Nat
    BY <1>3, <1>5
  <2>2. QED
    BY <2>1, ScaleAssumption, CeilDivBounds DEF CeilRatio
<1>7. quote \in [in : Nat, out : Nat] /\ quote.in \in {0, size} /\ quote.out <= out
  BY <1>4, <1>5 DEF QuoteFor, NoQuote
<1>8. size # NoFill /\ plan \in {Plan("inventory", size, minDst),
                                 Plan("atomic_swap", size, quote.out)}
  BY <1>2 DEF ChooseFillPlan
<1>9. plan.action # "skip" /\ plan \in Plans
  BY <1>5, <1>6, <1>7, <1>8 DEF Plan, Plans, NoFill
<1> HIDE DEF plan, left, floor, size, minDst, quote, held
<1>10. /\ LegalFill(plan.fillSrc, left, o.terms.minFill)
       /\ plan.dstRaw >= CeilRatio(plan.fillSrc, floor)
       /\ plan.dstRaw <= IF plan.action = "inventory" THEN held ELSE quote.out
  BY <1>1, <1>2, <1>3, <1>4, <1>7, <1>9, PlanAcceptable DEF size
<1>11. plan.dstRaw \in Nat
  BY <1>9 DEF Plans
<1>12. plan.dstRaw <= held \/ plan.dstRaw <= out
  BY <1>4, <1>7, <1>10, <1>11
<1>13. QED
  BY <1>3, <1>9, <1>10, <1>12 DEF plan, left, floor, held

LEMMA RunTyped ==
    ASSUME TypeInv, NEW t \in Ticks, Runs(t)
    PROVE  TicksTyped'
<1>0. TicksTyped /\ Inv /\ now \in Nat /\ mint \in Mints
  BY DEF TypeInv, Inv, TypeOK
<1>1. CASE ReadIssuer(t)
  <2>1. [at |-> "judge", seen |-> mint] \in Stations
    BY <1>0 DEF Stations
  <2>2. QED
    BY <1>0, <1>1, <2>1, TypedMove DEF ReadIssuer, Underway
<1>2. CASE JudgeIssuer(t)
  <2> DEFINE state == [at |-> "feed",
                       halt |-> HaltFromIssuer(tick[t].seen, baseline[ProcessOf[t]]) # "none"]
  <2>1. state \in Stations /\ state.at \notin Underway
    BY DEF Stations, Underway
  <2>2. Goto(t, state) /\ UNCHANGED landed
    BY <1>2 DEF JudgeIssuer
  <2>3. QED
    BY <1>0, <2>1, <2>2, TypedMove
<1>3. CASE CheckFeed(t)
  <2>1. PICK state \in {[at |-> "load"], Idle} : Goto(t, state)
    BY <1>3 DEF CheckFeed
  <2>2. state \in Stations /\ state.at \notin Underway
    BY DEF Stations, Underway, Idle
  <2>3. QED
    BY <1>0, <1>3, <2>1, <2>2, TypedMove DEF CheckFeed
<1>4. CASE LoadOrders(t)
  <2> DEFINE open == {r \in Slots : IsOpen(r)}
             items == [s \in open |-> order[s]]
             state(time) == [at |-> "orders", now |-> time, items |-> items]
  <2>1. items \in ItemsOf(open)
    BY <1>0, OpenTyped DEF Inv, ItemsOf
  <2>2. PICK time \in HostTimes : Goto(t, state(time)) /\ UNCHANGED landed
    BY <1>4 DEF LoadOrders, LoadOrdersAt
  <2>3. state(time) \in Stations /\ state(time).at \notin Underway
    BY <2>1, KeeperAssumption DEF Stations, Underway
  <2>4. QED
    BY <1>0, <2>2, <2>3, TypedMove
<1>5. ASSUME NEW s \in Slots, NEW out \in SwapOuts, PlanOrder(t, s, out)
      PROVE  TicksTyped'
  <2> DEFINE plan == PlanFor(tick[t].items[s], tick[t].now, out)
             state == [at |-> "lease", now |-> tick[t].now,
                       items |-> tick[t].items, slot |-> s, plan |-> plan,
                       outcome |-> "unsent", sig |-> 0, failed |-> FALSE,
                       late |-> FALSE]
  <2>1. /\ tick[t].at = "orders" /\ s \in DOMAIN tick[t].items
        /\ UNCHANGED landed
        /\ \/ Goto(t, NextOrder(t, s))
           \/ plan # Skip /\ Goto(t, state)
    BY <1>5 DEF PlanOrder
  <2>2. CASE Goto(t, NextOrder(t, s))
    BY <1>0, <2>1, <2>2, LeftTyped, TypedMove DEF Underway
  <2>3. CASE plan # Skip /\ Goto(t, state)
    <3>1. tick[t].now \in Nat /\ tick[t].items \in Snapshots
      BY <1>0, <2>1, LeftTyped
    <3>2. tick[t].items[s] \in Orders
      BY <2>1, <3>1, SnapshotItem
    <3>3. plan \in Plans
      BY <1>0, <2>3, <3>1, <3>2, PlanFacts
    <3> HIDE DEF plan
    <3>4. state \in Attempting(Len(landed))
      BY <1>0, <3>1, <3>3 DEF Attempting, Underway, Outcomes, TicksTyped
    <3>5. state \in Stations /\ state.slot \in DOMAIN state.items
      BY <2>1, <3>4, AttemptIsStation
    <3> HIDE DEF state
    <3>6. QED
      BY <1>0, <2>1, <2>3, <3>5, TypedMove
  <2>4. QED
    BY <2>1, <2>2, <2>3
<1>6. ASSUME tick[t].at \in Underway, UNCHANGED landed, NEW at \in Underway,
             NEW outcome \in Outcomes, NEW failed \in BOOLEAN,
             Goto(t, [tick[t] EXCEPT !.at = at, !.outcome = outcome, !.failed = failed])
      PROVE  TicksTyped'
  BY <1>0, <1>6, AttemptMove
<1>7. ASSUME tick[t].at \in Underway
      PROVE  /\ tick[t] \in Attempting(Len(landed))
             /\ tick[t].outcome \in Outcomes /\ tick[t].failed \in BOOLEAN
             /\ \A at \in Underway :
                  At(t, at) = [tick[t] EXCEPT !.at = at, !.outcome = tick[t].outcome,
                                              !.failed = tick[t].failed]
  <2>1. tick[t] \in Attempting(Len(landed))
    BY <1>0, <1>7, UnderwayTyped
  <2>2. QED
    BY <2>1 DEF Attempting, At
<1>8. ASSUME tick[t].at \in Underway, UNCHANGED landed, NEW at \in Underway,
             Goto(t, At(t, at))
      PROVE  TicksTyped'
  <2> DEFINE outcome == tick[t].outcome
             failed == tick[t].failed
  <2>1. outcome \in Outcomes /\ failed \in BOOLEAN
    BY <1>7, <1>8
  <2>2. At(t, at) = [tick[t] EXCEPT !.at = at, !.outcome = outcome, !.failed = failed]
    BY <1>7, <1>8
  <2>3. Goto(t, [tick[t] EXCEPT !.at = at, !.outcome = outcome, !.failed = failed])
    BY <1>8, <2>2 DEF Goto
  <2> HIDE DEF outcome, failed
  <2>4. QED
    BY <1>0, <1>8, <2>1, <2>3, AttemptMove
<1>9. CASE TakeLease(t)
  <2>1. tick[t].at \in Underway /\ UNCHANGED landed
    BY <1>9 DEF TakeLease, Underway
  <2>2. CASE Goto(t, At(t, "attempt"))
    BY <1>8, <2>1, <2>2 DEF Underway
  <2>3. CASE Goto(t, NextOrder(t, tick[t].slot))
    BY <1>0, <2>1, <2>3, LeftTyped, TypedMove DEF Underway
  <2>4. QED
    BY <1>9, <2>2, <2>3 DEF TakeLease
<1>10. ASSUME NEW out \in SwapOuts, SendFill(t, out)
       PROVE  TicksTyped'
  <2>1. tick[t].at \in Underway /\ UNCHANGED landed
    BY <1>10 DEF SendFill, SendFillAt, Underway
  <2>2. CASE Goto(t, [At(t, "confirm") EXCEPT !.outcome = "sent"])
    <3>1. [At(t, "confirm") EXCEPT !.outcome = "sent"]
            = [tick[t] EXCEPT !.at = "confirm", !.outcome = "sent",
                              !.failed = tick[t].failed]
      BY <1>7, <2>1 DEF At, Attempting
    <3>2. QED
      BY <1>6, <1>7, <2>1, <2>2, <3>1 DEF Underway, Outcomes
  <2>3. CASE Goto(t, At(t, "release"))
    BY <1>8, <2>1, <2>3 DEF Underway
  <2>4. QED
    BY <1>10, <2>2, <2>3 DEF SendFill, SendFillAt
<1>11. CASE Confirm(t)
  <2> DEFINE failed == tick[t].outcome = "dropped"
  <2>1. tick[t].at \in Underway /\ UNCHANGED landed
    BY <1>11 DEF Confirm, Underway
  <2>2. CASE Goto(t, At(t, "receipt"))
    BY <1>8, <2>1, <2>2 DEF Underway
  <2>3. CASE Goto(t, [At(t, "release") EXCEPT !.failed = failed])
    <3>1. [At(t, "release") EXCEPT !.failed = failed]
            = [tick[t] EXCEPT !.at = "release", !.outcome = tick[t].outcome,
                              !.failed = failed]
      BY <1>7, <2>1 DEF At, Attempting
    <3>2. QED
      BY <1>6, <1>7, <2>1, <2>3, <3>1 DEF Underway
  <2>4. QED
    BY <1>11, <2>2, <2>3 DEF Confirm
<1>12. CASE PersistReceipt(t)
  <2>1. tick[t].at \in Underway /\ UNCHANGED landed /\ Goto(t, At(t, "release"))
    BY <1>12 DEF PersistReceipt, Underway
  <2>2. QED
    BY <1>8, <2>1 DEF Underway
<1>13. CASE Release(t)
  <2>1. tick[t].at \in Underway /\ UNCHANGED landed
    BY <1>13 DEF Release, Underway
  <2>2. CASE Goto(t, Idle)
    BY <1>0, <2>1, <2>2, TypedMove DEF Idle, Stations, Underway
  <2>3. CASE Goto(t, NextOrder(t, tick[t].slot))
    BY <1>0, <2>1, <2>3, LeftTyped, TypedMove DEF Underway
  <2>4. QED
    BY <1>13, <2>2, <2>3 DEF Release
<1>14. CASE Finish(t)
  <2>1. Idle \in Stations /\ Idle.at \notin Underway
    BY DEF Idle, Stations, Underway
  <2>2. QED
    BY <1>0, <1>14, <2>1, TypedMove DEF Finish
<1>15. QED
  BY <1>1, <1>2, <1>3, <1>4, <1>5, <1>9, <1>10, <1>11, <1>12, <1>13, <1>14 DEF Runs

(* The history of landed fills grows, and what ticks knew of it stays. *)
LEMMA StationsGrow ==
    ASSUME IsSeq(landed), NEW row, landed' = Append(landed, row)
    PROVE  /\ Len(landed') = Len(landed) + 1 /\ Len(landed) \in Nat
           /\ Stations \subseteq Stations'
           /\ Attempting(Len(landed')) \subseteq Stations'
<1>1. Len(landed') = Len(landed) + 1 /\ Len(landed) \in Nat
  <2>1. PICK S : landed \in Seq(S)
    BY DEF IsSeq
  <2>2. landed \in Seq(S \cup {row}) /\ row \in S \cup {row}
    BY <2>1
  <2>3. QED
    BY <2>2
<1>2. 0..Len(landed) \subseteq 0..Len(landed')
  BY <1>1
<1>3. Stations \subseteq Stations'
  BY <1>2 DEF Stations
<1>4. Attempting(Len(landed')) \subseteq Stations'
  BY DEF Attempting, Stations, Underway, Snapshots, Plans, Outcomes
<1>5. QED
  BY <1>1, <1>3, <1>4

LEMMA LandedAttempt ==
    ASSUME NEW n \in Nat, NEW x \in Attempting(n)
    PROVE  [x EXCEPT !.outcome = "landed", !.sig = n + 1] \in Attempting(n + 1)
<1>1. x.sig \in 0..(n + 1) /\ n + 1 \in 0..(n + 1)
  BY DEF Attempting
<1>2. "landed" \in Outcomes
  BY DEF Outcomes
<1>3. QED
  BY <1>1, <1>2 DEF Attempting

LEMMA LandTyped ==
    ASSUME TypeInv, ReceiptInv, NEW t \in Ticks, NEW out \in SwapOuts, Land(t, out)
    PROVE  TicksTyped'
<1> DEFINE state == [tick[t] EXCEPT !.outcome = "landed", !.sig = Len(landed) + 1]
<1>0. TicksTyped /\ tick[t].at \in Underway /\ IsSeq(landed)
  BY DEF TypeInv, ReceiptInv, Land, Sent, Underway
<1>1. landed' = Append(landed, Record(TxOf(t))) /\ tick' = [tick EXCEPT ![t] = state]
  BY DEF Land, Goto
<1>2. /\ Len(landed') = Len(landed) + 1 /\ Len(landed) \in Nat
      /\ Stations \subseteq Stations'
      /\ Attempting(Len(landed')) \subseteq Stations'
  BY <1>0, <1>1, StationsGrow
<1>3. tick[t] \in Attempting(Len(landed))
  BY <1>0, UnderwayTyped
<1>4. state \in Attempting(Len(landed'))
  BY <1>2, <1>3, LandedAttempt
<1>5. state.slot = tick[t].slot /\ state.items = tick[t].items
  BY <1>3 DEF Attempting
<1> HIDE DEF state
<1>6. tick' \in [Ticks -> Stations']
  BY <1>0, <1>1, <1>2, <1>4 DEF TicksTyped
<1>7. \A u \in Ticks : HoldsItsOrder(u)'
  BY <1>0, <1>1, <1>5 DEF TicksTyped, HoldsItsOrder
<1>8. QED
  BY <1>2, <1>6, <1>7 DEF TicksTyped

LEMMA LandLooseTyped ==
    ASSUME TypeInv, ReceiptInv, NEW t \in Ticks, NEW out \in SwapOuts, LandLoose(t, out)
    PROVE  TicksTyped'
<1>1. landed' = Append(landed, Record(loose[t])) /\ tick' = tick
  BY DEF LandLoose
<1>2. /\ Len(landed') = Len(landed) + 1 /\ Len(landed) \in Nat
      /\ Stations \subseteq Stations'
  BY <1>1, StationsGrow DEF ReceiptInv
<1>3. QED
  BY <1>1, <1>2 DEF TypeInv, TicksTyped, HoldsItsOrder

(* The answers that end a wait, the exceptions, the crash, the lapse of a
   lease. *)
LEMMA FailureTyped ==
    ASSUME TicksTyped, NEW t \in Ticks,
           (\E out \in SwapOuts : Revert(t, out)) \/ Drop(t) \/ Throw(t)
    PROVE  TicksTyped'
<1>1. ASSUME Sent(t), NEW answer \in {"failed", "dropped"}, UNCHANGED landed,
             Goto(t, [tick[t] EXCEPT !.outcome = answer])
      PROVE  TicksTyped'
  <2>1. tick[t].at \in Underway
    BY <1>1 DEF Sent, Underway
  <2>2. tick[t] \in Attempting(Len(landed))
    BY <2>1, UnderwayTyped
  <2>3. [tick[t] EXCEPT !.outcome = answer]
          = [tick[t] EXCEPT !.at = tick[t].at, !.outcome = answer,
                            !.failed = tick[t].failed]
    BY <2>2 DEF Attempting
  <2>4. tick[t].failed \in BOOLEAN /\ answer \in Outcomes
    BY <2>2 DEF Attempting, Outcomes
  <2>5. Goto(t, [tick[t] EXCEPT !.at = tick[t].at, !.outcome = answer,
                                !.failed = tick[t].failed])
    BY <1>1, <2>3 DEF Goto
  <2>6. QED
    BY <1>1, <2>1, <2>4, <2>5, AttemptMove
<1>2. ASSUME NEW out \in SwapOuts, Revert(t, out) PROVE TicksTyped'
  BY <1>1, <1>2 DEF Revert
<1>3. CASE Drop(t)
  BY <1>1, <1>3 DEF Drop
<1>4. CASE Throw(t)
  <2>1. CASE tick[t].at \in {"attempt", "confirm", "receipt"}
    <3>1. Goto(t, [At(t, "release") EXCEPT !.failed = TRUE]) /\ UNCHANGED landed
      BY <1>4, <2>1 DEF Throw
    <3>2. tick[t] \in Attempting(Len(landed)) /\ tick[t].at \in Underway
      BY <2>1, UnderwayTyped DEF Underway
    <3>3. [At(t, "release") EXCEPT !.failed = TRUE]
            = [tick[t] EXCEPT !.at = "release", !.outcome = tick[t].outcome,
                              !.failed = TRUE]
      BY <3>2 DEF At, Attempting
    <3>4. tick[t].outcome \in Outcomes /\ "release" \in Underway
      BY <3>2 DEF Attempting, Underway
    <3>5. QED
      BY <3>1, <3>2, <3>3, <3>4, AttemptMove
  <2>2. CASE tick[t].at \notin {"attempt", "confirm", "receipt"}
    <3>1. Goto(t, Idle) /\ UNCHANGED landed
      BY <1>4, <2>2 DEF Throw
    <3>2. Idle \in Stations /\ Idle.at \notin Underway
      BY DEF Idle, Stations, Underway
    <3>3. QED
      BY <3>1, <3>2, TypedMove
  <2>3. QED
    BY <2>1, <2>2
<1>5. QED
  BY <1>2, <1>3, <1>4

LEMMA CrashTyped ==
    ASSUME TicksTyped, NEW p \in Processes, Crash(p)
    PROVE  TicksTyped'
<1>1. /\ tick' = [t \in Ticks |-> IF ProcessOf[t] = p THEN Idle ELSE tick[t]]
      /\ UNCHANGED landed
  BY DEF Crash
<1>2. Idle \in Stations /\ Idle.at \notin Underway /\ Stations' = Stations
  BY <1>1 DEF Idle, Stations, Underway
<1>3. QED
  BY <1>1, <1>2 DEF TicksTyped, HoldsItsOrder

LEMMA LapseTyped ==
    ASSUME TicksTyped, NEW s \in Slots, LeaseRunsOut(s)
    PROVE  TicksTyped'
<1>1. /\ tick' = [t \in Ticks |->
                    IF Attempts(t, s) /\ Me(t) = leases[s].worker
                    THEN [tick[t] EXCEPT !.late = TRUE] ELSE tick[t]]
      /\ UNCHANGED landed
  BY DEF LeaseRunsOut
<1>2. ASSUME NEW t \in Ticks, Attempts(t, s)
      PROVE  /\ [tick[t] EXCEPT !.late = TRUE] \in Stations
             /\ [tick[t] EXCEPT !.late = TRUE].slot = tick[t].slot
             /\ [tick[t] EXCEPT !.late = TRUE].items = tick[t].items
             /\ tick[t].at \in Underway
  <2>1. tick[t].at \in Underway
    BY <1>2 DEF Attempts, Underway
  <2>2. tick[t] \in Attempting(Len(landed))
    BY <2>1, UnderwayTyped
  <2>3. [tick[t] EXCEPT !.late = TRUE] \in Attempting(Len(landed))
    BY <2>2 DEF Attempting
  <2>4. QED
    BY <2>1, <2>2, <2>3, AttemptIsStation DEF Attempting
<1>3. Stations' = Stations
  BY <1>1 DEF Stations
<1>4. \A t \in Ticks : tick'[t] \in Stations /\ HoldsItsOrder(t)'
  BY <1>1, <1>2 DEF TicksTyped, HoldsItsOrder
<1>5. QED
  BY <1>1, <1>3, <1>4 DEF TicksTyped

LEMMA TicksStep == TypeInv /\ ReceiptInv /\ [KeeperNext]_allVars => TicksTyped'
<1> SUFFICES ASSUME TypeInv, ReceiptInv, [KeeperNext]_allVars PROVE TicksTyped'
  OBVIOUS
<1>1. TicksTyped
  BY DEF TypeInv
<1>2. UNCHANGED <<tick, landed>> => TicksTyped'
  BY <1>1 DEF TicksTyped, HoldsItsOrder, Stations
<1>3. ASSUME NEW t \in Ticks, Runs(t) PROVE TicksTyped'
  BY <1>3, RunTyped
<1>4. ASSUME NEW t \in Ticks, Answered(t) PROVE TicksTyped'
  BY <1>1, <1>4, LandTyped, FailureTyped DEF Answered
<1>5. ASSUME NEW t \in Ticks, NEW out \in SwapOuts, LandLoose(t, out) PROVE TicksTyped'
  BY <1>5, LandLooseTyped
<1>6. ASSUME NEW t \in Ticks, Throw(t) \/ Drop(t) PROVE TicksTyped'
  BY <1>1, <1>6, FailureTyped
<1>7. ASSUME NEW p \in Processes, Crash(p) PROVE TicksTyped'
  BY <1>1, <1>7, CrashTyped
<1>8. ASSUME NEW s \in Slots, LeaseRunsOut(s) PROVE TicksTyped'
  BY <1>1, <1>8, LapseTyped
<1>9. ASSUME \/ \E t \in Ticks : DropLoose(t)
             \/ RefreshFeed \/ FeedAges \/ World \/ UNCHANGED allVars
      PROVE  TicksTyped'
  BY <1>2, <1>9 DEF DropLoose, RefreshFeed, FeedAges, World, keeperVars, allVars
<1>10. QED
  BY <1>3, <1>4, <1>5, <1>6, <1>7, <1>8, <1>9 DEF KeeperNext, SmoothNext, Fails

(* The rows of the database, the baselines and what is in flight. *)
LEMMA LeaseRowTyped ==
    ASSUME TypeInv, NEW t \in Ticks, TakeLease(t)
    PROVE  /\ DOMAIN leases' \subseteq Slots
           /\ Range(leases') \subseteq
                [worker : Range(WorkerOf), filled : U64, expired : BOOLEAN]
<1> DEFINE s   == tick[t].slot
           row == [worker |-> Me(t), filled |-> tick[t].items[s].filled,
                   expired |-> FALSE]
<1>0. TicksTyped /\ RowsTyped /\ tick[t].at \in Underway
  BY DEF TypeInv, TakeLease, Underway
<1>1. tick[t].items \in Snapshots /\ s \in DOMAIN tick[t].items
  BY <1>0, LeftTyped DEF TicksTyped, HoldsItsOrder
<1>2. s \in Slots /\ tick[t].items[s].filled \in U64
  BY <1>1, SnapshotItem DEF Orders
<1>3. Me(t) \in Range(WorkerOf)
  BY KeeperAssumption DEF Me, Range
<1>4. row \in [worker : Range(WorkerOf), filled : U64, expired : BOOLEAN]
  BY <1>2, <1>3
<1> HIDE DEF row
<1>5. leases' = Upsert(s, row) \/ leases' = leases
  BY DEF TakeLease, row
<1>6. CASE leases' = Upsert(s, row)
  <2>1. /\ DOMAIN leases' = DOMAIN leases \cup {s}
        /\ \A r \in DOMAIN leases' : leases'[r] = row
                                     \/ (r \in DOMAIN leases /\ leases'[r] = leases[r])
    BY <1>6 DEF Upsert
  <2>2. QED
    BY <1>0, <1>2, <1>4, <2>1 DEF RowsTyped, Range
<1>7. QED
  BY <1>0, <1>5, <1>6 DEF RowsTyped

LEMMA RunRows ==
    ASSUME TypeInv, NEW t \in Ticks, Runs(t)
    PROVE  RowsTyped'
<1>0. RowsTyped /\ TicksTyped
  BY DEF TypeInv
<1>1. CASE JudgeIssuer(t)
  <2>1. tick[t].seen.srcRate \in FeeRates
    BY <1>0, <1>1 DEF JudgeIssuer, TicksTyped, Stations, Mints, Underway
  <2>2. baseline' \in [Processes -> FeeRates \cup {NoFee}]
    BY <1>0, <1>1, <2>1 DEF JudgeIssuer, RowsTyped
  <2>3. QED
    BY <1>0, <1>1, <2>2 DEF JudgeIssuer, RowsTyped
<1>2. CASE TakeLease(t)
  BY <1>0, <1>2, LeaseRowTyped DEF TakeLease, RowsTyped
<1>3. CASE Release(t)
  <2>1. /\ DOMAIN leases' \subseteq DOMAIN leases
        /\ \A r \in DOMAIN leases' : leases'[r] = leases[r]
    BY <1>3 DEF Release, Restrict
  <2>2. QED
    BY <1>0, <1>3, <2>1 DEF Release, RowsTyped, Range
<1>4. UNCHANGED <<baseline, leases, feed, loose>> => RowsTyped'
  BY <1>0 DEF RowsTyped, Range
<1>5. ASSUME ~JudgeIssuer(t), ~TakeLease(t), ~Release(t)
      PROVE  UNCHANGED <<baseline, leases, feed, loose>>
  BY <1>5 DEF Runs, ReadIssuer, CheckFeed, LoadOrders, LoadOrdersAt, PlanOrder,
     SendFill, SendFillAt, Confirm, PersistReceipt, Finish
<1>6. QED
  BY <1>1, <1>2, <1>3, <1>4, <1>5

LEMMA RowsStep == TypeInv /\ [KeeperNext]_allVars => RowsTyped'
<1> SUFFICES ASSUME TypeInv, [KeeperNext]_allVars PROVE RowsTyped'
  OBVIOUS
<1>0. RowsTyped /\ TicksTyped
  BY DEF TypeInv
<1>1. \A t \in Ticks : LetGo(t) \in Txs \cup {NoTx}
  BY <1>0, TxTyped DEF LetGo, Sent, Underway, RowsTyped
<1>2. UNCHANGED <<baseline, leases, feed, loose>> => RowsTyped'
  BY <1>0 DEF RowsTyped, Range
<1>3. ASSUME NEW t \in Ticks, Runs(t) PROVE RowsTyped'
  BY <1>3, RunRows
<1>4. ASSUME NEW t \in Ticks, NEW out \in SwapOuts, LandLoose(t, out) PROVE RowsTyped'
  BY <1>0, <1>4 DEF LandLoose, RowsTyped, Range
<1>5. ASSUME NEW t \in Ticks, DropLoose(t) PROVE RowsTyped'
  BY <1>0, <1>5 DEF DropLoose, RowsTyped, Range
<1>6. ASSUME NEW t \in Ticks, Throw(t) PROVE RowsTyped'
  BY <1>0, <1>1, <1>6 DEF Throw, RowsTyped, Range
<1>7. ASSUME NEW p \in Processes, Crash(p) PROVE RowsTyped'
  BY <1>0, <1>1, <1>7 DEF Crash, RowsTyped, Range
<1>8. ASSUME NEW s \in Slots, LeaseRunsOut(s) PROVE RowsTyped'
  <2>1. /\ s \in DOMAIN leases
        /\ leases' = [leases EXCEPT ![s].expired = TRUE]
        /\ UNCHANGED <<baseline, feed, loose>>
    BY <1>8 DEF LeaseRunsOut
  <2>2. leases[s] \in [worker : Range(WorkerOf), filled : U64, expired : BOOLEAN]
    BY <1>0, <2>1 DEF RowsTyped, Range
  <2>3. [leases[s] EXCEPT !.expired = TRUE]
          \in [worker : Range(WorkerOf), filled : U64, expired : BOOLEAN]
    BY <2>2
  <2>4. /\ DOMAIN leases' = DOMAIN leases
        /\ \A r \in DOMAIN leases :
             leases'[r] = leases[r] \/ leases'[r] = [leases[s] EXCEPT !.expired = TRUE]
    BY <2>1
  <2>5. Range(leases') \subseteq
          [worker : Range(WorkerOf), filled : U64, expired : BOOLEAN]
    BY <1>0, <2>3, <2>4 DEF RowsTyped, Range
  <2>6. QED
    BY <1>0, <2>1, <2>4, <2>5 DEF RowsTyped
<1>9. CASE RefreshFeed \/ FeedAges
  BY <1>0, <1>9 DEF RefreshFeed, FeedAges, RowsTyped, Range
<1>10. ASSUME \/ \E t \in Ticks : Answered(t) \/ Drop(t)
              \/ World \/ UNCHANGED allVars
       PROVE  RowsTyped'
  BY <1>2, <1>10 DEF Answered, Land, Revert, Drop, World, keeperVars, allVars
<1>11. QED
  BY <1>3, <1>4, <1>5, <1>6, <1>7, <1>8, <1>9, <1>10
     DEF KeeperNext, SmoothNext, Fails

(* Types and receipts together, for the signatures of the receipts. *)
KeeperInv == TypeInv /\ ReceiptInv

LEMMA KeeperInvariance == KeeperSpec => []KeeperInv
<1>1. KeeperInit => KeeperInv
  BY TypeInit, ReceiptInit DEF KeeperInv
<1>2. KeeperInv /\ [KeeperNext]_allVars => KeeperInv'
  BY ChainStep, TicksStep, RowsStep, ReceiptStep DEF KeeperInv, TypeInv
<1>3. QED
  BY <1>1, <1>2, PTL DEF KeeperSpec

(* Whatever overlaps, dies or lands late, a tick only ever works on orders it
   read, with amounts that are amounts, and a receipt has a signature. *)
THEOREM KeeperTyped == KeeperSpec => []KeeperTypeOK
<1>1. KeeperInv => KeeperTypeOK
  <2> SUFFICES ASSUME KeeperInv PROVE KeeperTypeOK
    OBVIOUS
  <2>1. PICK S : landed \in Seq(S)
    BY DEF KeeperInv, ReceiptInv, IsSeq
  <2>2. DOMAIN landed = 1..Len(landed)
    BY <2>1
  <2>3. \A r \in receipts : r.sig \in 1..Len(landed)
    BY <2>2 DEF KeeperInv, ReceiptInv, ReceiptsAreReal
  <2>4. QED
    BY <2>3 DEF KeeperInv, TypeInv, TicksTyped, RowsTyped, KeeperTypeOK
<1>2. QED
  BY <1>1, KeeperInvariance, PTL

(* The keeper's transactions, its atomic swaps and the ones nobody waits for
   any more included, leave the escrow what Escrow alone guarantees: every
   unit an order has left is in its account, and its owner was paid the
   floor. *)
THEOREM EscrowSoundUnderKeeper == KeeperSpec => [](EscrowCovers /\ OwnerPaid)
<1>1. KeeperInv => EscrowCovers /\ OwnerPaid
  BY DEF KeeperInv, TypeInv, Inv
<1>2. QED
  BY <1>1, KeeperInvariance, PTL

(* A transaction of the keeper is a sale in the book, and closes an order only
   with its last unit. *)
LEMMA ExecuteIsTrade ==
    ASSUME Inv, NEW tx \in Txs, NEW out \in SwapOuts, Execute(tx, out)
    PROVE  Promise!PromiseNext /\ \A s \in Slots : Accounted(s)
<1>1. /\ tx.slot \in Slots /\ tx.size \in Nat /\ tx.pay \in Nat /\ out \in Nat
      /\ KeeperWallet \in Users
  BY KeeperAssumption DEF Txs
<1>2. src \in [Users -> Nat] /\ dst \in [Users -> Nat]
  BY DEF Inv, TypeOK
<1>3. CASE Fill(tx.slot, KeeperWallet, tx.size, tx.pay)
  BY <1>1, <1>2, <1>3, FillFromIsTrade, FillFromAccounted DEF Fill
<1>4. CASE /\ src[KeeperWallet] >= tx.size
           /\ FillFrom(tx.slot, KeeperWallet, tx.size, tx.pay,
                       [src EXCEPT ![KeeperWallet] = @ - tx.size],
                       [dst EXCEPT ![KeeperWallet] = @ + out])
  <2>1. /\ [src EXCEPT ![KeeperWallet] = @ - tx.size] \in [Users -> Nat]
        /\ [dst EXCEPT ![KeeperWallet] = @ + out] \in [Users -> Nat]
    BY <1>1, <1>2, <1>4
  <2>2. QED
    BY <1>1, <1>4, <2>1, FillFromIsTrade, FillFromAccounted
<1>5. QED
  BY <1>3, <1>4 DEF Execute

(* What the owner sees of a step of the composed system. *)
OwnerSees ==
    /\ [Promise!PromiseNext]_Promise!promiseVars
    /\ [\A s \in Slots : Accounted(s)]_vars

LEMMA KeeperStepSeen == TypeInv /\ [KeeperNext]_allVars => OwnerSees
<1> SUFFICES ASSUME TypeInv, [KeeperNext]_allVars PROVE OwnerSees
  OBVIOUS
<1>0. Inv
  BY DEF TypeInv
<1>1. ASSUME UNCHANGED vars PROVE OwnerSees
  BY <1>1 DEF OwnerSees, Promise!promiseVars, vars, history
<1>2. ASSUME NEW t \in Ticks, Runs(t) PROVE UNCHANGED vars
  BY <1>2 DEF Runs, ReadIssuer, JudgeIssuer, CheckFeed, LoadOrders, LoadOrdersAt,
     PlanOrder, TakeLease, SendFill, SendFillAt, Confirm, PersistReceipt, Release,
     Finish
<1>3. ASSUME NEW t \in Ticks, NEW out \in SwapOuts, Land(t, out) PROVE OwnerSees
  <2>1. TxOf(t) \in Txs
    BY <1>3, TxTyped DEF Land, Sent, TypeInv, Underway
  <2>2. QED
    BY <1>0, <1>3, <2>1, ExecuteIsTrade DEF Land, OwnerSees
<1>4. ASSUME NEW t \in Ticks, NEW out \in SwapOuts, LandLoose(t, out) PROVE OwnerSees
  <2>1. loose[t] \in Txs
    BY <1>4 DEF LandLoose, TypeInv, RowsTyped
  <2>2. QED
    BY <1>0, <1>4, <2>1, ExecuteIsTrade DEF LandLoose, OwnerSees
<1>5. CASE World
  <2>1. Next
    BY <1>5 DEF World, Next
  <2>2. QED
    BY <1>0, <2>1, StepKeepsPromise, StepAccounted DEF OwnerSees
<1>6. ASSUME NEW t \in Ticks, NEW out \in SwapOuts, Revert(t, out) PROVE UNCHANGED vars
  BY <1>6 DEF Revert
<1>7. ASSUME NEW t \in Ticks, DropLoose(t) \/ Throw(t) \/ Drop(t) PROVE UNCHANGED vars
  BY <1>7 DEF DropLoose, Throw, Drop
<1>8. ASSUME NEW s \in Slots, LeaseRunsOut(s) PROVE UNCHANGED vars
  BY <1>8 DEF LeaseRunsOut
<1>9. ASSUME NEW p \in Processes, Crash(p) PROVE UNCHANGED vars
  BY <1>9 DEF Crash
<1>10. ASSUME RefreshFeed \/ FeedAges \/ UNCHANGED allVars PROVE UNCHANGED vars
  BY <1>10 DEF RefreshFeed, FeedAges, allVars
<1>11. QED
  BY <1>1, <1>2, <1>3, <1>4, <1>5, <1>6, <1>7, <1>8, <1>9, <1>10
     DEF KeeperNext, SmoothNext, Answered, Fails

(* The program with the keeper still implements OrderPromise: overlapping,
   dying and late ticks, and fills paid from a swap of the same transaction,
   are only sales to the owner.  And an order they close is sold out. *)
THEOREM KeeperKeepsPromise == KeeperSpec => KeepsPromise /\ ClosesAccounted
<1>1. KeeperInit => Promise!PromiseInit
  BY DEF KeeperInit, Init, Promise!PromiseInit
<1>2. KeeperInv => TypeInv
  BY DEF KeeperInv
<1>3. OwnerSees => [Promise!PromiseNext]_Promise!promiseVars /\ [\A s \in Slots : Accounted(s)]_vars
  BY DEF OwnerSees
<1>4. QED
  BY <1>1, <1>2, <1>3, KeeperStepSeen, KeeperInvariance, PTL
     DEF KeeperSpec, KeepsPromise, ClosesAccounted, Promise!PromiseSpec

-----------------------------------------------------------------------------
(* What is owed.  A fill that landed stays in the hands of the tick that knows
   its signature until its row is stored; only a failure takes it away. *)

LEMMA ReceiptsStay ==
    ASSUME [KeeperNext]_allVars
    PROVE  \A r \in receipts : r \in receipts'
BY DEF KeeperNext, SmoothNext, Fails, Runs, Answered, ReadIssuer, JudgeIssuer,
   CheckFeed, LoadOrders, LoadOrdersAt, PlanOrder, TakeLease, SendFill, SendFillAt,
   Confirm, PersistReceipt, Insert, Release, Finish, Land, Revert, Drop, LandLoose,
   DropLoose, Throw, Crash, LeaseRunsOut, RefreshFeed, FeedAges, World, keeperVars,
   allVars

LEMMA OwedMove ==
    ASSUME Shaped, NEW t \in Ticks, NEW n, Owes(t, n),
           NEW u \in Ticks, NEW state, Goto(u, state),
           u = t => /\ state.at = "receipt" \/ (state.at = "confirm" /\ state.outcome = "landed")
                    /\ state.sig = n
    PROVE  Owes(t, n)'
BY DEF Shaped, Goto, Owes

LEMMA OwedUnchanged ==
    ASSUME NEW t \in Ticks, NEW n, Owes(t, n), UNCHANGED tick
    PROVE  Owes(t, n)'
BY DEF Owes

LEMMA OwedRun ==
    ASSUME KeeperInv, NEW t \in Ticks, NEW n, Owes(t, n), NEW u \in Ticks, Runs(u)
    PROVE  ReceiptedOrOwed(n)'
<1>0. /\ Shaped
      /\ tick[t].at \in {"confirm", "receipt"} /\ DOMAIN tick[t] = AttemptFields
      /\ tick[t].outcome = "landed" /\ tick[t].sig = n
  BY DEF KeeperInv, ReceiptInv, Shaped, Knows, Owes, Underway
<1>1. ASSUME u # t, NEW state, Goto(u, state) PROVE ReceiptedOrOwed(n)'
  BY <1>0, <1>1, OwedMove DEF ReceiptedOrOwed
<1>2. CASE u # t
  BY <1>1, <1>2 DEF Runs, ReadIssuer, JudgeIssuer, CheckFeed, LoadOrders,
     LoadOrdersAt, PlanOrder, TakeLease, SendFill, SendFillAt, Confirm,
     PersistReceipt, Release, Finish
<1>3. CASE u = t
  <2>1. Confirm(t) \/ PersistReceipt(t)
    BY <1>0, <1>3 DEF Runs, ReadIssuer, JudgeIssuer, CheckFeed, LoadOrders,
       LoadOrdersAt, PlanOrder, TakeLease, SendFill, SendFillAt, Release, Finish
  <2>2. CASE Confirm(t)
    <3>1. Goto(t, At(t, "receipt"))
      BY <1>0, <2>2 DEF Confirm, Confirmed
    <3>2. At(t, "receipt").at = "receipt" /\ At(t, "receipt").sig = n
      BY <1>0 DEF At, AttemptFields
    <3>3. QED
      BY <1>0, <3>1, <3>2, OwedMove DEF ReceiptedOrOwed
  <2>3. CASE PersistReceipt(t)
    <3> DEFINE row == [sig |-> tick[t].sig, slot |-> tick[t].slot,
                       size |-> tick[t].plan.fillSrc, pay |-> tick[t].plan.dstRaw]
    <3>1. receipts' = Insert(row) /\ row.sig = n
      BY <1>0, <2>3 DEF PersistReceipt
    <3> HIDE DEF row
    <3>2. \E r \in receipts' : r.sig = n
      BY <3>1 DEF Insert
    <3>3. QED
      BY <3>2 DEF ReceiptedOrOwed
  <2>4. QED
    BY <2>1, <2>2, <2>3
<1>4. QED
  BY <1>2, <1>3

LEMMA OwedStays ==
    ASSUME KeeperInv, [SmoothNext \/ \E t \in Ticks : Drop(t)]_allVars, NEW n, ReceiptedOrOwed(n)
    PROVE  ReceiptedOrOwed(n)'
<1>1. CASE \E r \in receipts : r.sig = n
  BY <1>1, ReceiptsStay DEF KeeperNext, Fails, ReceiptedOrOwed
<1>2. ASSUME NEW t \in Ticks, Owes(t, n) PROVE ReceiptedOrOwed(n)'
  <2>0. /\ Shaped
        /\ tick[t].at \in {"confirm", "receipt"} /\ DOMAIN tick[t] = AttemptFields
        /\ tick[t].outcome = "landed" /\ tick[t].sig = n
    BY <1>2 DEF KeeperInv, ReceiptInv, Shaped, Knows, Owes, Underway
  <2>1. ASSUME NEW u \in Ticks, Runs(u) PROVE ReceiptedOrOwed(n)'
    BY <1>2, <2>1, OwedRun
  <2>2. ASSUME NEW u \in Ticks, Answered(u) \/ Drop(u) PROVE ReceiptedOrOwed(n)'
    <3>1. Sent(u)
      BY <2>2 DEF Answered, Land, Revert, Drop
    <3>2. \E state : Goto(u, state)
      <4>1. PICK out : Land(u, out) \/ Revert(u, out) \/ Drop(u)
        BY <2>2 DEF Answered
      <4>2. CASE Land(u, out)
        BY <4>2 DEF Land
      <4>3. CASE Revert(u, out)
        BY <4>3 DEF Revert
      <4>4. CASE Drop(u)
        BY <4>4 DEF Drop
      <4>5. QED
        BY <4>1, <4>2, <4>3, <4>4
    <3>3. u # t
      BY <2>0, <3>1 DEF Sent
    <3>4. QED
      BY <1>2, <2>0, <3>2, <3>3, OwedMove DEF ReceiptedOrOwed
  <2>3. ASSUME NEW s \in Slots, LeaseRunsOut(s) PROVE ReceiptedOrOwed(n)'
    <3>1. \/ tick'[t] = tick[t]
          \/ tick'[t] = [tick[t] EXCEPT !.late = TRUE]
      BY <2>3 DEF LeaseRunsOut
    <3>2. Owes(t, n)'
      BY <1>2, <2>0, <3>1 DEF Owes, AttemptFields
    <3>3. QED
      BY <3>2 DEF ReceiptedOrOwed
  <2>4. ASSUME UNCHANGED tick PROVE ReceiptedOrOwed(n)'
    BY <1>2, <2>4, OwedUnchanged DEF ReceiptedOrOwed
  <2>5. QED
    BY <2>1, <2>2, <2>3, <2>4
       DEF SmoothNext, DropLoose, LandLoose, RefreshFeed, FeedAges, World, keeperVars,
           allVars
<1>3. QED
  BY <1>1, <1>2 DEF ReceiptedOrOwed

(* A fill that lands is owed by the tick that waits for it, unless no tick
   does any more. *)
LEMMA LandedIsOwed ==
    ASSUME KeeperInv, [KeeperNext]_allVars, NEW n \in 1..Len(landed)', n \notin 1..Len(landed)
    PROVE  \/ ReceiptedOrOwed(n)'
           \/ \E t \in Ticks : loose[t] # NoTx
<1>0. IsSeq(landed) /\ Shaped
  BY DEF KeeperInv, ReceiptInv
<1>1. landed' # landed
  OBVIOUS
<1>2. PICK t \in Ticks, out \in SwapOuts : Land(t, out) \/ LandLoose(t, out)
  BY <1>1 DEF KeeperNext, SmoothNext, Fails, Runs, Answered, ReadIssuer, JudgeIssuer,
     CheckFeed, LoadOrders, LoadOrdersAt, PlanOrder, TakeLease, SendFill, SendFillAt,
     Confirm, PersistReceipt, Release, Finish, Revert, Drop, DropLoose, Throw, Crash,
     LeaseRunsOut, RefreshFeed, FeedAges, World, keeperVars, allVars
<1>3. CASE LandLoose(t, out)
  BY <1>3 DEF LandLoose
<1>4. CASE Land(t, out)
  <2>1. PICK S : landed \in Seq(S)
    BY <1>0 DEF IsSeq
  <2>2. n = Len(landed) + 1
    <3>1. landed' = Append(landed, Record(TxOf(t)))
      BY <1>4 DEF Land
    <3>2. Len(landed') = Len(landed) + 1 /\ Len(landed) \in Nat
      <4>1. landed \in Seq(S \cup {Record(TxOf(t))})
        BY <2>1
      <4>2. QED
        BY <3>1, <4>1
    <3>3. QED
      BY <3>2
  <2>3. /\ tick[t].at = "confirm" /\ DOMAIN tick[t] = AttemptFields
        /\ Goto(t, [tick[t] EXCEPT !.outcome = "landed", !.sig = Len(landed) + 1])
    BY <1>0, <1>4 DEF Land, Sent, Shaped, Underway
  <2>4. Owes(t, n)'
    BY <1>0, <2>2, <2>3 DEF Goto, Shaped, Owes, AttemptFields
  <2>5. QED
    BY <2>4 DEF ReceiptedOrOwed
<1>5. QED
  BY <1>2, <1>3, <1>4

Forgets ==
    \/ \E t \in Ticks : Throw(t)
    \/ \E p \in Processes : Crash(p)

(* A fill whose receipt is stored, or that a tick is about to store, leaves
   these two states by a failure only: a call that throws, or a process that
   dies.  No overlap of ticks, no lease and no refusal loses one. *)
THEOREM ForgottenByFailureOnly ==
    KeeperSpec => [][\A n \in 1..Len(landed) :
                         ReceiptedOrOwed(n) => ReceiptedOrOwed(n)' \/ Forgets]_allVars
<1>1. KeeperInv /\ [KeeperNext]_allVars =>
          [\A n \in 1..Len(landed) :
               ReceiptedOrOwed(n) => ReceiptedOrOwed(n)' \/ Forgets]_allVars
  <2>1. KeeperNext => SmoothNext \/ (\E t \in Ticks : Drop(t)) \/ Forgets
    BY DEF KeeperNext, Fails, Forgets
  <2>2. QED
    BY <2>1, OwedStays
<1>2. QED
  BY <1>1, KeeperInvariance, PTL DEF KeeperSpec

NothingLoose == \A t \in Ticks : loose[t] = NoTx

(* Where nothing fails, no fill is ever without its receipt or a tick on the
   way to store it: the insert's conflict clause, the lease that one worker's
   ticks share and the answers that refuse do not come between them. *)
THEOREM NoFillIsForgotten == SmoothSpec => []NoFillForgotten
<1>1. KeeperInit => NothingLoose /\ NoFillForgotten
  BY DEF KeeperInit, NothingLoose, NoFillForgotten
<1>2. NothingLoose /\ [SmoothNext]_allVars => NothingLoose'
  BY DEF NothingLoose, SmoothNext, Runs, Answered, ReadIssuer, JudgeIssuer, CheckFeed,
     LoadOrders, LoadOrdersAt, PlanOrder, TakeLease, SendFill, SendFillAt, Confirm,
     PersistReceipt, Release, Finish, Land, Revert, LandLoose, DropLoose,
     LeaseRunsOut, RefreshFeed, FeedAges, World, keeperVars, allVars
<1>3. KeeperInv /\ NothingLoose /\ NoFillForgotten /\ [SmoothNext]_allVars => NoFillForgotten'
  BY OwedStays, LandedIsOwed DEF NoFillForgotten, NothingLoose, KeeperNext
<1>4. SmoothSpec => KeeperSpec
  BY PTL DEF SmoothSpec, KeeperSpec, KeeperNext
<1>5. QED
  BY <1>1, <1>2, <1>3, <1>4, KeeperInvariance, PTL DEF SmoothSpec

-----------------------------------------------------------------------------
(* The fee.  FeeChangeHalts fails (run keeper_fee) because a halt for a pause or
   for a hook lets the process take over the fee it read with it.  Nothing else
   does. *)

NeverHalted == Pauses = {FALSE} /\ Hooks = {FALSE}

(* The fee the process compares with is the one it saw first. *)
FeeInv ==
    /\ Shaped
    /\ \A t \in Ticks : tick[t].at = "judge" => tick[t].seen \in Mints
    /\ baseline \in [Processes -> FeeRates \cup {NoFee}]
    /\ trusted = baseline

LEMMA JudgedByFirst ==
    ASSUME NeverHalted, FeeInv, NEW t \in Ticks, JudgeIssuer(t)
    PROVE  /\ trusted' = baseline'
           /\ baseline' \in [Processes -> FeeRates \cup {NoFee}]
           /\ tick'[t].at = "feed"
           /\ ~tick'[t].halt => tick[t].seen.srcRate = trusted'[ProcessOf[t]]
<1> DEFINE p == ProcessOf[t]
           rate == tick[t].seen.srcRate
           halt == HaltFromIssuer(tick[t].seen, baseline[p])
<1>1. /\ p \in Processes /\ rate \in FeeRates /\ NoFee \notin FeeRates
      /\ ~tick[t].seen.paused /\ ~tick[t].seen.hooked
  BY KeeperAssumption DEF NeverHalted, FeeInv, JudgeIssuer, Mints
<1>2. /\ baseline' = [baseline EXCEPT ![p] =
                          IF halt = "issuer_fee_changed" THEN baseline[p] ELSE rate]
      /\ trusted' = [baseline EXCEPT ![p] = IF baseline[p] = NoFee THEN rate ELSE baseline[p]]
      /\ tick'[t] = [at |-> "feed", halt |-> halt # "none"]
  BY DEF FeeInv, JudgeIssuer, Goto, Shaped
<1>3. halt = IF baseline[p] # NoFee /\ rate # baseline[p]
             THEN "issuer_fee_changed" ELSE "none"
  BY <1>1 DEF HaltFromIssuer
<1> HIDE DEF halt, rate, p
<1>4. CASE baseline[p] # NoFee /\ rate # baseline[p]
  <2>1. baseline' = baseline /\ trusted' = baseline /\ halt # "none"
    BY <1>2, <1>3, <1>4 DEF FeeInv
  <2>2. tick'[t].at = "feed" /\ tick'[t].halt = (halt # "none")
    BY <1>2
  <2>3. tick'[t].halt
    BY <2>1, <2>2
  <2>4. QED
    BY <2>1, <2>2, <2>3 DEF FeeInv
<1>5. CASE ~(baseline[p] # NoFee /\ rate # baseline[p])
  <2>1. halt = "none" /\ baseline'[p] = rate
    BY <1>1, <1>2, <1>3, <1>5 DEF FeeInv
  <2>2. trusted' = baseline'
    BY <1>2, <1>5, <2>1
  <2>3. baseline' \in [Processes -> FeeRates \cup {NoFee}]
    BY <1>1, <1>2, <2>1 DEF FeeInv
  <2>4. tick'[t].at = "feed" /\ tick[t].seen.srcRate = trusted'[ProcessOf[t]]
    BY <1>2, <2>1, <2>2 DEF rate, p
  <2>5. QED
    BY <2>2, <2>3, <2>4
<1>6. QED
  BY <1>4, <1>5

LEMMA FeeStep ==
    ASSUME NeverHalted
    PROVE  KeeperInv /\ FeeInv /\ [KeeperNext]_allVars => FeeInv'
<1> SUFFICES ASSUME KeeperInv, FeeInv, [KeeperNext]_allVars PROVE FeeInv'
  OBVIOUS
<1>0. Shaped' /\ mint \in Mints
  BY ReceiptStep DEF KeeperInv, ReceiptInv, TypeInv, Inv, TypeOK
<1>1. ASSUME NEW t \in Ticks, NEW state, Goto(t, state),
             state.at = "judge" => state.seen \in Mints,
             UNCHANGED <<baseline, trusted>>
      PROVE  FeeInv'
  BY <1>0, <1>1 DEF FeeInv, Goto, Shaped, Mints
<1>2. ASSUME UNCHANGED <<tick, baseline, trusted>> PROVE FeeInv'
  BY <1>0, <1>2 DEF FeeInv, Mints
<1>3. ASSUME NEW t \in Ticks, tick[t].at \in Underway, NEW at \in Underway,
             NEW outcome, NEW sig, NEW failed, UNCHANGED <<baseline, trusted>>,
             \/ Goto(t, [tick[t] EXCEPT !.outcome = outcome])
             \/ Goto(t, [tick[t] EXCEPT !.outcome = outcome, !.sig = sig])
             \/ Goto(t, At(t, at))
             \/ Goto(t, [At(t, at) EXCEPT !.outcome = outcome])
             \/ Goto(t, [At(t, at) EXCEPT !.failed = failed])
      PROVE  FeeInv'
  <2>1. tick[t] \in Attempting(Len(landed))
    BY <1>3, UnderwayTyped DEF KeeperInv, TypeInv
  <2>2. /\ [tick[t] EXCEPT !.outcome = outcome].at \in Underway
        /\ [tick[t] EXCEPT !.outcome = outcome, !.sig = sig].at \in Underway
        /\ At(t, at).at \in Underway
        /\ [At(t, at) EXCEPT !.outcome = outcome].at \in Underway
        /\ [At(t, at) EXCEPT !.failed = failed].at \in Underway
    BY <1>3, <2>1 DEF At, Attempting
  <2>3. PICK state : Goto(t, state) /\ state.at \in Underway
    BY <1>3, <2>2
  <2>4. QED
    BY <1>1, <1>3, <2>3 DEF Underway
<1>4. ASSUME NEW t \in Ticks, JudgeIssuer(t) PROVE FeeInv'
  <2>1. /\ trusted' = baseline'
        /\ baseline' \in [Processes -> FeeRates \cup {NoFee}]
        /\ tick'[t].at = "feed"
    BY <1>4, JudgedByFirst
  <2>2. \A u \in Ticks : u # t => tick'[u] = tick[u]
    BY <1>4 DEF JudgeIssuer, Goto, FeeInv, Shaped
  <2>3. QED
    BY <1>0, <2>1, <2>2 DEF FeeInv, Mints
<1>5. ASSUME NEW t \in Ticks, Runs(t) PROVE FeeInv'
  <2>1. CASE ReadIssuer(t)
    BY <1>0, <1>1, <2>1 DEF ReadIssuer
  <2>2. CASE CheckFeed(t) \/ LoadOrders(t) \/ Finish(t) \/ Release(t)
    BY <1>1, <2>2 DEF CheckFeed, LoadOrders, LoadOrdersAt, Finish, Release, Idle, NextOrder
  <2>3. ASSUME NEW s \in Slots, NEW out \in SwapOuts, PlanOrder(t, s, out) PROVE FeeInv'
    <3> DEFINE taken == [at |-> "lease", now |-> tick[t].now,
                         items |-> tick[t].items, slot |-> s,
                         plan |-> PlanFor(tick[t].items[s], tick[t].now, out),
                         outcome |-> "unsent", sig |-> 0, failed |-> FALSE,
                         late |-> FALSE]
    <3>1. Goto(t, NextOrder(t, s)) \/ Goto(t, taken)
      BY <2>3 DEF PlanOrder
    <3>2. UNCHANGED <<baseline, trusted>>
      BY <2>3 DEF PlanOrder
    <3>3. NextOrder(t, s).at # "judge" /\ taken.at # "judge"
      BY DEF NextOrder
    <3> HIDE DEF taken
    <3>4. QED
      BY <1>1, <3>1, <3>2, <3>3
  <2>4. CASE TakeLease(t)
    <3>1. CASE Goto(t, NextOrder(t, tick[t].slot))
      BY <1>1, <2>4, <3>1 DEF TakeLease, NextOrder
    <3>2. QED
      BY <1>3, <2>4, <3>1 DEF TakeLease, Underway
  <2>5. ASSUME NEW out \in SwapOuts, SendFill(t, out) PROVE FeeInv'
    BY <1>3, <2>5 DEF SendFill, SendFillAt, Underway
  <2>6. CASE Confirm(t) \/ PersistReceipt(t)
    BY <1>3, <2>6 DEF Confirm, PersistReceipt, Underway
  <2>7. QED
    BY <1>4, <1>5, <2>1, <2>2, <2>3, <2>4, <2>5, <2>6 DEF Runs
<1>6. ASSUME NEW t \in Ticks, NEW out \in SwapOuts, Land(t, out) PROVE FeeInv'
  BY <1>3, <1>6 DEF Land, Sent, Underway
<1>7. ASSUME NEW t \in Ticks, NEW out \in SwapOuts, Revert(t, out) PROVE FeeInv'
  BY <1>3, <1>7 DEF Revert, Sent, Underway
<1>8. ASSUME NEW t \in Ticks, Drop(t) PROVE FeeInv'
  BY <1>3, <1>8 DEF Drop, Sent, Underway
<1>9. ASSUME NEW t \in Ticks, Throw(t) PROVE FeeInv'
  <2>1. CASE Goto(t, Idle)
    BY <1>1, <1>9, <2>1 DEF Throw, Idle
  <2>2. QED
    BY <1>3, <1>9, <2>1 DEF Throw, Underway
<1>10. ASSUME NEW p \in Processes, Crash(p) PROVE FeeInv'
  BY <1>0, <1>10 DEF Crash, FeeInv, Idle, Mints
<1>11. ASSUME NEW s \in Slots, LeaseRunsOut(s) PROVE FeeInv'
  <2>1. ASSUME NEW t \in Ticks, tick'[t].at = "judge" PROVE tick'[t] = tick[t]
    <3>1. SUFFICES ASSUME Attempts(t, s), tick'[t] = [tick[t] EXCEPT !.late = TRUE]
                   PROVE  FALSE
      BY <1>11 DEF LeaseRunsOut
    <3>2. tick[t] \in Attempting(Len(landed))
      BY <3>1, UnderwayTyped DEF KeeperInv, TypeInv, Attempts, Underway
    <3>3. tick'[t].at = tick[t].at
      BY <3>1, <3>2 DEF Attempting
    <3>4. QED
      BY <2>1, <3>1, <3>3 DEF Attempts
  <2>2. QED
    BY <1>0, <1>11, <2>1 DEF LeaseRunsOut, FeeInv, Mints
<1>12. QED
  BY <1>2, <1>5, <1>6, <1>7, <1>8, <1>9, <1>10, <1>11
     DEF KeeperNext, SmoothNext, Fails, Answered, DropLoose, LandLoose, RefreshFeed,
         FeedAges, World, keeperVars, allVars

(* A mint that is never paused and never hooked has every change of its fee
   noticed: a tick that is not halted read the fee its process saw first, in
   any number of processes and overlapping ticks, through restarts. *)
THEOREM FeeChangeHaltsUnhalted ==
    ASSUME NeverHalted
    PROVE  KeeperSpec => FeeChangeHalts
<1>1. KeeperInit => FeeInv
  BY DEF KeeperInit, FeeInv, Shaped, Idle, Underway
<1>2. KeeperInv /\ FeeInv /\ [KeeperNext]_allVars => FeeInv'
  BY FeeStep
<1>3. KeeperInv /\ FeeInv /\ [KeeperNext]_allVars =>
          [\A t \in Ticks :
              (tick[t].at = "judge" /\ tick'[t].at = "feed" /\ ~tick'[t].halt)
                  => tick[t].seen.srcRate = trusted'[ProcessOf[t]]]_allVars
  <2> SUFFICES ASSUME KeeperInv, FeeInv, KeeperNext, NEW t \in Ticks,
                      tick[t].at = "judge", tick'[t].at = "feed", ~tick'[t].halt
               PROVE  tick[t].seen.srcRate = trusted'[ProcessOf[t]]
    OBVIOUS
  <2>1. JudgeIssuer(t)
    <3>1. ASSUME NEW u \in Ticks, NEW state, Goto(u, state) PROVE u = t
      BY <3>1 DEF Goto, FeeInv, Shaped
    <3>2. tick' # tick
      OBVIOUS
    <3>3. \A u \in Ticks, out \in SwapOuts : ~Land(u, out) /\ ~Revert(u, out)
      BY <3>1 DEF Land, Revert, Sent
    <3>4. \A u \in Ticks : ~Drop(u) /\ ~Throw(u)
      <4>1. SUFFICES ASSUME NEW u \in Ticks, Drop(u) \/ Throw(u) PROVE FALSE
        OBVIOUS
      <4>2. u = t
        BY <3>1, <4>1 DEF Drop, Throw
      <4>3. Goto(t, Idle)
        BY <4>1, <4>2 DEF Drop, Sent, Throw
      <4>4. QED
        BY <4>3 DEF Goto, FeeInv, Shaped, Idle
    <3>5. \A p \in Processes : ~Crash(p)
      BY DEF Crash, Idle
    <3>6. \A s \in Slots : ~LeaseRunsOut(s)
      BY DEF LeaseRunsOut, Attempts
    <3>7. PICK u \in Ticks : Runs(u)
      BY <3>2, <3>3, <3>4, <3>5, <3>6
         DEF KeeperNext, SmoothNext, Fails, Answered, DropLoose, LandLoose,
             RefreshFeed, FeedAges, World, keeperVars
    <3>8. u = t
      BY <3>1, <3>7 DEF Runs, ReadIssuer, JudgeIssuer, CheckFeed, LoadOrders,
         LoadOrdersAt, PlanOrder, TakeLease, SendFill, SendFillAt, Confirm,
         PersistReceipt, Release, Finish
    <3>9. QED
      BY <3>7, <3>8 DEF Runs, ReadIssuer, CheckFeed, LoadOrders, LoadOrdersAt,
         PlanOrder, TakeLease, SendFill, SendFillAt, Confirm, PersistReceipt, Release,
         Finish
  <2>2. QED
    BY <2>1, JudgedByFirst
<1>4. QED
  BY <1>1, <1>2, <1>3, KeeperInvariance, PTL DEF KeeperSpec, FeeChangeHalts

-----------------------------------------------------------------------------
(* The plans.  What the policy found holds of the record the tick carries from
   the plan to the attempt, whatever happens to the order meanwhile. *)

SoundPlan(x) ==
    LET o    == x.items[x.slot]
        left == o.escrowed - o.filled
    IN  /\ LegalFill(x.plan.fillSrc, left, o.terms.minFill)
        /\ x.plan.dstRaw >= CeilRatio(x.plan.fillSrc, ActiveFloor(x.now, o.terms))
        /\ x.plan.dstRaw <= MAX_U64

PlanInv == \A t \in Ticks : tick[t].at \in {"lease", "attempt"} => SoundPlan(tick[t])

(* Amounts of Token-2022 are of 64 bits: those Jupiter delivers, and what the
   keeper's wallet holds. *)
QuotesFit == SwapOuts \subseteq U64

WalletFits == dst[KeeperWallet] \in U64

LEMMA PlanMove ==
    ASSUME TicksTyped, PlanInv, NEW t \in Ticks, NEW state, Goto(t, state),
           state.at \in {"lease", "attempt"} => SoundPlan(state)
    PROVE  PlanInv'
BY DEF TicksTyped, PlanInv, Goto, SoundPlan

LEMMA PlanOrderSound ==
    ASSUME QuotesFit, WalletFits, KeeperInv, PlanInv, NEW t \in Ticks,
           NEW s \in Slots, NEW out \in SwapOuts, PlanOrder(t, s, out)
    PROVE  PlanInv'
<1> DEFINE o == tick[t].items[s]
           plan == PlanFor(o, tick[t].now, out)
           state == [at |-> "lease", now |-> tick[t].now,
                     items |-> tick[t].items, slot |-> s, plan |-> plan,
                     outcome |-> "unsent", sig |-> 0, failed |-> FALSE,
                     late |-> FALSE]
<1>1. /\ tick[t].at = "orders" /\ s \in DOMAIN tick[t].items
      /\ Goto(t, NextOrder(t, s)) \/ (plan # Skip /\ Goto(t, state))
  BY DEF PlanOrder
<1>2. TicksTyped /\ Inv
  BY DEF KeeperInv, TypeInv
<1>3. CASE Goto(t, NextOrder(t, s))
  BY <1>2, <1>3, PlanMove DEF NextOrder
<1>4. CASE plan # Skip /\ Goto(t, state)
  <2>1. tick[t].now \in Nat /\ tick[t].items \in Snapshots
    BY <1>1, <1>2, LeftTyped
  <2>2. o \in Orders
    BY <1>1, <2>1, SnapshotItem
  <2>3. /\ plan \in Plans
        /\ LegalFill(plan.fillSrc, o.escrowed - o.filled, o.terms.minFill)
        /\ plan.dstRaw >= CeilRatio(plan.fillSrc, ActiveFloor(tick[t].now, o.terms))
        /\ plan.dstRaw <= dst[KeeperWallet] \/ plan.dstRaw <= out
    BY <1>2, <1>4, <2>1, <2>2, PlanFacts
  <2> HIDE DEF plan
  <2>4. plan.dstRaw <= MAX_U64
    <3>1. plan.dstRaw \in Nat
      BY <2>3 DEF Plans
    <3>2. dst[KeeperWallet] \in 0..MAX_U64 /\ out \in 0..MAX_U64
      BY DEF QuotesFit, WalletFits, U64
    <3>3. QED
      BY <2>3, <3>1, <3>2, MaxAssumption
  <2>5. SoundPlan(state)
    BY <2>3, <2>4 DEF SoundPlan
  <2> HIDE DEF state
  <2>6. QED
    BY <1>2, <1>4, <2>5, PlanMove
<1>5. QED
  BY <1>1, <1>3, <1>4

LEMMA PlanRuns ==
    ASSUME QuotesFit, WalletFits, KeeperInv, PlanInv, NEW t \in Ticks, Runs(t)
    PROVE  PlanInv'
<1>0. TicksTyped
  BY DEF KeeperInv, TypeInv
<1>1. ASSUME NEW s \in Slots, NEW out \in SwapOuts, PlanOrder(t, s, out) PROVE PlanInv'
  BY <1>1, PlanOrderSound
<1>2. CASE TakeLease(t)
  <2>1. CASE Goto(t, At(t, "attempt"))
    <3>1. tick[t].at = "lease" /\ tick[t] \in Attempting(Len(landed))
      BY <1>0, <1>2, UnderwayTyped DEF TakeLease, Underway
    <3>2. SoundPlan(At(t, "attempt"))
      BY <3>1 DEF PlanInv, SoundPlan, At, Attempting
    <3>3. QED
      BY <1>0, <2>1, <3>2, PlanMove
  <2>2. CASE Goto(t, NextOrder(t, tick[t].slot))
    BY <1>0, <2>2, PlanMove DEF NextOrder
  <2>3. QED
    BY <1>2, <2>1, <2>2 DEF TakeLease
<1>3. ASSUME NEW state, Goto(t, state), state.at \notin {"lease", "attempt"}
      PROVE  PlanInv'
  BY <1>0, <1>3, PlanMove
<1>4. CASE ReadIssuer(t) \/ JudgeIssuer(t) \/ CheckFeed(t) \/ LoadOrders(t) \/ Finish(t)
  BY <1>3, <1>4 DEF ReadIssuer, JudgeIssuer, CheckFeed, LoadOrders, LoadOrdersAt,
     Finish, Idle
<1>5. ASSUME tick[t].at \in Underway, NEW at \in {"confirm", "receipt", "release"}
      PROVE  /\ At(t, at).at = at
             /\ \A outcome : [At(t, at) EXCEPT !.outcome = outcome].at = at
             /\ \A failed : [At(t, at) EXCEPT !.failed = failed].at = at
  BY <1>0, <1>5, UnderwayTyped DEF At, Attempting
<1>6. ASSUME NEW out \in SwapOuts, SendFill(t, out) PROVE PlanInv'
  BY <1>3, <1>5, <1>6 DEF SendFill, SendFillAt, Underway
<1>7. CASE Confirm(t)
  BY <1>3, <1>5, <1>7 DEF Confirm, Underway
<1>8. CASE PersistReceipt(t)
  BY <1>3, <1>5, <1>8 DEF PersistReceipt, Underway
<1>9. CASE Release(t)
  BY <1>3, <1>9 DEF Release, Idle, NextOrder
<1>10. QED
  BY <1>1, <1>2, <1>4, <1>6, <1>7, <1>8, <1>9 DEF Runs

LEMMA PlanStep ==
    ASSUME QuotesFit
    PROVE  WalletFits /\ KeeperInv /\ PlanInv /\ [KeeperNext]_allVars => PlanInv'
<1> SUFFICES ASSUME WalletFits, KeeperInv, PlanInv, [KeeperNext]_allVars PROVE PlanInv'
  OBVIOUS
<1>0. TicksTyped
  BY DEF KeeperInv, TypeInv
<1>1. UNCHANGED tick => PlanInv'
  BY DEF PlanInv, SoundPlan
<1>2. ASSUME NEW t \in Ticks, Runs(t) PROVE PlanInv'
  BY <1>2, PlanRuns
<1>3. ASSUME NEW t \in Ticks, Sent(t) PROVE tick[t] \in Attempting(Len(landed))
  BY <1>0, <1>3, UnderwayTyped DEF Sent, Underway
<1>4. ASSUME NEW t \in Ticks, Drop(t) \/ Answered(t) PROVE PlanInv'
  <2>1. tick[t].at = "confirm" /\ tick[t] \in Attempting(Len(landed))
    BY <1>3, <1>4 DEF Drop, Answered, Land, Revert, Sent
  <2>2. ASSUME NEW outcome, Goto(t, [tick[t] EXCEPT !.outcome = outcome])
        PROVE  PlanInv'
    <3>1. [tick[t] EXCEPT !.outcome = outcome].at = "confirm"
      BY <2>1 DEF Attempting
    <3>2. QED
      BY <1>0, <2>2, <3>1, PlanMove
  <2>3. ASSUME NEW outcome, NEW sig,
               Goto(t, [tick[t] EXCEPT !.outcome = outcome, !.sig = sig])
        PROVE  PlanInv'
    <3>1. [tick[t] EXCEPT !.outcome = outcome, !.sig = sig].at = "confirm"
      BY <2>1 DEF Attempting
    <3>2. QED
      BY <1>0, <2>3, <3>1, PlanMove
  <2>4. QED
    BY <1>4, <2>2, <2>3 DEF Drop, Answered, Land, Revert
<1>5. ASSUME NEW t \in Ticks, Throw(t) PROVE PlanInv'
  <2>1. CASE Goto(t, Idle)
    BY <1>0, <2>1, PlanMove DEF Idle
  <2>2. CASE /\ tick[t].at \in {"attempt", "confirm", "receipt"}
             /\ Goto(t, [At(t, "release") EXCEPT !.failed = TRUE])
    <3>1. tick[t] \in Attempting(Len(landed))
      BY <1>0, <2>2, UnderwayTyped DEF Underway
    <3>2. [At(t, "release") EXCEPT !.failed = TRUE].at = "release"
      BY <3>1 DEF At, Attempting
    <3>3. QED
      BY <1>0, <2>2, <3>2, PlanMove
  <2>3. QED
    BY <1>5, <2>1, <2>2 DEF Throw
<1>6. ASSUME NEW p \in Processes, Crash(p) PROVE PlanInv'
  BY <1>6 DEF Crash, PlanInv, Idle, SoundPlan
<1>7. ASSUME NEW s \in Slots, LeaseRunsOut(s) PROVE PlanInv'
  <2>1. tick' = [t \in Ticks |->
                   IF Attempts(t, s) /\ Me(t) = leases[s].worker
                   THEN [tick[t] EXCEPT !.late = TRUE] ELSE tick[t]]
    BY <1>7 DEF LeaseRunsOut
  <2>2. ASSUME NEW t \in Ticks, Attempts(t, s)
        PROVE  LET x == [tick[t] EXCEPT !.late = TRUE]
               IN  /\ x.at = tick[t].at /\ x.slot = tick[t].slot
                   /\ x.items = tick[t].items
                   /\ x.plan = tick[t].plan /\ x.now = tick[t].now
    BY <1>0, <2>2, UnderwayTyped DEF Attempts, Underway, Attempting
  <2>3. QED
    BY <2>1, <2>2 DEF PlanInv, SoundPlan
<1>8. ASSUME \/ \E t \in Ticks : DropLoose(t)
             \/ \E t \in Ticks, out \in SwapOuts : LandLoose(t, out)
             \/ RefreshFeed \/ FeedAges \/ World \/ UNCHANGED allVars
      PROVE  PlanInv'
  BY <1>1, <1>8 DEF DropLoose, LandLoose, RefreshFeed, FeedAges, World, keeperVars, allVars
<1>9. QED
  BY <1>2, <1>4, <1>5, <1>6, <1>7, <1>8 DEF KeeperNext, SmoothNext, Fails

(* A sound plan for an order that is as it was read is one the program takes:
   the floor in force may have sunk below the one planned with, but is never
   above it, unless the failsafe had set in for the host alone. *)
LEMMA SoundIsAccepted ==
    ASSUME KeeperInv, PlanInv, NEW t \in Ticks, tick[t].at = "attempt", StillAsRead(t)
    PROVE  Executable(TxOf(t), TxOf(t).pay)
<1> DEFINE s == tick[t].slot
           o == order[s]
           size == tick[t].plan.fillSrc
           pay == tick[t].plan.dstRaw
           floor == ActiveFloor(now, o.terms)
           left == o.escrowed - o.filled
<1>1. Inv /\ TicksTyped /\ tick[t] \in Attempting(Len(landed))
  BY UnderwayTyped DEF KeeperInv, TypeInv, Underway
<1>2. /\ s \in Slots /\ s \in DOMAIN tick[t].items /\ tick[t].items \in Snapshots
      /\ size \in Nat \ {0} /\ pay \in Nat
  BY <1>1 DEF Attempting, Plans, TicksTyped, HoldsItsOrder, Underway
<1>3. /\ o = tick[t].items[s] /\ now < o.terms.hardExpiry
      /\ MintAllowed /\ mint.dstRate = 0 /\ stray[s] = 0
  BY DEF StillAsRead
<1>4. o \in Orders /\ IsOpen(s)
  BY <1>2, <1>3, SnapshotItem, OrderTyped DEF IsOpen
<1>5. SoundPlan(tick[t])
  BY DEF PlanInv
<1>6. LegalFill(size, left, o.terms.minFill) /\ pay >= CeilRatio(size, floor) /\ pay <= MAX_U64
  <2> DEFINE then == ActiveFloor(tick[t].now, o.terms)
  <2>1. LegalFill(size, left, o.terms.minFill) /\ pay >= CeilRatio(size, then) /\ pay <= MAX_U64
    BY <1>3, <1>5 DEF SoundPlan
  <2>2. /\ o.terms \in [minRatio : Nat, failsafeFloor : Nat, failsafeTs : Nat,
                        hardExpiry : Nat, minFill : Nat]
        /\ o.terms.failsafeFloor <= o.terms.minRatio
    <3>1. ValidTerms(o.terms)
      BY <1>1, <1>2, <1>4 DEF Inv, TermsValid
    <3>2. QED
      BY <1>4, <3>1, OrderTyped, TermsAssumption DEF ValidTerms, Orders, U64
  <2>3. FailsafeAgreed(t, o.terms)
    BY DEF StillAsRead
  <2>4. floor \in Nat /\ then \in Nat /\ floor <= then
    BY <2>2, <2>3, <1>1, FloorSinksWithFailsafe
       DEF FailsafeAgreed, ActiveFloor, Attempting, Inv, TypeOK
  <2> HIDE DEF then
  <2>5. CeilRatio(size, floor) \in Nat /\ CeilRatio(size, then) \in Nat
        /\ CeilRatio(size, floor) <= CeilRatio(size, then)
    BY <1>2, <2>4, CeilRatioGrows
  <2>6. QED
    BY <1>2, <2>1, <2>5
<1>7. escrow[s] = left /\ left \in Nat
  <2>1. escrow[s] = o.escrowed - o.filled + stray[s] /\ escrow[s] \in Nat
    BY <1>1, <1>2, <1>4 DEF Inv, EscrowCovers, Covered, TypeOK
  <2>2. QED
    BY <1>3, <1>4, <2>1, OrderTyped
<1>8. floor \in Nat \ {0}
  <2>1. ValidTerms(o.terms)
    BY <1>1, <1>2, <1>4 DEF Inv, TermsValid
  <2>2. QED
    BY <1>4, <2>1, OrderTyped DEF ValidTerms, ActiveFloor
<1>9. TxOf(t).slot = s /\ TxOf(t).size = size /\ TxOf(t).pay = pay
  BY DEF TxOf
<1>10. IF TxOf(t).swap THEN src[KeeperWallet] >= size ELSE dst[KeeperWallet] >= pay
  BY DEF StillAsRead, TxOf
<1>11. /\ KeeperWallet \in Users /\ KeeperWallet # OwnerOf[s]
       /\ dst[KeeperWallet] \in Nat
  BY <1>1, <1>2, KeeperAssumption DEF Inv, TypeOK
<1> HIDE DEF size, pay, s, left, floor
<1>12. size * floor \in Nat \ {0}
  BY <1>2, <1>8 DEF size
<1>13. CeilRatio(size, floor) \in 1..MAX_U64
  <2>1. /\ CeilRatio(size, floor) \in Nat
        /\ CeilRatio(size, floor) * RATIO_SCALE >= size * floor
    BY <1>12, ScaleAssumption, CeilDivBounds DEF CeilRatio
  <2>2. CeilRatio(size, floor) # 0
    BY <1>12, <2>1, ScaleAssumption
  <2>3. QED
    BY <1>2, <1>6, <2>1, <2>2, MaxAssumption
<1>14. Delivered(s, KeeperWallet, pay) = pay
  <2>1. DstFee(pay) = 0
    <3>1. pay * 0 = 0 /\ FEE_SCALE \in Nat \ {0}
      BY <1>2, FeeScaleAssumption
    <3>2. (0 + FEE_SCALE - 1) \div FEE_SCALE = 0
      BY <3>1, CeilDivBounds
    <3>3. QED
      BY <1>3, <3>1, <3>2 DEF DstFee, TransferFee, CeilDiv
  <2>2. QED
    BY <1>2, <1>11, <2>1 DEF Delivered
<1>15. PaysFloor(s, KeeperWallet, size, pay)
  BY <1>6, <1>13, <1>14 DEF PaysFloor, RatioFits, floor
<1>16. WithinOrder(s, size)
  <2>1. size <= left
    BY <1>6 DEF LegalFill
  <2>2. QED
    BY <1>2, <1>4, <2>1, OrderTyped DEF WithinOrder, left, size
<1>17. ASSUME NEW held \in Nat, held >= pay
       PROVE  FillAccepted(s, KeeperWallet, size, pay, held)
  BY <1>3, <1>4, <1>6, <1>7, <1>15, <1>16, <1>17 DEF FillAccepted, BeforeHardExpiry
<1>18. pay > 0
  BY <1>2, <1>6, <1>13, MaxAssumption
<1>19. CASE TxOf(t).swap
  <2>1. dst[KeeperWallet] + pay \in Nat /\ dst[KeeperWallet] + pay >= pay
    BY <1>2, <1>11
  <2>2. QED
    BY <1>9, <1>10, <1>17, <1>18, <1>19, <2>1 DEF Executable
<1>20. CASE ~TxOf(t).swap
  BY <1>9, <1>10, <1>11, <1>17, <1>20 DEF Executable
<1>21. QED
  BY <1>19, <1>20

(* The destination fee, which the keeper does not look at (policy.ts:75): while
   the destination mint takes one, a plan from inventory made by the chain's
   time is refused however fresh it is, since it pays exactly the minimum and
   the owner receives less.
   The keeper then serves from swaps or not at all. *)
THEOREM InventoryRefusedUnderFee ==
    ASSUME Inv, NEW s \in Slots, IsOpen(s), mint.dstRate # 0, NEW out \in Nat, NEW held,
           PlanFor(order[s], now, out).action = "inventory"
    PROVE  LET plan == PlanFor(order[s], now, out)
           IN  ~FillAccepted(s, KeeperWallet, plan.fillSrc, plan.dstRaw, held)
<1> DEFINE o == order[s]
           left == o.escrowed - o.filled
           plan == PlanFor(o, now, out)
           size == FillSize(left, SpendCap, o.terms.minFill)
           due == CeilRatio(size, ActiveFloor(now, o.terms))
<1> DEFINE quote == QuoteFor(size, out)
           chosen == ChooseFillPlan(left, SpendCap, o.terms.minFill,
                                    ActiveFloor(now, o.terms), dst[KeeperWallet],
                                    quote, Unquoted)
<1>0. plan.action = "inventory"
  OBVIOUS
<1>1. plan = Plan("inventory", size, due)
  <2>1. plan = chosen \/ plan = Skip
    BY DEF PlanFor
  <2>2. chosen \in {Skip, Plan("inventory", size, due), Plan("atomic_swap", size, quote.out)}
    BY DEF ChooseFillPlan
  <2> HIDE DEF plan, chosen, size, due, quote
  <2>3. plan \in {Skip, Plan("inventory", size, due), Plan("atomic_swap", size, quote.out)}
    BY <2>1, <2>2
  <2>4. QED
    BY <1>0, <2>3 DEF Plan, Skip
<1>2. plan.fillSrc = size /\ plan.dstRaw = due
  BY <1>1 DEF Plan
<1> HIDE DEF plan, size
<1>3. SUFFICES ASSUME PaysFloor(s, KeeperWallet, size, due) PROVE FALSE
  BY <1>2 DEF FillAccepted, plan
<1>4. due \in 1..MAX_U64 /\ Delivered(s, KeeperWallet, due) >= due
  BY <1>3 DEF PaysFloor, RatioFits
<1> HIDE DEF due
<1>5. mint.dstRate \in Nat \ {0} /\ FEE_SCALE \in Nat \ {0}
  <2>1. mint \in Mints /\ FEE_SCALE \in Nat \ {0}
    BY FeeScaleAssumption DEF Inv, TypeOK
  <2>2. mint.dstRate \in 0..FEE_SCALE
    BY <2>1, RatesAssumption DEF Mints
  <2>3. QED
    BY <2>1, <2>2
<1>6. due \in Nat \ {0} /\ due * mint.dstRate \in Nat \ {0}
  BY <1>4, <1>5, MaxAssumption
<1>7. DstFee(due) \in Nat /\ DstFee(due) # 0
  <2>1. /\ DstFee(due) \in Nat
        /\ DstFee(due) * FEE_SCALE >= due * mint.dstRate
    BY <1>5, <1>6, CeilDivBounds DEF DstFee, TransferFee
  <2>2. QED
    BY <1>5, <1>6, <2>1
<1>8. QED
  BY <1>4, <1>6, <1>7 DEF Delivered

(* Policy and program agree for every order, cap, quote and floor, and
   whatever the hosts' clocks read: what the keeper planned of an order that is
   still as it read it, the program accepts, however late it comes before the
   hard expiry, as long as amounts stay within the 64 bits tokens have, and
   unless the failsafe had set in by the host's clock and not by the chain's. *)
THEOREM PlansAlwaysAccepted ==
    ASSUME QuotesFit
    PROVE  KeeperSpec /\ []WalletFits => []PlansAreAccepted
<1>1. KeeperInit => PlanInv
  BY DEF KeeperInit, PlanInv, Idle
<1>2. WalletFits /\ KeeperInv /\ PlanInv /\ [KeeperNext]_allVars => PlanInv'
  BY PlanStep
<1>3. KeeperInv /\ PlanInv => PlansAreAccepted
  BY SoundIsAccepted DEF PlansAreAccepted
<1>4. QED
  BY <1>1, <1>2, <1>3, KeeperInvariance, PTL DEF KeeperSpec

=============================================================================
