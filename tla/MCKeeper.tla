------------------------------ MODULE MCKeeper ------------------------------
(***************************************************************************)
(* Small instances of Keeper: one order address, one owner and the keeper. *)
(* RATIO_SCALE is 2, so minimum payments round; MathCheck joins one run.   *)
(***************************************************************************)
EXTENDS Keeper, MathCheck

CONSTANTS alice, keeper, s1, p1, p2, t1, t2

MCUsers == {alice, keeper}

MCOwnerOf == [s \in Slots |-> alice]

Ask(minRatio, failsafeFloor, failsafeTs, hardExpiry, minFill) ==
    [minRatio |-> minRatio, failsafeFloor |-> failsafeFloor,
     failsafeTs |-> failsafeTs, hardExpiry |-> hardExpiry, minFill |-> minFill]

\* A minimum fill at the cap, with a failsafe; above it, with an expiry.
MCTerms == {Ask(3, 1, 1, 3, 1), Ask(3, 1, 1, 1, 2)}

\* No expiry within the time of the instance.
MCOpenEnded == {Ask(3, 2, 1, 3, 1)}

MCLowSupply == [u \in Users |-> IF u = alice THEN 2 ELSE 0]

MCDstSupply == [u \in Users |-> IF u = alice THEN 0 ELSE 4]

\* Inventory for one fill, so that the other is swapped for.
MCLowInventory == [u \in Users |-> IF u = alice THEN 0 ELSE 2]

\* One process, whose ticks overlap; or two, of one tick each.
MCOneProcess == [t \in Ticks |-> p1]

MCOwnProcess == [t \in Ticks |-> IF t = t1 THEN p1 ELSE p2]

MCSameWorker == [p \in Processes |-> "tminus-keeper-1"]

MCOwnWorker == [p \in Processes |-> p]

=============================================================================
