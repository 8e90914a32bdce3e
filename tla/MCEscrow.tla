------------------------------ MODULE MCEscrow ------------------------------
(***************************************************************************)
(* Small instances of Escrow.  RATIO_SCALE is 2 and FEE_SCALE 4, so ratios *)
(* and fees round, and MAX_U64 is small enough for ceil_ratio to overflow. *)
(***************************************************************************)
EXTENDS Escrow

CONSTANTS alice, bob

MCUsers == {alice, bob}

MCOwnerOf == [s \in Slots |-> alice]

Ask(minRatio, failsafeFloor, failsafeTs, hardExpiry, minFill) ==
    [minRatio |-> minRatio, failsafeFloor |-> failsafeFloor,
     failsafeTs |-> failsafeTs, hardExpiry |-> hardExpiry, minFill |-> minFill]

(* Valid terms with a failsafe before the expiry, and with the two at one
   time; terms place refuses; a ratio that overflows. *)
MCTerms ==
    {Ask(3, 1, 1, 2, 2), Ask(2, 2, 1, 1, 1), Ask(5, 3, 1, 2, 1), Ask(1, 2, 1, 2, 1),
     Ask(3, 1, 2, 1, 1)}

MCSrcSupply == [u \in Users |-> IF u = alice THEN 3 ELSE 1]

MCDstSupply == [u \in Users |-> IF u = alice THEN 0 ELSE 5]

=============================================================================
