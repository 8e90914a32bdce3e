----------------------------- MODULE TminusMath -----------------------------
(***************************************************************************)
(* The arithmetic every part of T-MINUS agrees on: ratios in fixed point,  *)
(* the floor in force at a time, the size of a fill, and the rule by which *)
(* the program accepts it.  The program computes in Rust (lib.rs), the     *)
(* keeper and the SDK recompute the same values in bigint.  Everything     *)
(* here is an operator; MathCheck enumerates the inputs, MathProofs proves *)
(* the facts the escrow and the keeper rest on.                            *)
(***************************************************************************)
EXTENDS Integers

CONSTANTS
    RATIO_SCALE,  \* one in fixed point: 10^9 in the code
    FEE_SCALE,    \* one in fee points: Token-2022 counts 10^4 basis points
    MAX_U64       \* largest amount the program can hold: 2^64 - 1

ASSUME ScaleAssumption == RATIO_SCALE \in Nat \ {0}
ASSUME FeeScaleAssumption == FEE_SCALE \in Nat \ {0}
ASSUME MaxAssumption == MAX_U64 \in Nat \ {0}

U64 == 0..MAX_U64

CeilDiv(n, d) == (n + d - 1) \div d

(***************************************************************************)
(* ceil_ratio: the least destination amount a fill of src must deliver.    *)
(* The u128 intermediate cannot overflow; the result must fit in u64 and   *)
(* be positive, otherwise the instruction fails.                           *)
(***************************************************************************)
CeilRatioTruncated(src, ratio) == (src * ratio) \div RATIO_SCALE  \* mutant

CeilRatio(src, ratio) == CeilDiv(src * ratio, RATIO_SCALE)

RatioFits(src, ratio) == CeilRatio(src, ratio) \in 1..MAX_U64

(* activeFloor / the floor in fill: the failsafe floor replaces the minimum
   ratio from failsafe_ts on, that instant included. *)
ActiveFloor(now, terms) ==
    IF now >= terms.failsafeTs THEN terms.failsafeFloor ELSE terms.minRatio

(* quoteRatioE9: a quoted price, rounded down. *)
QuoteRatioRoundedUp(out, in) == CeilDiv(out * RATIO_SCALE, in)  \* mutant

QuoteRatio(out, in) == (out * RATIO_SCALE) \div in

IsFillable(quote, floor) == quote >= floor

(***************************************************************************)
(* fillSize: how much of an order the keeper takes under its spend cap;    *)
(* NoFill stands for null, no size being 0.                                *)
(***************************************************************************)
NoFill == 0

FillSizeUpToCap(remaining, cap, minFill) ==  \* mutant: minimum not looked at
    IF remaining <= 0 \/ cap <= 0 THEN NoFill
    ELSE IF remaining > cap THEN cap ELSE remaining

FillSize(remaining, cap, minFill) ==
    LET size == IF remaining > cap THEN cap ELSE remaining
    IN  IF \/ remaining <= 0
           \/ cap <= 0
           \/ size < minFill /\ size # remaining
        THEN NoFill
        ELSE size

(***************************************************************************)
(* The sizes fill accepts: at least min_fill_raw, or everything that is    *)
(* left; a remainder not above min_fill_raw only as a whole.               *)
(***************************************************************************)
LegalFill(size, remaining, minFill) ==
    /\ size > 0
    /\ size <= remaining
    /\ IF remaining > minFill
       THEN size >= minFill \/ size = remaining
       ELSE size = remaining

(***************************************************************************)
(* A Token-2022 transfer fee: a share of the amount, rounded up, withheld  *)
(* in the receiving account.                                               *)
(***************************************************************************)
TransferFee(amount, rate) == CeilDiv(amount * rate, FEE_SCALE)

(***************************************************************************)
(* chooseFillPlan: what one tick does about an order, from what the keeper *)
(* has read of it.  quote is NoQuote or an exact-in quote for quote.in.    *)
(***************************************************************************)
NoQuote == [in |-> 0, out |-> 0]

Skip == [action |-> "skip", fillSrc |-> 0, dstRaw |-> 0]

Plan(action, fillSrc, dstRaw) ==
    [action |-> action, fillSrc |-> fillSrc, dstRaw |-> dstRaw]

PlanWithoutQuote(remaining, cap, minFill, floor, inventory, quote, unquoted) ==
    \* mutant: a missing quote falls through to the inventory
    LET size == FillSize(remaining, cap, minFill)
    IN  IF size = NoFill THEN Skip
        ELSE Plan("inventory", size, CeilRatio(size, floor))

ChooseFillPlan(remaining, cap, minFill, floor, inventory, quote, unquoted) ==
    LET size   == FillSize(remaining, cap, minFill)
        minDst == CeilRatio(size, floor)
    IN  IF size = NoFill THEN Skip
        ELSE IF quote.in > 0
             THEN IF ~IsFillable(QuoteRatio(quote.out, quote.in), floor) THEN Skip
                  ELSE IF inventory >= minDst
                       THEN Plan("inventory", size, minDst)
                       ELSE Plan("atomic_swap", size, quote.out)
             ELSE IF unquoted /\ inventory >= minDst
                  THEN Plan("inventory", size, minDst)
                  ELSE Skip

=============================================================================
