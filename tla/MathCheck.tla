------------------------------ MODULE MathCheck ------------------------------
(***************************************************************************)
(* The arithmetic of TminusMath over every input of a small range, against *)
(* what its callers need of it: one order as the keeper sees it, one       *)
(* filler and one quote.  No state is involved; the module joins the       *)
(* instance of the keeper, whose runs evaluate it.                         *)
(***************************************************************************)
EXTENDS TminusMath

CONSTANTS
    MaxAmount,  \* bound of every amount drawn
    MaxRatio    \* bound of every ratio drawn, in units of 1/RATIO_SCALE

ASSUME RangeAssumption == MaxAmount \in Nat /\ MaxRatio \in Nat

Smalls == 0..MaxAmount

Floors == 1..MaxRatio

\* What an order has left, the filler's cap and the order's minimum fill.
Sizings == [remaining : Smalls, cap : Smalls, minFill : 1..MaxAmount]

SizeOf(z) == FillSize(z.remaining, z.cap, z.minFill)

(* quoteExactIn asks for exactly the size the tick guessed, so a quote is
   for that size. *)
QuotesFor(size) ==
    {NoQuote} \cup
    IF size = NoFill THEN {} ELSE {[in |-> size, out |-> o] : o \in Smalls}

-----------------------------------------------------------------------------

CeilIsLeast(src, ratio) ==
    LET due == CeilRatio(src, ratio)
    IN  /\ due * RATIO_SCALE >= src * ratio
        /\ (due - 1) * RATIO_SCALE < src * ratio

Agree(in, out, floor) ==
    IsFillable(QuoteRatio(out, in), floor) <=> out >= CeilRatio(in, floor)

PlanOf(z, floor, inventory, quote, unquoted) ==
    ChooseFillPlan(z.remaining, z.cap, z.minFill, floor, inventory, quote, unquoted)

Acceptable(plan, z, floor, inventory, quote) ==
    plan.action # "skip" =>
        /\ LegalFill(plan.fillSrc, z.remaining, z.minFill)
        /\ plan.dstRaw >= CeilRatio(plan.fillSrc, floor)
        /\ plan.dstRaw <= IF plan.action = "inventory" THEN inventory ELSE quote.out

-----------------------------------------------------------------------------

(* ceil_ratio is the least amount that is worth the ratio: it covers
   src * ratio, and one unit less does not. *)
CeilRatioIsLeast == \A src \in Smalls, ratio \in Floors : CeilIsLeast(src, ratio)

(* quoteRatioE9 rounds down and ceilRatio rounds up, yet they agree: the
   keeper finds a quote fillable exactly when the program would find the
   quoted amount enough for the quoted size. *)
FillableIffDelivers ==
    \A in \in Smalls \ {0}, out \in Smalls, floor \in Floors : Agree(in, out, floor)

(* Whatever its cap and its inventory, a plan of the keeper that is not
   "skip" survives the program: its size is legal under the minimum-fill rule
   and it delivers the minimum, from tokens the filler has or has swapped
   for. *)
PlanIsAcceptable ==
    \A z \in Sizings, floor \in Floors, inventory \in Smalls, unquoted \in BOOLEAN :
        \A quote \in QuotesFor(SizeOf(z)) :
            Acceptable(PlanOf(z, floor, inventory, quote, unquoted),
                       z, floor, inventory, quote)

=============================================================================
