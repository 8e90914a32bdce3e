----------------------------- MODULE MathProofs -----------------------------
(***************************************************************************)
(* What the arithmetic of TminusMath guarantees for every amount, ratio    *)
(* and scale.  The escrow and the keeper cite these facts by name.         *)
(***************************************************************************)
EXTENDS MathCheck, TLAPS

(* Division rounds down: the quotient fits under n and one more does not. *)
LEMMA DivisionBounds ==
    ASSUME NEW n \in Nat, NEW d \in Nat \ {0}
    PROVE  /\ n \div d \in Nat
           /\ (n \div d) * d <= n
           /\ n < (n \div d) * d + d
  <1> DEFINE q == n \div d
             r == n % d
  <1>1. q \in Int /\ r \in 0..(d - 1) /\ n = d * q + r
    OBVIOUS
  <1>2. q >= 0
    BY <1>1
  <1> HIDE DEF q, r
  <1>3. d * q = q * d
    BY <1>1
  <1>4. q * d <= n /\ n < q * d + d
    BY <1>1, <1>3
  <1>5. QED
    BY <1>1, <1>2, <1>4 DEF q

(* Rounding up covers n with the fewest multiples of d. *)
LEMMA CeilDivBounds ==
    ASSUME NEW n \in Nat, NEW d \in Nat \ {0}
    PROVE  /\ CeilDiv(n, d) \in Nat
           /\ CeilDiv(n, d) * d >= n
           /\ (CeilDiv(n, d) - 1) * d < n
  <1> DEFINE m == n + d - 1
             q == m \div d
  <1>1. m \in Nat
    OBVIOUS
  <1>2. q \in Nat /\ q * d <= m /\ m < q * d + d
    BY <1>1, DivisionBounds
  <1>3. CeilDiv(n, d) = q
    BY DEF CeilDiv
  <1> HIDE DEF q
  <1>4. (q - 1) * d = q * d - d
    BY <1>2
  <1>5. q * d \in Int
    BY <1>2
  <1>6. q * d >= n /\ (q - 1) * d < n
    BY <1>2, <1>4, <1>5
  <1>7. QED
    BY <1>2, <1>3, <1>6

(* Products with a positive factor keep the order, strictly. *)
LEMMA ProductOrder ==
    ASSUME NEW a \in Int, NEW b \in Int, NEW d \in Nat \ {0}
    PROVE  a <= b <=> a * d <= b * d
  <1>1. ASSUME a <= b PROVE a * d <= b * d
    BY <1>1
  <1>2. ASSUME b + 1 <= a PROVE b * d < a * d
    <2>1. (b + 1) * d <= a * d
      BY <1>2
    <2>2. (b + 1) * d = b * d + d
      OBVIOUS
    <2>3. b * d \in Int /\ a * d \in Int
      OBVIOUS
    <2>4. QED
      BY <2>1, <2>2, <2>3
  <1>3. QED
    <2>1. a * d \in Int /\ b * d \in Int
      OBVIOUS
    <2>2. QED
      BY <1>1, <1>2, <2>1

LEMMA ProductGrows ==
    ASSUME NEW d \in Nat, NEW a \in Nat, NEW b \in Nat, a <= b
    PROVE  d * a <= d * b
  <1>1. CASE d = 0
    BY <1>1
  <1>2. CASE d # 0
    <2>1. a * d <= b * d
      BY <1>2, ProductOrder
    <2>2. a * d = d * a /\ b * d = d * b
      OBVIOUS
    <2>3. QED
      BY <2>1, <2>2
  <1>3. QED
    BY <1>1, <1>2

(* An amount delivered covers ceil_ratio exactly when it is worth the ratio:
   the rounding up of ceil_ratio neither waives nor adds a unit. *)
THEOREM CeilRatioLeast ==
    ASSUME NEW src \in Nat, NEW ratio \in Nat, NEW pay \in Nat
    PROVE  pay >= CeilRatio(src, ratio) <=> pay * RATIO_SCALE >= src * ratio
  <1> DEFINE n == src * ratio
             q == CeilDiv(n, RATIO_SCALE)
  <1>1. n \in Nat
    OBVIOUS
  <1>2. /\ q \in Nat
        /\ q * RATIO_SCALE >= n
        /\ (q - 1) * RATIO_SCALE < n
    BY <1>1, ScaleAssumption, CeilDivBounds
  <1>3. CeilRatio(src, ratio) = q
    BY DEF CeilRatio
  <1> HIDE DEF n, q
  <1>4. pay * RATIO_SCALE \in Int /\ q * RATIO_SCALE \in Int
        /\ (q - 1) * RATIO_SCALE \in Int
    BY <1>2, ScaleAssumption
  <1>5. ASSUME pay >= q PROVE pay * RATIO_SCALE >= n
    <2>1. q * RATIO_SCALE <= pay * RATIO_SCALE
      BY <1>2, <1>5, ScaleAssumption, ProductOrder
    <2>2. QED
      BY <1>1, <1>2, <1>4, <2>1
  <1>6. ASSUME pay <= q - 1 PROVE ~(pay * RATIO_SCALE >= n)
    <2>1. pay * RATIO_SCALE <= (q - 1) * RATIO_SCALE
      BY <1>2, <1>6, ScaleAssumption, ProductOrder
    <2>2. QED
      BY <1>1, <1>2, <1>4, <2>1
  <1>7. pay >= q \/ pay <= q - 1
    BY <1>2
  <1>8. pay >= q <=> pay * RATIO_SCALE >= n
    BY <1>2, <1>5, <1>6, <1>7
  <1>9. QED
    BY <1>3, <1>8 DEF n

(* A larger fill, or one at a higher floor, never costs less. *)
LEMMA CeilRatioGrows ==
    ASSUME NEW src \in Nat, NEW ratio \in Nat, NEW more \in Nat, NEW higher \in Nat,
           src <= more, ratio <= higher
    PROVE  /\ CeilRatio(src, ratio) \in Nat
           /\ CeilRatio(more, higher) \in Nat
           /\ CeilRatio(src, ratio) <= CeilRatio(more, higher)
  <1> DEFINE due == CeilRatio(src, ratio)
             pay == CeilRatio(more, higher)
  <1>1. src * ratio \in Nat /\ more * higher \in Nat
    OBVIOUS
  <1>2. due \in Nat /\ pay \in Nat /\ pay * RATIO_SCALE >= more * higher
    BY <1>1, ScaleAssumption, CeilDivBounds DEF CeilRatio
  <1>3. src * ratio <= more * higher
    <2>1. src * ratio <= src * higher
      BY ProductGrows
    <2>2. higher * src <= higher * more
      BY ProductGrows
    <2>3. src * higher = higher * src /\ higher * more = more * higher
      OBVIOUS
    <2>4. src * higher \in Nat
      OBVIOUS
    <2>5. QED
      BY <1>1, <2>1, <2>2, <2>3, <2>4
  <1> HIDE DEF pay
  <1>4. pay * RATIO_SCALE \in Nat
    BY <1>2, ScaleAssumption
  <1>5. pay * RATIO_SCALE >= src * ratio
    BY <1>1, <1>2, <1>3, <1>4
  <1>6. pay >= due
    BY <1>2, <1>5, CeilRatioLeast
  <1>7. QED
    BY <1>2, <1>6 DEF pay

(* Rounding each fill up by itself: two fills of an order together never pay
   less than one of both, and at most one unit more.  Splitting an order costs
   its fillers, never its owner. *)
THEOREM SplittingPaysNoLess ==
    ASSUME NEW a \in Nat, NEW b \in Nat, NEW ratio \in Nat
    PROVE  LET whole == CeilRatio(a + b, ratio)
               parts == CeilRatio(a, ratio) + CeilRatio(b, ratio)
           IN  parts >= whole /\ parts <= whole + 1
  <1> DEFINE p == CeilRatio(a, ratio)
             q == CeilRatio(b, ratio)
             w == CeilRatio(a + b, ratio)
             S == RATIO_SCALE
  <1>1. /\ a * ratio \in Nat /\ b * ratio \in Nat /\ (a + b) * ratio \in Nat
        /\ (a + b) * ratio = a * ratio + b * ratio
        /\ S \in Nat \ {0}
    BY ScaleAssumption
  <1>2. /\ p \in Nat /\ p * S >= a * ratio /\ (p - 1) * S < a * ratio
        /\ q \in Nat /\ q * S >= b * ratio /\ (q - 1) * S < b * ratio
        /\ w \in Nat /\ w * S >= (a + b) * ratio
    BY <1>1, CeilDivBounds DEF CeilRatio
  <1> HIDE DEF p, q, w, S
  <1>3. /\ (p + q) * S = p * S + q * S
        /\ (p + q - 2) * S = (p - 1) * S + (q - 1) * S
        /\ p * S \in Int /\ q * S \in Int /\ w * S \in Int
        /\ (p - 1) * S \in Int /\ (q - 1) * S \in Int
    BY <1>1, <1>2
  <1>4. p + q >= w
    <2>1. (p + q) * S >= (a + b) * ratio
      BY <1>1, <1>2, <1>3
    <2>2. p + q \in Nat /\ a + b \in Nat
      BY <1>2
    <2>3. p + q >= w <=> (p + q) * S >= (a + b) * ratio
      BY <2>2, CeilRatioLeast DEF w, S
    <2>4. QED
      BY <2>1, <2>3
  <1>5. ~(w <= p + q - 2)
    <2>1. SUFFICES ASSUME w <= p + q - 2 PROVE FALSE
      OBVIOUS
    <2>2. w * S <= (p + q - 2) * S
      BY <1>1, <1>2, <2>1, ProductOrder
    <2>3. QED
      BY <1>1, <1>2, <1>3, <2>2
  <1>6. QED
    BY <1>2, <1>4, <1>5 DEF p, q, w

(* The test the keeper applies to a quote, rounding down, is the test the
   program applies to the delivery, rounding up. *)
THEOREM FillableIffCovers ==
    ASSUME NEW in \in Nat \ {0}, NEW out \in Nat, NEW floor \in Nat
    PROVE  IsFillable(QuoteRatio(out, in), floor) <=> out >= CeilRatio(in, floor)
  <1> DEFINE n == out * RATIO_SCALE
             q == n \div in
  <1>1. n \in Nat
    BY ScaleAssumption
  <1> HIDE DEF n
  <1>2. q \in Nat /\ q * in <= n /\ n < q * in + in
    BY <1>1, DivisionBounds
  <1>3. IsFillable(QuoteRatio(out, in), floor) <=> q >= floor
    BY DEF IsFillable, QuoteRatio, n
  <1> HIDE DEF q
  <1>4. q * in \in Int /\ floor * in \in Int /\ (q + 1) * in = q * in + in
    BY <1>2
  <1>5. ASSUME floor <= q PROVE n >= floor * in
    <2>1. floor * in <= q * in
      BY <1>2, <1>5, ProductOrder
    <2>2. QED
      BY <1>1, <1>2, <1>4, <2>1
  <1>6. ASSUME q + 1 <= floor PROVE ~(n >= floor * in)
    <2>1. (q + 1) * in <= floor * in
      BY <1>2, <1>6, ProductOrder
    <2>2. QED
      BY <1>1, <1>2, <1>4, <2>1
  <1>7. q >= floor <=> n >= floor * in
    BY <1>2, <1>5, <1>6
  <1>8. floor * in = in * floor
    OBVIOUS
  <1>9. out >= CeilRatio(in, floor) <=> n >= in * floor
    BY CeilRatioLeast DEF n
  <1>10. QED
    BY <1>3, <1>7, <1>8, <1>9

(* Every size the keeper picks is one the minimum-fill rule accepts. *)
THEOREM KeeperSizeLegal ==
    ASSUME NEW remaining \in Nat, NEW cap \in Nat, NEW minFill \in Nat,
           FillSize(remaining, cap, minFill) # NoFill
    PROVE  LegalFill(FillSize(remaining, cap, minFill), remaining, minFill)
  BY DEF FillSize, NoFill, LegalFill

(* The floor rises between two readings of a clock, or of two clocks, only
   where the failsafe had set in by the first and not by the second. *)
THEOREM FloorSinksWithFailsafe ==
    ASSUME NEW terms \in [minRatio : Nat, failsafeFloor : Nat, failsafeTs : Nat,
                          hardExpiry : Nat, minFill : Nat],
           terms.failsafeFloor <= terms.minRatio,
           NEW first \in Nat, NEW second \in Nat,
           first >= terms.failsafeTs => second >= terms.failsafeTs
    PROVE  ActiveFloor(second, terms) <= ActiveFloor(first, terms)
  BY DEF ActiveFloor

(* A transfer fee is never more than the transfer. *)
LEMMA FeeWithinAmount ==
    ASSUME NEW amount \in Nat, NEW rate \in 0..FEE_SCALE
    PROVE  TransferFee(amount, rate) \in 0..amount
  <1> DEFINE n == amount * rate
             q == CeilDiv(n, FEE_SCALE)
  <1>1. FEE_SCALE \in Nat \ {0}
    BY FeeScaleAssumption
  <1>2. n \in Nat
    BY <1>1
  <1>3. n <= amount * FEE_SCALE
    BY <1>1
  <1>4. TransferFee(amount, rate) = q
    BY DEF TransferFee
  <1> HIDE DEF n
  <1>5. q \in Nat /\ (q - 1) * FEE_SCALE < n
    BY <1>1, <1>2, CeilDivBounds
  <1> HIDE DEF q
  <1>6. (q - 1) * FEE_SCALE \in Int /\ amount * FEE_SCALE \in Int
    BY <1>1, <1>5
  <1>7. ~(amount <= q - 1)
    <2>1. SUFFICES ASSUME amount <= q - 1 PROVE FALSE
      OBVIOUS
    <2>2. amount * FEE_SCALE <= (q - 1) * FEE_SCALE
      BY <1>1, <1>5, <2>1, ProductOrder
    <2>3. QED
      BY <1>2, <1>3, <1>5, <1>6, <2>2
  <1>8. QED
    BY <1>4, <1>5, <1>7

(* A plan the keeper acts on is one the program accepts, as long as the
   escrow holds what the keeper has read: its size is legal, it delivers the
   minimum at the floor read, and the filler has, or swaps for, the tokens.
   The quote, if there is one, is for the size of the plan. *)
THEOREM PlanAcceptable ==
    ASSUME NEW remaining \in Nat, NEW cap \in Nat, NEW minFill \in Nat,
           NEW floor \in Nat, NEW inventory \in Nat,
           NEW quote \in [in : Nat, out : Nat], NEW unquoted \in BOOLEAN,
           quote.in \in {0, FillSize(remaining, cap, minFill)},
           ChooseFillPlan(remaining, cap, minFill, floor, inventory, quote,
                          unquoted).action # "skip"
    PROVE  LET plan == ChooseFillPlan(remaining, cap, minFill, floor,
                                      inventory, quote, unquoted)
           IN  /\ LegalFill(plan.fillSrc, remaining, minFill)
               /\ plan.dstRaw >= CeilRatio(plan.fillSrc, floor)
               /\ plan.dstRaw <= IF plan.action = "inventory"
                                 THEN inventory
                                 ELSE quote.out
  <1> DEFINE size == FillSize(remaining, cap, minFill)
             minDst == CeilRatio(size, floor)
             plan == ChooseFillPlan(remaining, cap, minFill, floor, inventory,
                                    quote, unquoted)
  <1>1. size \in Nat
    BY DEF FillSize, NoFill
  <1>2. size # NoFill
    BY DEF ChooseFillPlan, Skip
  <1>3. LegalFill(size, remaining, minFill)
    BY <1>2, KeeperSizeLegal
  <1>4. minDst \in Nat
    <2>1. size * floor \in Nat
      BY <1>1
    <2>2. CeilDiv(size * floor, RATIO_SCALE) \in Nat
      BY <2>1, ScaleAssumption, CeilDivBounds
    <2>3. QED
      BY <2>2 DEF CeilRatio
  <1>5. CASE quote.in > 0
    <2>1. quote.in = size
      BY <1>5
    <2>2. /\ IsFillable(QuoteRatio(quote.out, quote.in), floor)
          /\ plan = IF inventory >= minDst
                    THEN Plan("inventory", size, minDst)
                    ELSE Plan("atomic_swap", size, quote.out)
      BY <1>2, <1>5 DEF ChooseFillPlan, Skip
    <2>3. quote.out >= minDst
      BY <1>1, <1>2, <2>1, <2>2, FillableIffCovers DEF NoFill
    <2>4. QED
      BY <1>3, <1>4, <2>2, <2>3 DEF Plan
  <1>6. CASE quote.in <= 0
    <2>1. plan = Plan("inventory", size, minDst) /\ inventory >= minDst
      BY <1>2, <1>6 DEF ChooseFillPlan, Skip
    <2>2. QED
      BY <1>3, <1>4, <2>1 DEF Plan
  <1>7. QED
    BY <1>5, <1>6

-----------------------------------------------------------------------------

(* What MathCheck enumerates, for any bound of its ranges: ceil_ratio is the
   least amount that covers src * ratio. *)
THEOREM CeilRatioIsAlwaysLeast == CeilRatioIsLeast
  <1>1. SUFFICES ASSUME NEW src \in Smalls, NEW ratio \in Floors
                 PROVE  CeilIsLeast(src, ratio)
    BY DEF CeilRatioIsLeast
  <1>2. src \in Nat /\ ratio \in Nat
    BY RangeAssumption DEF Smalls, Floors
  <1>3. src * ratio \in Nat
    BY <1>2
  <1>4. QED
    BY <1>3, ScaleAssumption, CeilDivBounds DEF CeilIsLeast, CeilRatio

(* The keeper's rounded-down quote ratio and the program's rounded-up minimum
   agree on every quote. *)
THEOREM FillableAlwaysDelivers == FillableIffDelivers
  <1>1. /\ Smalls \subseteq Nat
        /\ Floors \subseteq Nat
    BY RangeAssumption DEF Smalls, Floors
  <1>2. QED
    BY <1>1, FillableIffCovers DEF FillableIffDelivers, Agree

(* No plan of the keeper is one the program would refuse for its size or for
   what it delivers. *)
THEOREM PlanIsAlwaysAcceptable == PlanIsAcceptable
  <1>1. SUFFICES ASSUME NEW z \in Sizings, NEW floor \in Floors,
                        NEW inventory \in Smalls, NEW unquoted \in BOOLEAN,
                        NEW quote \in QuotesFor(SizeOf(z))
                 PROVE  Acceptable(PlanOf(z, floor, inventory, quote, unquoted),
                                   z, floor, inventory, quote)
    BY DEF PlanIsAcceptable
  <1>2. /\ z.remaining \in Nat /\ z.cap \in Nat /\ z.minFill \in Nat
        /\ floor \in Nat /\ inventory \in Nat
    BY RangeAssumption DEF Sizings, Floors, Smalls
  <1>3. SizeOf(z) \in Nat
    BY <1>2 DEF SizeOf, FillSize, NoFill
  <1>4. /\ quote \in [in : Nat, out : Nat]
        /\ quote.in \in {0, FillSize(z.remaining, z.cap, z.minFill)}
    BY <1>3, RangeAssumption DEF QuotesFor, NoQuote, Smalls, SizeOf
  <1>5. QED
    BY <1>2, <1>4, PlanAcceptable DEF Acceptable, PlanOf

=============================================================================
