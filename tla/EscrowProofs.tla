---------------------------- MODULE EscrowProofs ----------------------------
(***************************************************************************)
(* Proofs about Escrow for any number of wallets and order addresses, any  *)
(* terms, supplies, fees and scales.  The inductive invariant is the three *)
(* invariants of the runs together: OwnerPaid needs the types of the       *)
(* amounts, and the types need EscrowCovers, which keeps sales within what *)
(* the order took in.                                                      *)
(***************************************************************************)
EXTENDS Escrow, MathProofs

(* The terms of a live order passed the requires of place. *)
TermsValid == \A s \in Slots : IsOpen(s) => ValidTerms(order[s].terms)

Inv == TypeOK /\ TermsValid /\ EscrowCovers /\ OwnerPaid

-----------------------------------------------------------------------------
(* Types and arithmetic. *)

LEMMA FeesTyped ==
    ASSUME mint \in Mints, NEW amount \in Nat
    PROVE  /\ SrcFee(amount) \in 0..amount
           /\ DstFee(amount) \in 0..amount
  BY RatesAssumption, FeeWithinAmount DEF Mints, SrcFee, DstFee

LEMMA OrderTyped ==
    ASSUME NEW o \in Orders
    PROVE  /\ o # NoOrder
           /\ o.escrowed \in Nat \ {0} /\ o.escrowed <= MAX_U64 /\ o.filled \in Nat
           /\ o.terms \in Terms
           /\ o.terms.minRatio \in Nat /\ o.terms.failsafeFloor \in Nat
           /\ o.terms.failsafeTs \in Nat /\ o.terms.hardExpiry \in Nat
           /\ o.terms.minFill \in Nat
  <1>1. o # NoOrder
    BY NoOrderAssumption DEF Orders
  <1>2. o.escrowed \in U64 \ {0} /\ o.filled \in U64 /\ o.terms \in Terms
    BY DEF Orders
  <1>3. o.terms \in [minRatio : U64, failsafeFloor : U64, failsafeTs : Nat,
                     hardExpiry : Nat, minFill : U64]
    BY <1>2, TermsAssumption
  <1>4. QED
    BY <1>1, <1>2, <1>3, MaxAssumption DEF U64

LEMMA OpenTyped ==
    ASSUME TypeOK, NEW s \in Slots, IsOpen(s)
    PROVE  order[s] \in Orders
  BY DEF TypeOK, IsOpen

(* A sale at the floor keeps the running total at the floor. *)
LEMMA SaleKeepsFloor ==
    ASSUME NEW got \in Nat, NEW more \in Nat, NEW sold \in Nat, NEW size \in Nat,
           NEW floor \in Nat,
           got * RATIO_SCALE >= sold * floor,
           more * RATIO_SCALE >= size * floor
    PROVE  (got + more) * RATIO_SCALE >= (sold + size) * floor
  <1>1. RATIO_SCALE \in Nat
    BY ScaleAssumption
  <1>2. (got + more) * RATIO_SCALE = got * RATIO_SCALE + more * RATIO_SCALE
    BY <1>1
  <1>3. (sold + size) * floor = sold * floor + size * floor
    OBVIOUS
  <1>4. /\ got * RATIO_SCALE \in Nat /\ more * RATIO_SCALE \in Nat
        /\ sold * floor \in Nat /\ size * floor \in Nat
    BY <1>1
  <1>5. QED
    BY <1>2, <1>3, <1>4

(* What is worth a ratio is worth a lower one. *)
LEMMA LowerFloor ==
    ASSUME NEW more \in Nat, NEW size \in Nat, NEW high \in Nat, NEW low \in Nat,
           low <= high, more * RATIO_SCALE >= size * high
    PROVE  more * RATIO_SCALE >= size * low
  <1>1. size * low <= size * high
    OBVIOUS
  <1>2. size * low \in Nat /\ size * high \in Nat /\ more * RATIO_SCALE \in Nat
    BY ScaleAssumption
  <1>3. QED
    BY <1>1, <1>2

(* A slot no step touches keeps its part of the invariant as time passes. *)
LEMMA KeptSlot ==
    ASSUME Inv, NEW r \in Slots, now' \in Nat, now' >= now,
           order'[r] = order[r], escrow'[r] = escrow[r],
           withheld'[r] = withheld[r], stray'[r] = stray[r], paid'[r] = paid[r]
    PROVE  /\ Covered(r)'
           /\ IsOpen(r)' => ValidTerms(order[r].terms)' /\ PaidFor(r)'
  <1>1. Covered(r)'
    BY DEF Inv, EscrowCovers, Covered, IsOpen
  <1>2. ASSUME IsOpen(r)' PROVE ValidTerms(order[r].terms)' /\ PaidFor(r)'
    <2>1. IsOpen(r) /\ order[r].terms.failsafeTs \in Nat /\ now \in Nat
      BY <1>2, OpenTyped, OrderTyped DEF Inv, IsOpen, TypeOK
    <2>2. PaidFor(r) /\ ValidTerms(order[r].terms)
      BY <2>1 DEF Inv, OwnerPaid, TermsValid
    <2>3. ValidTerms(order[r].terms)'
      BY <2>2 DEF ValidTerms
    <2>4. PaidFor(r)'
      BY <2>1, <2>2 DEF PaidFor, PaidAt
    <2>5. QED
      BY <2>3, <2>4
  <1>3. QED
    BY <1>1, <1>2

(* So a step that touches one slot only has that slot to answer for. *)
LEMMA OneSlot ==
    ASSUME Inv, NEW s \in Slots, now' = now, TypeOK',
           \A r \in Slots \ {s} :
               /\ order'[r] = order[r] /\ escrow'[r] = escrow[r]
               /\ withheld'[r] = withheld[r] /\ stray'[r] = stray[r]
               /\ paid'[r] = paid[r],
           Covered(s)',
           IsOpen(s)' => ValidTerms(order[s].terms)' /\ PaidFor(s)'
    PROVE  Inv'
  <1>1. now' \in Nat /\ now' >= now
    BY DEF Inv, TypeOK
  <1>2. \A r \in Slots \ {s} :
            /\ Covered(r)'
            /\ IsOpen(r)' => ValidTerms(order[r].terms)' /\ PaidFor(r)'
    BY <1>1, KeptSlot
  <1>3. EscrowCovers'
    BY <1>2 DEF EscrowCovers
  <1>4. TermsValid' /\ OwnerPaid'
    BY <1>2 DEF TermsValid, OwnerPaid
  <1>5. QED
    BY <1>3, <1>4 DEF Inv

-----------------------------------------------------------------------------
(* The invariant holds at the start, and every step keeps it. *)

LEMMA InitInv == Init => Inv
  <1> SUFFICES ASSUME Init PROVE Inv
    OBVIOUS
  <1>1. TypeOK
    BY SupplyAssumption, RatesAssumption, ControlsAssumption DEF Init, TypeOK, Mints
  <1>2. \A s \in Slots : ~IsOpen(s)
    BY DEF Init, IsOpen
  <1>3. EscrowCovers
    BY <1>2 DEF Init, EscrowCovers, Covered
  <1>4. TermsValid /\ OwnerPaid
    BY <1>2 DEF TermsValid, OwnerPaid
  <1>5. QED
    BY <1>1, <1>3, <1>4 DEF Inv

LEMMA PlaceInv ==
    ASSUME Inv, NEW s \in Slots, NEW amount \in U64, NEW t \in Terms,
           Place(s, amount, t)
    PROVE  Inv'
  <1> DEFINE owner == OwnerOf[s]
             received == EscrowedRaw(amount)
             placed == [escrowed |-> received, filled |-> 0, terms |-> t]
  <1>1. amount \in Nat /\ amount <= MAX_U64 /\ SrcFee(amount) \in 0..amount
    <2>1. amount \in Nat /\ amount <= MAX_U64
      BY MaxAssumption DEF U64
    <2>2. QED
      BY <2>1, FeesTyped DEF Inv, TypeOK
  <1>2. received \in U64 \ {0} /\ received \in Nat
    BY <1>1, MaxAssumption DEF U64, Place, FeeAccounted, EscrowedRaw
  <1>3. placed \in Orders /\ placed # NoOrder
    BY <1>2, NoOrderAssumption, MaxAssumption DEF Orders, U64
  <1>4. /\ src[owner] >= amount /\ owner \in Users
        /\ src' = [src EXCEPT ![owner] = @ - amount]
        /\ escrow' = [escrow EXCEPT ![s] = received]
        /\ withheld' = [withheld EXCEPT ![s] = SrcFee(amount)]
        /\ order' = [order EXCEPT ![s] = placed]
        /\ paid' = [paid EXCEPT ![s] = 0]
        /\ ~IsOpen(s) /\ ValidTerms(t)
        /\ UNCHANGED <<dst, srcFees, dstFees, mint, now, stray>>
    BY OwnerAssumption DEF Place, EscrowedRaw
  <1> HIDE DEF owner, received
  <1>5. TypeOK'
    BY <1>1, <1>2, <1>3, <1>4 DEF Inv, TypeOK
  <1>6. order'[s] = placed /\ paid'[s] = 0 /\ escrow'[s] = received /\ stray'[s] = stray[s]
    BY <1>4 DEF Inv, TypeOK
  <1>7. stray[s] = 0
    BY <1>4 DEF Inv, EscrowCovers, Covered
  <1>8. Covered(s)'
    BY <1>2, <1>3, <1>6, <1>7 DEF Covered, IsOpen
  <1>9. ValidTerms(order[s].terms)' /\ PaidFor(s)'
    <2>1. t.failsafeFloor \in Nat /\ t.minRatio \in Nat
      BY <1>3, OrderTyped
    <2>2. QED
      BY <1>4, <1>6, <2>1, ScaleAssumption DEF ValidTerms, PaidFor, PaidAt
  <1>10. \A r \in Slots \ {s} :
               /\ order'[r] = order[r] /\ escrow'[r] = escrow[r]
               /\ withheld'[r] = withheld[r] /\ stray'[r] = stray[r]
               /\ paid'[r] = paid[r]
    BY <1>4 DEF Inv, TypeOK
  <1>11. QED
    BY <1>4, <1>5, <1>8, <1>9, <1>10, OneSlot

(* What a successful fill has established by the time it moves the source
   tokens: the filler is not the owner, the sale is within the order, and
   what arrived is worth the floor in force, hence the failsafe floor.  The
   instruction may find other balances than the state's, as after the swap
   of a keeper. *)
LEMMA FillFromFacts ==
    ASSUME Inv, NEW s \in Slots, NEW filler \in Users, NEW size \in Nat, NEW pay \in Nat,
           NEW srcHeld \in [Users -> Nat], NEW dstHeld \in [Users -> Nat],
           FillFrom(s, filler, size, pay, srcHeld, dstHeld)
    PROVE  /\ order[s] \in Orders
           /\ filler # OwnerOf[s] /\ OwnerOf[s] \in Users
           /\ size > 0 /\ size <= escrow[s]
           /\ pay <= dstHeld[filler]
           /\ DstFee(pay) \in 0..pay /\ SrcFee(size) \in 0..size
           /\ Delivered(s, filler, pay) = pay - DstFee(pay)
           /\ Delivered(s, filler, pay) \in Nat \ {0}
           /\ Delivered(s, filler, pay) * RATIO_SCALE
                >= size * ActiveFloor(now, order[s].terms)
           /\ Delivered(s, filler, pay) * RATIO_SCALE
                >= size * order[s].terms.failsafeFloor
  <1> DEFINE o == order[s]
             floor == ActiveFloor(now, o.terms)
             d == Delivered(s, filler, pay)
  <1>1. o \in Orders /\ IsOpen(s)
    BY OpenTyped DEF FillFrom, FillAccepted, Inv
  <1>2. DstFee(pay) \in 0..pay /\ SrcFee(size) \in 0..size
    BY FeesTyped DEF Inv, TypeOK
  <1>3. size > 0 /\ size <= escrow[s] /\ pay <= dstHeld[filler]
    BY DEF FillFrom, FillAccepted, LegalFill, Inv, TypeOK
  <1>4. CeilRatio(size, floor) \in 1..MAX_U64 /\ d >= CeilRatio(size, floor)
    BY DEF FillFrom, FillAccepted, PaysFloor, RatioFits
  <1>5. d \in Int /\ d >= 1
    BY <1>2, <1>4, MaxAssumption DEF Delivered
  <1>6. filler # OwnerOf[s] /\ d = pay - DstFee(pay)
    BY <1>5 DEF Delivered
  <1>7. d \in Nat \ {0}
    BY <1>5
  <1>8. /\ o.terms.minRatio \in Nat /\ o.terms.failsafeFloor \in Nat
        /\ o.terms.failsafeFloor <= o.terms.minRatio
    <2>1. ValidTerms(o.terms)
      BY <1>1 DEF Inv, TermsValid
    <2>2. QED
      BY <1>1, <2>1, OrderTyped DEF ValidTerms
  <1>9. floor \in Nat /\ o.terms.failsafeFloor <= floor
    BY <1>8 DEF ActiveFloor
  <1> HIDE DEF o, floor, d
  <1>10. d * RATIO_SCALE >= size * floor
    BY <1>4, <1>7, <1>9, CeilRatioLeast
  <1>11. d * RATIO_SCALE >= size * o.terms.failsafeFloor
    BY <1>7, <1>8, <1>9, <1>10, LowerFloor
  <1>12. QED
    BY <1>1, <1>2, <1>3, <1>6, <1>7, <1>10, <1>11, OwnerAssumption DEF o, floor, d

(* Closing the accounts leaves nothing in the slot. *)
LEMMA ClosedSlot ==
    ASSUME Inv, NEW s \in Slots, NEW left, CloseAccounts(s, left)
    PROVE  /\ order' \in [Slots -> Orders \cup {NoOrder}]
           /\ escrow' \in [Slots -> Nat]
           /\ withheld' \in [Slots -> Nat]
           /\ stray' \in [Slots -> Nat]
           /\ order'[s] = NoOrder
           /\ ~IsOpen(s)'
           /\ Covered(s)'
           /\ \A r \in Slots \ {s} :
                  /\ order'[r] = order[r] /\ escrow'[r] = escrow[r]
                  /\ withheld'[r] = withheld[r] /\ stray'[r] = stray[r]
  <1>1. TypeOK
    BY DEF Inv
  <1>2. QED
    BY <1>1 DEF CloseAccounts, TypeOK, Covered, IsOpen

LEMMA FillFromInv ==
    ASSUME Inv, NEW s \in Slots, NEW filler \in Users, NEW size \in Nat, NEW pay \in Nat,
           NEW srcHeld \in [Users -> Nat], NEW dstHeld \in [Users -> Nat],
           FillFrom(s, filler, size, pay, srcHeld, dstHeld)
    PROVE  Inv'
  <1> DEFINE o == order[s]
             d == Delivered(s, filler, pay)
             left == escrow[s] - size
             owner == OwnerOf[s]
  <1>1. TypeOK
    BY DEF Inv
  <1>2. /\ o \in Orders
        /\ filler # owner /\ owner \in Users
        /\ size > 0 /\ size <= escrow[s]
        /\ pay <= dstHeld[filler]
        /\ DstFee(pay) \in 0..pay /\ SrcFee(size) \in 0..size
        /\ d \in Nat \ {0}
        /\ d * RATIO_SCALE >= size * ActiveFloor(now, o.terms)
        /\ d * RATIO_SCALE >= size * o.terms.failsafeFloor
    BY FillFromFacts
  <1>3. /\ o.escrowed \in Nat /\ o.escrowed <= MAX_U64 /\ o.filled \in Nat
        /\ o.terms.minRatio \in Nat /\ o.terms.failsafeFloor \in Nat
        /\ o.terms.failsafeTs \in Nat
    BY <1>2, OrderTyped
  <1>4. /\ o.filled + size <= o.escrowed
        /\ dst' = [dstHeld EXCEPT ![filler] = @ - pay, ![owner] = @ + d]
        /\ src' = [srcHeld EXCEPT ![filler] = @ + (size - SrcFee(size))]
        /\ dstFees' = dstFees + DstFee(pay)
        /\ paid' = [paid EXCEPT ![s] = @ + d]
        /\ UNCHANGED <<mint, now>>
        /\ IsOpen(s)
    BY DEF FillFrom, FillAccepted, WithinOrder
  <1>5. \/ /\ left > 0
           /\ order' = [order EXCEPT ![s].filled = @ + size]
           /\ escrow' = [escrow EXCEPT ![s] = left]
           /\ srcFees' = srcFees + SrcFee(size)
           /\ UNCHANGED <<withheld, stray>>
        \/ /\ CloseAccounts(s, left)
           /\ srcFees' = srcFees + SrcFee(size) + withheld[s]
    BY DEF FillFrom, FillAccepted
  <1>6. \A r \in Slots \ {s} : paid'[r] = paid[r]
    BY <1>1, <1>4 DEF TypeOK
  <1>7. paid' \in [Slots -> Nat] /\ paid'[s] = paid[s] + d /\ paid[s] \in Nat
    BY <1>1, <1>2, <1>4 DEF TypeOK
  <1> HIDE DEF d
  <1>8. /\ dst' \in [Users -> Nat] /\ src' \in [Users -> Nat]
        /\ dstFees' \in Nat /\ mint' \in Mints /\ now' \in Nat
    BY <1>1, <1>2, <1>4 DEF TypeOK
  <1>9. CASE left > 0 /\ order' = [order EXCEPT ![s].filled = @ + size]
                      /\ escrow' = [escrow EXCEPT ![s] = left]
                      /\ srcFees' = srcFees + SrcFee(size)
                      /\ UNCHANGED <<withheld, stray>>
    <2> DEFINE sold == [o EXCEPT !.filled = @ + size]
    <2>1. order' = [order EXCEPT ![s] = sold]
      BY <1>1, <1>9 DEF TypeOK
    <2>2. sold \in Orders /\ sold # NoOrder
      <3>1. o.filled + size \in U64
        BY <1>2, <1>3, <1>4, MaxAssumption DEF U64
      <3>2. sold \in Orders
        BY <1>2, <3>1 DEF Orders
      <3>3. QED
        BY <3>2, OrderTyped
    <2>3. /\ sold.filled = o.filled + size /\ sold.escrowed = o.escrowed
          /\ sold.terms = o.terms
      BY <1>2 DEF Orders
    <2>4. order'[s] = sold /\ escrow'[s] = left /\ stray'[s] = stray[s]
      BY <1>1, <1>9, <2>1 DEF TypeOK
    <2> HIDE DEF sold
    <2>5. TypeOK'
      BY <1>1, <1>2, <1>7, <1>8, <1>9, <2>1, <2>2 DEF TypeOK
    <2>6. Covered(s)'
      <3>1. escrow[s] = o.escrowed - o.filled + stray[s]
        BY <1>4 DEF Inv, EscrowCovers, Covered
      <3>2. escrow[s] \in Nat /\ stray[s] \in Nat
        BY <1>1 DEF TypeOK
      <3>3. QED
        BY <1>2, <1>3, <1>4, <2>2, <2>3, <2>4, <3>1, <3>2 DEF Covered, IsOpen
    <2>7. ValidTerms(order[s].terms)'
      BY <1>4, <2>3, <2>4 DEF Inv, TermsValid, ValidTerms
    <2>8. PaidFor(s)'
      <3>1. PaidFor(s)
        BY <1>4 DEF Inv, OwnerPaid
      <3>2. PaidAt(s, o.terms.failsafeFloor)'
        <4>1. (paid[s] + d) * RATIO_SCALE >= (o.filled + size) * o.terms.failsafeFloor
          BY <1>2, <1>3, <1>7, <3>1, SaleKeepsFloor DEF PaidFor, PaidAt
        <4>2. QED
          BY <1>7, <2>3, <2>4, <4>1 DEF PaidAt
      <3>3. ASSUME now < o.terms.failsafeTs
            PROVE  PaidAt(s, o.terms.minRatio)'
        <4>1. ActiveFloor(now, o.terms) = o.terms.minRatio
          BY <1>1, <1>3, <3>3 DEF ActiveFloor, TypeOK
        <4>2. (paid[s] + d) * RATIO_SCALE >= (o.filled + size) * o.terms.minRatio
          BY <1>2, <1>3, <1>7, <3>1, <3>3, <4>1, SaleKeepsFloor DEF PaidFor, PaidAt
        <4>3. QED
          BY <1>7, <2>3, <2>4, <4>2 DEF PaidAt
      <3>4. QED
        BY <1>4, <2>3, <2>4, <3>2, <3>3 DEF PaidFor, PaidAt
    <2>9. \A r \in Slots \ {s} :
               /\ order'[r] = order[r] /\ escrow'[r] = escrow[r]
               /\ withheld'[r] = withheld[r] /\ stray'[r] = stray[r]
               /\ paid'[r] = paid[r]
      BY <1>1, <1>6, <1>9, <2>1 DEF TypeOK
    <2>10. QED
      BY <1>4, <2>5, <2>6, <2>7, <2>8, <2>9, OneSlot
  <1>10. CASE CloseAccounts(s, left) /\ srcFees' = srcFees + SrcFee(size) + withheld[s]
    <2>1. srcFees' \in Nat
      BY <1>1, <1>2, <1>10 DEF TypeOK
    <2>2. TypeOK'
      BY <1>7, <1>8, <1>10, <2>1, ClosedSlot DEF TypeOK
    <2>3. QED
      BY <1>4, <1>6, <1>10, <2>2, ClosedSlot, OneSlot
  <1>11. QED
    BY <1>5, <1>9, <1>10

LEMMA FillInv ==
    ASSUME Inv, NEW s \in Slots, NEW filler \in Users, NEW size \in U64, NEW pay \in U64,
           Fill(s, filler, size, pay)
    PROVE  Inv'
  <1>1. size \in Nat /\ pay \in Nat
    BY MaxAssumption DEF U64
  <1>2. src \in [Users -> Nat] /\ dst \in [Users -> Nat]
    BY DEF Inv, TypeOK
  <1>3. FillFrom(s, filler, size, pay, src, dst)
    BY DEF Fill
  <1>4. QED
    BY <1>1, <1>2, <1>3, FillFromInv

(* cancel and expire. *)
LEMMA DrainInv ==
    ASSUME Inv, NEW s \in Slots, Drain(s)
    PROVE  Inv'
  <1> DEFINE all == escrow[s]
  <1>1. TypeOK /\ OwnerOf[s] \in Users
    BY OwnerAssumption DEF Inv
  <1>2. all \in Nat /\ SrcFee(all) \in 0..all
    BY <1>1, FeesTyped DEF TypeOK
  <1>3. /\ src' = [src EXCEPT ![OwnerOf[s]] = @ + (all - SrcFee(all))]
        /\ CloseAccounts(s, all - all)
        /\ srcFees' = srcFees + SrcFee(all) + withheld[s]
        /\ UNCHANGED <<dst, dstFees, mint, now, paid>>
    BY DEF Drain
  <1>4. src' \in [Users -> Nat] /\ srcFees' \in Nat
    BY <1>1, <1>2, <1>3 DEF TypeOK
  <1>5. TypeOK'
    BY <1>1, <1>3, <1>4, ClosedSlot DEF TypeOK
  <1>6. QED
    BY <1>3, <1>5, ClosedSlot, OneSlot

(* A stray deposit shows in the escrow account and in stray alike. *)
LEMMA StrayInv ==
    ASSUME Inv, NEW s \in Slots, NEW user \in Users, NEW amount \in 1..MaxStray,
           StrayDeposit(s, user, amount)
    PROVE  Inv'
  <1> DEFINE net == amount - SrcFee(amount)
  <1>1. TypeOK /\ amount \in Nat
    BY BoundsAssumption DEF Inv
  <1>2. SrcFee(amount) \in 0..amount /\ net \in Nat
    BY <1>1, FeesTyped DEF TypeOK
  <1>3. /\ IsOpen(s)
        /\ src[user] >= amount
        /\ src' = [src EXCEPT ![user] = @ - amount]
        /\ escrow' = [escrow EXCEPT ![s] = @ + net]
        /\ withheld' = [withheld EXCEPT ![s] = @ + SrcFee(amount)]
        /\ stray' = [stray EXCEPT ![s] = @ + net]
        /\ UNCHANGED <<order, dst, srcFees, dstFees, mint, now, paid>>
    BY DEF StrayDeposit
  <1> HIDE DEF net
  <1>4. TypeOK'
    BY <1>1, <1>2, <1>3 DEF TypeOK
  <1>5. Covered(s)'
    <2>1. /\ order[s].filled <= order[s].escrowed
          /\ escrow[s] = order[s].escrowed - order[s].filled + stray[s]
      BY <1>3 DEF Inv, EscrowCovers, Covered
    <2>2. order[s].escrowed \in Nat /\ order[s].filled \in Nat
      BY <1>1, <1>3, OpenTyped, OrderTyped
    <2>3. /\ escrow[s] \in Nat /\ stray[s] \in Nat
          /\ escrow'[s] = escrow[s] + net /\ stray'[s] = stray[s] + net
          /\ order'[s] = order[s]
      BY <1>1, <1>3 DEF TypeOK
    <2>4. QED
      BY <1>2, <1>3, <2>1, <2>2, <2>3 DEF Covered, IsOpen
  <1>6. ValidTerms(order[s].terms)' /\ PaidFor(s)'
    BY <1>3 DEF Inv, TermsValid, OwnerPaid, ValidTerms, PaidFor, PaidAt
  <1>7. \A r \in Slots \ {s} :
             /\ order'[r] = order[r] /\ escrow'[r] = escrow[r]
             /\ withheld'[r] = withheld[r] /\ stray'[r] = stray[r]
             /\ paid'[r] = paid[r]
    BY <1>1, <1>3 DEF TypeOK
  <1>8. QED
    BY <1>3, <1>4, <1>5, <1>6, <1>7, OneSlot

(* The issuer, the clock and stuttering leave every slot alone. *)
LEMMA WorldInv ==
    ASSUME Inv, mint' \in Mints, now' \in Nat, now' >= now,
           UNCHANGED <<order, tokens, history>>
    PROVE  Inv'
  <1>1. UNCHANGED <<order, escrow, withheld, src, dst, srcFees, dstFees, paid, stray>>
    BY DEF tokens, history
  <1>2. TypeOK'
    BY <1>1 DEF Inv, TypeOK
  <1>3. \A r \in Slots :
            /\ Covered(r)'
            /\ IsOpen(r)' => ValidTerms(order[r].terms)' /\ PaidFor(r)'
    BY <1>1, KeptSlot
  <1>4. EscrowCovers'
    BY <1>3 DEF EscrowCovers
  <1>5. TermsValid' /\ OwnerPaid'
    BY <1>3 DEF TermsValid, OwnerPaid
  <1>6. QED
    BY <1>2, <1>4, <1>5 DEF Inv

LEMMA NextInv == Inv /\ [Next]_vars => Inv'
  <1> SUFFICES ASSUME Inv, [Next]_vars PROVE Inv'
    OBVIOUS
  <1>1. ASSUME NEW s \in Slots, NEW amount \in U64, NEW t \in Terms, Place(s, amount, t)
        PROVE  Inv'
    BY <1>1, PlaceInv
  <1>2. ASSUME NEW s \in Slots, NEW filler \in Users, NEW size \in U64, NEW pay \in U64,
               Fill(s, filler, size, pay)
        PROVE  Inv'
    BY <1>2, FillInv
  <1>3. ASSUME NEW s \in Slots, Cancel(s)
        PROVE  Inv'
    BY <1>3, DrainInv DEF Cancel
  <1>4. ASSUME NEW s \in Slots, Expire(s)
        PROVE  Inv'
    BY <1>4, DrainInv DEF Expire
  <1>5. ASSUME NEW s \in Slots, NEW user \in Users, NEW amount \in 1..MaxStray,
               StrayDeposit(s, user, amount)
        PROVE  Inv'
    BY <1>5, StrayInv
  <1>6. CASE IssuerSets
    BY <1>6, WorldInv DEF IssuerSets, Inv, TypeOK
  <1>7. CASE Tick
    BY <1>7, WorldInv DEF Tick, Inv, TypeOK
  <1>8. CASE UNCHANGED vars
    BY <1>8, WorldInv DEF vars, Inv, TypeOK
  <1>9. QED
    BY <1>1, <1>2, <1>3, <1>4, <1>5, <1>6, <1>7, <1>8 DEF Next

THEOREM Invariance == Spec => []Inv
  BY InitInv, NextInv, PTL DEF Spec

(* Every amount stays an amount: balances never go below zero, counters stay
   within u64, and an address holds an order of the declared shape or none. *)
THEOREM TypeCorrect == Spec => []TypeOK
  <1>1. Inv => TypeOK
    BY DEF Inv
  <1>2. QED
    BY <1>1, Invariance, PTL

(* The counters filled_raw and escrowed_raw and the escrow balance agree up
   to stray deposits, for any number of orders sharing wallets. *)
THEOREM EscrowAlwaysCovers == Spec => []EscrowCovers
  <1>1. Inv => EscrowCovers
    BY DEF Inv
  <1>2. QED
    BY <1>1, Invariance, PTL

(* No sequence of partial fills, at whatever sizes, fees and times, leaves
   the owner with less than the floor on what was sold. *)
THEOREM OwnerAlwaysPaid == Spec => []OwnerPaid
  <1>1. Inv => OwnerPaid
    BY DEF Inv
  <1>2. QED
    BY <1>1, Invariance, PTL

-----------------------------------------------------------------------------
(* Steps: how an order ends, and the promise to its owner. *)

(* A sale that empties the escrow sells the last unit of the order: had
   there been a stray deposit, it would have oversold. *)
LEMMA EmptyingSale ==
    ASSUME Inv, NEW s \in Slots, IsOpen(s), NEW size \in Nat,
           escrow[s] - size = 0,
           order[s].filled + size <= order[s].escrowed
    PROVE  size = escrow[s] /\ order[s].filled + size = order[s].escrowed
  <1>1. escrow[s] = order[s].escrowed - order[s].filled + stray[s]
    BY DEF Inv, EscrowCovers, Covered
  <1>2. escrow[s] \in Nat /\ stray[s] \in Nat
    BY DEF Inv, TypeOK
  <1>3. order[s].escrowed \in Nat /\ order[s].filled \in Nat
    BY OpenTyped, OrderTyped DEF Inv
  <1>4. ASSUME NEW held \in Nat, NEW extra \in Nat, NEW all \in Nat, NEW sold \in Nat,
               held = all - sold + extra, held - size = 0, sold + size <= all
        PROVE  size = held /\ sold + size = all
    BY <1>4
  <1>5. QED
    BY <1>1, <1>2, <1>3, <1>4

(* Whatever balances the fill finds. *)
LEMMA FillFromAccounted ==
    ASSUME Inv, NEW s \in Slots, NEW filler \in Users, NEW size \in Nat, NEW pay \in Nat,
           NEW srcHeld \in [Users -> Nat], NEW dstHeld \in [Users -> Nat],
           FillFrom(s, filler, size, pay, srcHeld, dstHeld),
           NEW r \in Slots
    PROVE  Accounted(r)
  <1> DEFINE d == Delivered(s, filler, pay)
  <1>1. TypeOK /\ IsOpen(s)
    BY DEF Inv, FillFrom, FillAccepted
  <1>2. /\ order[s] \in Orders /\ size <= escrow[s] /\ d \in Nat \ {0}
    BY FillFromFacts
  <1>3. /\ order[s].filled + size <= order[s].escrowed
        /\ paid' = [paid EXCEPT ![s] = @ + d]
        /\ \/ order' = [order EXCEPT ![s].filled = @ + size]
           \/ CloseAccounts(s, escrow[s] - size)
    BY DEF FillFrom, FillAccepted, WithinOrder
  <1> HIDE DEF d
  <1>4. CASE r # s
    <2>1. order'[r] = order[r]
      BY <1>1, <1>3, <1>4 DEF CloseAccounts, TypeOK
    <2>2. QED
      BY <2>1 DEF Accounted, IsOpen
  <1>5. CASE r = s
    <2>1. paid'[s] > paid[s]
      BY <1>1, <1>2, <1>3 DEF TypeOK
    <2>2. CASE order' = [order EXCEPT ![s].filled = @ + size]
      <3>1. order'[s] = [order[s] EXCEPT !.filled = @ + size]
        BY <1>1, <2>2 DEF TypeOK
      <3>2. order[s].filled + size \in U64
        BY <1>2, <1>3, OrderTyped, MaxAssumption DEF U64
      <3>3. order'[s] \in Orders
        BY <1>2, <3>1, <3>2 DEF Orders
      <3>4. QED
        BY <1>5, <3>3, OrderTyped DEF Accounted
    <2>3. CASE CloseAccounts(s, escrow[s] - size)
      <3>1. escrow[s] - size = 0
        BY <2>3 DEF CloseAccounts
      <3>2. size = escrow[s] /\ order[s].filled + size = order[s].escrowed
        BY <1>1, <1>2, <1>3, <3>1, EmptyingSale
      <3>3. QED
        BY <1>5, <2>1, <3>2 DEF Accounted
    <2>4. QED
      BY <1>3, <2>2, <2>3
  <1>6. QED
    BY <1>4, <1>5

LEMMA DrainAccounted ==
    ASSUME Inv, NEW s \in Slots, Drain(s), NEW r \in Slots
    PROVE  Accounted(r)
  <1>1. TypeOK /\ OwnerOf[s] \in Users
    BY OwnerAssumption DEF Inv
  <1>2. escrow[s] \in Nat /\ SrcFee(escrow[s]) \in 0..escrow[s]
    BY <1>1, FeesTyped DEF TypeOK
  <1>3. /\ src' = [src EXCEPT ![OwnerOf[s]] = @ + (escrow[s] - SrcFee(escrow[s]))]
        /\ order' = [order EXCEPT ![s] = NoOrder]
        /\ paid' = paid
    BY DEF Drain, CloseAccounts
  <1>4. CASE r # s
    BY <1>1, <1>3, <1>4 DEF Accounted, IsOpen, TypeOK
  <1>5. CASE r = s
    <2>1. src'[OwnerOf[s]] = src[OwnerOf[s]] + escrow[s] - SrcFee(escrow[s])
      BY <1>1, <1>2, <1>3 DEF TypeOK
    <2>2. QED
      BY <1>3, <1>5, <2>1 DEF Accounted
  <1>6. QED
    BY <1>4, <1>5

LEMMA StepAccounted ==
    ASSUME Inv, Next, NEW r \in Slots
    PROVE  Accounted(r)
  <1>1. ASSUME NEW s \in Slots, NEW amount \in U64, NEW t \in Terms, Place(s, amount, t)
        PROVE  Accounted(r)
    <2>1. ~IsOpen(s) /\ \A q \in Slots \ {s} : order'[q] = order[q]
      BY <1>1 DEF Place, Inv, TypeOK
    <2>2. QED
      BY <2>1 DEF Accounted, IsOpen
  <1>2. ASSUME NEW s \in Slots, NEW filler \in Users, NEW size \in U64, NEW pay \in U64,
               Fill(s, filler, size, pay)
        PROVE  Accounted(r)
    <2>1. /\ size \in Nat /\ pay \in Nat
          /\ src \in [Users -> Nat] /\ dst \in [Users -> Nat]
      BY MaxAssumption DEF U64, Inv, TypeOK
    <2>2. QED
      BY <1>2, <2>1, FillFromAccounted DEF Fill
  <1>3. ASSUME NEW s \in Slots, Cancel(s) \/ Expire(s)
        PROVE  Accounted(r)
    BY <1>3, DrainAccounted DEF Cancel, Expire
  <1>4. ASSUME \/ \E s \in Slots, user \in Users, amount \in 1..MaxStray :
                      StrayDeposit(s, user, amount)
               \/ IssuerSets
               \/ Tick
        PROVE  Accounted(r)
    BY <1>4 DEF StrayDeposit, IssuerSets, Tick, Accounted, IsOpen
  <1>5. QED
    BY <1>1, <1>2, <1>3, <1>4 DEF Next

(* An order account disappears only sold out or returned. *)
THEOREM AlwaysClosesAccounted == Spec => ClosesAccounted
  <1>1. Inv /\ [Next]_vars => [\A s \in Slots : Accounted(s)]_vars
    BY StepAccounted
  <1>2. QED
    BY <1>1, Invariance, PTL DEF Spec, ClosesAccounted

(* The refinement: what each handler is in the book. *)
LEMMA FillFromIsTrade ==
    ASSUME Inv, NEW s \in Slots, NEW filler \in Users, NEW size \in Nat, NEW pay \in Nat,
           NEW srcHeld \in [Users -> Nat], NEW dstHeld \in [Users -> Nat],
           FillFrom(s, filler, size, pay, srcHeld, dstHeld)
    PROVE  Promise!PromiseNext
  <1> DEFINE d == Delivered(s, filler, pay)
  <1>1. TypeOK /\ IsOpen(s)
    BY DEF Inv, FillFrom, FillAccepted
  <1>2. /\ order[s] \in Orders /\ size > 0 /\ size <= escrow[s]
        /\ d \in Nat \ {0}
        /\ d * RATIO_SCALE >= size * ActiveFloor(now, order[s].terms)
    BY FillFromFacts
  <1>3. /\ order[s].filled + size <= order[s].escrowed
        /\ paid' = [paid EXCEPT ![s] = @ + d]
        /\ \/ order' = [order EXCEPT ![s].filled = @ + size]
           \/ CloseAccounts(s, escrow[s] - size)
        /\ now < order[s].terms.hardExpiry
        /\ now' = now
    BY DEF FillFrom, FillAccepted, WithinOrder, BeforeHardExpiry
  <1> HIDE DEF d
  <1>4. paid'[s] - paid[s] = d /\ size \in U64
    <2>1. paid[s] \in Nat /\ paid'[s] = paid[s] + d
      BY <1>1, <1>2, <1>3 DEF TypeOK
    <2>2. order[s].filled \in Nat /\ order[s].escrowed \in U64
      BY <1>2, OrderTyped DEF Orders
    <2>3. size <= MAX_U64
      BY <1>3, <2>2, MaxAssumption DEF U64
    <2>4. QED
      BY <1>2, <2>1, <2>3, MaxAssumption DEF U64
  <1>5. \/ order'[s] = [order[s] EXCEPT !.filled = @ + size]
        \/ /\ order[s].filled + size = order[s].escrowed
           /\ order'[s] = NoOrder
    <2>1. CASE order' = [order EXCEPT ![s].filled = @ + size]
      BY <1>1, <2>1 DEF TypeOK
    <2>2. CASE CloseAccounts(s, escrow[s] - size)
      <3>1. escrow[s] - size = 0 /\ order'[s] = NoOrder
        BY <1>1, <2>2 DEF CloseAccounts, TypeOK
      <3>2. order[s].filled + size = order[s].escrowed
        BY <1>1, <1>2, <1>3, <3>1, EmptyingSale
      <3>3. QED
        BY <3>1, <3>2
    <2>3. QED
      BY <1>3, <2>1, <2>2
  <1>6. \A r \in Slots \ {s} : order'[r] = order[r] /\ paid'[r] = paid[r]
    BY <1>1, <1>3 DEF TypeOK, CloseAccounts
  <1>7. Promise!Trade(s, size)
    BY <1>1, <1>2, <1>3, <1>4, <1>5
       DEF Promise!Trade, IsOpen, ActiveFloor, Promise!ActiveFloor
  <1>8. Promise!OthersKeep(s)
    BY <1>6 DEF Promise!OthersKeep
  <1>9. QED
    BY <1>3, <1>4, <1>7, <1>8
       DEF Promise!PromiseNext, Promise!Move, U64, Promise!U64

LEMMA PlaceIsEnter ==
    ASSUME Inv, NEW s \in Slots, NEW amount \in U64, NEW t \in Terms,
           Place(s, amount, t)
    PROVE  Promise!Enter(s) /\ Promise!OthersKeep(s) /\ now' = now
  <1> DEFINE received == EscrowedRaw(amount)
             placed == [escrowed |-> received, filled |-> 0, terms |-> t]
  <1>1. Inv'
    BY PlaceInv
  <1>2. /\ order' = [order EXCEPT ![s] = placed]
        /\ paid' = [paid EXCEPT ![s] = 0]
        /\ ~IsOpen(s) /\ ValidTerms(t) /\ received > 0 /\ now' = now
    BY DEF Place, FeeAccounted
  <1>3. amount \in Nat /\ amount <= MAX_U64 /\ SrcFee(amount) \in 0..amount
    <2>1. amount \in Nat /\ amount <= MAX_U64
      BY MaxAssumption DEF U64
    <2>2. QED
      BY <2>1, FeesTyped DEF Inv, TypeOK
  <1>4. placed \in Orders
    <2>1. received \in U64 \ {0} /\ 0 \in U64
      BY <1>3, MaxAssumption DEF U64, Place, FeeAccounted, EscrowedRaw
    <2>2. QED
      BY <2>1 DEF Orders
  <1>5. placed # NoOrder
    BY <1>4, OrderTyped
  <1> HIDE DEF received
  <1>6. order'[s] = placed /\ paid'[s] = 0
    BY <1>2 DEF Inv, TypeOK
  <1>7. Promise!Enter(s)
    BY <1>2, <1>5, <1>6 DEF Promise!Enter, IsOpen, ValidTerms
  <1>8. Promise!OthersKeep(s)
    BY <1>2 DEF Promise!OthersKeep, Inv, TypeOK
  <1>9. QED
    BY <1>2, <1>7, <1>8

LEMMA DrainIsRelease ==
    ASSUME Inv, NEW s \in Slots, Drain(s)
    PROVE  Promise!Release(s) /\ Promise!OthersKeep(s) /\ now' = now
  BY DEF Drain, CloseAccounts, Promise!Release, Promise!OthersKeep, IsOpen, Inv, TypeOK

LEMMA StepKeepsPromise ==
    Inv /\ [Next]_vars => [Promise!PromiseNext]_Promise!promiseVars
  <1> SUFFICES ASSUME Inv, [Next]_vars
               PROVE  [Promise!PromiseNext]_Promise!promiseVars
    OBVIOUS
  <1>1. ASSUME NEW s \in Slots, NEW amount \in U64, NEW t \in Terms, Place(s, amount, t)
        PROVE  Promise!PromiseNext
    BY <1>1, PlaceIsEnter DEF Promise!PromiseNext, Promise!Move
  <1>2. ASSUME NEW s \in Slots, NEW filler \in Users, NEW size \in U64, NEW pay \in U64,
               Fill(s, filler, size, pay)
        PROVE  Promise!PromiseNext
    <2>1. /\ size \in Nat /\ pay \in Nat
          /\ src \in [Users -> Nat] /\ dst \in [Users -> Nat]
      BY MaxAssumption DEF U64, Inv, TypeOK
    <2>2. QED
      BY <1>2, <2>1, FillFromIsTrade DEF Fill
  <1>3. ASSUME NEW s \in Slots, Cancel(s) \/ Expire(s)
        PROVE  Promise!PromiseNext
    BY <1>3, DrainIsRelease DEF Cancel, Expire, Promise!PromiseNext, Promise!Move
  <1>4. ASSUME NEW s \in Slots, NEW user \in Users, NEW amount \in 1..MaxStray,
               StrayDeposit(s, user, amount)
        PROVE  UNCHANGED Promise!promiseVars
    BY <1>4 DEF StrayDeposit, Promise!promiseVars
  <1>5. CASE IssuerSets
    BY <1>5 DEF IssuerSets, history, Promise!promiseVars
  <1>6. CASE Tick
    BY <1>6 DEF Tick, history, Promise!PromiseNext, Promise!Pass, Inv, TypeOK
  <1>7. CASE UNCHANGED vars
    BY <1>7 DEF vars, history, Promise!promiseVars
  <1>8. QED
    BY <1>1, <1>2, <1>3, <1>4, <1>5, <1>6, <1>7 DEF Next

(* The program implements the promise: an owner who knows only OrderPromise
   is not misled by any interleaving of handlers, fees, pauses and deposits. *)
THEOREM ImplementsPromise == Spec => KeepsPromise
  <1>1. Init => Promise!PromiseInit
    BY DEF Init, Promise!PromiseInit
  <1>2. QED
    BY <1>1, StepKeepsPromise, Invariance, PTL DEF Spec, KeepsPromise, Promise!PromiseSpec

=============================================================================
