------------------------------- MODULE Escrow -------------------------------
(***************************************************************************)
(* The on-chain program (programs/tminus/src/lib.rs): owners place orders, *)
(* their source tokens move to an escrow account, fillers buy from it at   *)
(* the floor or better, and what is left goes back to the owner by cancel  *)
(* or expire.  Token-2022 is external: its transfers withhold a fee in the *)
(* receiving account, and its issuer may pause the mint, attach a hook or  *)
(* change the fee between any two instructions.  A Solana instruction is   *)
(* atomic, so each handler is one action; a failed require is a disabled   *)
(* action.                                                                 *)
(*                                                                         *)
(* A slot stands for an order address: its seeds are the owner, the two    *)
(* mints and a nonce, so the slot fixes the owner, and an address is free  *)
(* again once its order account is closed.                                 *)
(***************************************************************************)
EXTENDS TminusMath, FiniteSets

CONSTANTS
    Users,        \* wallets: owners, fillers, bystanders
    Slots,        \* order addresses
    OwnerOf,      \* OwnerOf[s]: the wallet in the seeds of s
    NoOrder,      \* no account at an address
    Terms,        \* terms an owner may ask for, valid or not
    SrcSupply,    \* SrcSupply[u]: source tokens u starts with
    DstSupply,    \* DstSupply[u]: destination tokens u starts with
    FeeRates,     \* transfer fees the issuers may set
    Pauses,       \* positions of the source mint's pause switch: BOOLEAN
    Hooks,        \* whether a transfer hook may be attached: BOOLEAN
    MaxTime,      \* bound of the clock
    MaxStray      \* bound of one deposit straight into an escrow account

ASSUME OwnerAssumption == OwnerOf \in [Slots -> Users]
ASSUME TermsAssumption ==
    Terms \subseteq [minRatio : U64, failsafeFloor : U64, failsafeTs : Nat,
                     hardExpiry : Nat, minFill : U64]
ASSUME SupplyAssumption ==
    /\ SrcSupply \in [Users -> Nat]
    /\ DstSupply \in [Users -> Nat]
ASSUME RatesAssumption == FeeRates \subseteq 0..FEE_SCALE /\ FeeRates # {}
ASSUME ControlsAssumption ==
    Pauses \subseteq BOOLEAN /\ Hooks \subseteq BOOLEAN /\ FALSE \in Pauses \cap Hooks
ASSUME BoundsAssumption == MaxTime \in Nat /\ MaxStray \in Nat
ASSUME NoOrderAssumption ==
    NoOrder \notin [escrowed : U64, filled : U64, terms : Terms]

VARIABLES
    order,     \* order[s]: the order account at s, or NoOrder
    escrow,    \* escrow[s]: amount in the escrow account of s
    withheld,  \* withheld[s]: fees withheld in the escrow account of s
    src,       \* src[u]: u's source tokens
    dst,       \* dst[u]: u's destination tokens
    srcFees,   \* source fees taken, at the mint or withheld in wallets
    dstFees,   \* destination fees taken
    mint,      \* issuer controls: [paused, hooked, srcRate, dstRate]
    now,       \* Clock::unix_timestamp
    paid,      \* history: what the owner of s got for the latest order there
    stray      \* history: net deposits made straight into the escrow of s

tokens == <<escrow, withheld, src, dst, srcFees, dstFees>>
history == <<paid, stray>>
vars == <<order, tokens, mint, now, history>>

Orders == [escrowed : U64 \ {0}, filled : U64, terms : Terms]

Mints == [paused : Pauses, hooked : Hooks, srcRate : FeeRates, dstRate : FeeRates]

IsOpen(s) == order[s] # NoOrder

(* A transfer delivers the amount less the fee. *)
SrcFee(amount) == TransferFee(amount, mint.srcRate)
DstFee(amount) == TransferFee(amount, mint.dstRate)

TypeOK ==
    /\ order \in [Slots -> Orders \cup {NoOrder}]
    /\ escrow \in [Slots -> Nat]
    /\ withheld \in [Slots -> Nat]
    /\ src \in [Users -> Nat]
    /\ dst \in [Users -> Nat]
    /\ srcFees \in Nat
    /\ dstFees \in Nat
    /\ mint \in Mints
    /\ now \in Nat
    /\ paid \in [Slots -> Nat]
    /\ stray \in [Slots -> Nat]

Init ==
    /\ order = [s \in Slots |-> NoOrder]
    /\ escrow = [s \in Slots |-> 0]
    /\ withheld = [s \in Slots |-> 0]
    /\ src = SrcSupply
    /\ dst = DstSupply
    /\ srcFees = 0
    /\ dstFees = 0
    /\ mint \in [paused : {FALSE}, hooked : {FALSE}, srcRate : FeeRates, dstRate : FeeRates]
    /\ now = 0
    /\ paid = [s \in Slots |-> 0]
    /\ stray = [s \in Slots |-> 0]

-----------------------------------------------------------------------------
(* The handlers of the program. *)

(* inspect_mint_extensions, on the source mint only. *)
MintAllowed == ~mint.paused /\ ~mint.hooked

(* The requires of place on its arguments.  The two timestamps may both lie
   in the past. *)
ValidTerms(t) ==
    /\ t.minFill > 0
    /\ t.minRatio > 0
    /\ t.failsafeFloor > 0
    /\ t.failsafeFloor <= t.minRatio
    /\ t.failsafeTs <= t.hardExpiry

(* place: the order records what arrived after the fee, not what was sent,
   and something must have arrived. *)
SentAmount(amount) == amount  \* mutant

EscrowedRaw(amount) == amount - SrcFee(amount)

AnyDelta(received) == received >= 0  \* mutant

FeeAccounted(received) == received > 0

Place(s, amount, t) ==
    LET owner    == OwnerOf[s]
        received == EscrowedRaw(amount)
    IN  /\ ~IsOpen(s)
        /\ amount > 0
        /\ ValidTerms(t)
        /\ MintAllowed
        /\ src[owner] >= amount
        /\ FeeAccounted(received)
        /\ src' = [src EXCEPT ![owner] = @ - amount]
        /\ escrow' = [escrow EXCEPT ![s] = amount - SrcFee(amount)]
        /\ withheld' = [withheld EXCEPT ![s] = SrcFee(amount)]
        /\ order' = [order EXCEPT ![s] =
                        [escrowed |-> received, filled |-> 0, terms |-> t]]
        /\ paid' = [paid EXCEPT ![s] = 0]
        /\ UNCHANGED <<dst, srcFees, dstFees, mint, now, stray>>

(* What dst_delta measures.  A transfer to oneself moves nothing. *)
Delivered(s, filler, pay) ==
    IF filler = OwnerOf[s] THEN 0 ELSE pay - DstFee(pay)

PaysFloorBeforeFee(s, filler, size, pay) ==  \* mutant: dst_delta not checked
    LET floor == ActiveFloor(now, order[s].terms)
    IN  RatioFits(size, floor) /\ pay >= CeilRatio(size, floor) /\ filler # OwnerOf[s]

PaysFailsafeFloor(s, filler, size, pay) ==  \* mutant: failsafe_ts not looked at
    LET minDst == CeilRatio(size, order[s].terms.failsafeFloor)
    IN  minDst > 0 /\ Delivered(s, filler, pay) >= minDst

PaysFloor(s, filler, size, pay) ==
    LET floor  == ActiveFloor(now, order[s].terms)
        minDst == CeilRatio(size, floor)
    IN  /\ RatioFits(size, floor)
        /\ pay >= minDst
        /\ Delivered(s, filler, pay) >= minDst

UpToHardExpiry(s) == now <= order[s].terms.hardExpiry  \* mutant

BeforeHardExpiry(s) == now < order[s].terms.hardExpiry

(* filled_raw may not pass escrowed_raw, whatever the escrow account holds. *)
WithinEscrow(s, size) == size <= escrow[s]  \* mutant

WithinOrder(s, size) == order[s].filled + size <= order[s].escrowed

(* harvest_withheld_to_mint: the fees withheld in an account move to the
   mint, and none stay. *)
NotHarvested(fee) == fee  \* mutant

AfterHarvest(fee) == 0

(* close_account, then the order account: Token-2022 closes an account only
   when it holds neither tokens nor withheld fees, so left is what the last
   transfer leaves in the escrow of s.  Rent is not modelled. *)
CloseAccounts(s, left) ==
    /\ left = 0
    /\ AfterHarvest(withheld[s]) = 0
    /\ order' = [order EXCEPT ![s] = NoOrder]
    /\ escrow' = [escrow EXCEPT ![s] = 0]
    /\ withheld' = [withheld EXCEPT ![s] = 0]
    /\ stray' = [stray EXCEPT ![s] = 0]

(* What fill requires of a filler holding that many destination tokens. *)
FillAccepted(s, filler, size, pay, held) ==
    /\ IsOpen(s)
    /\ BeforeHardExpiry(s)
    /\ MintAllowed
    /\ LegalFill(size, escrow[s], order[s].terms.minFill)
    /\ held >= pay
    /\ PaysFloor(s, filler, size, pay)
    /\ WithinOrder(s, size)

(* fill: the filler pays first, then size leaves the escrow; the sale that
   empties the escrow account closes it and the order.  srcHeld and dstHeld
   are the balances the instruction finds: those of the state, unless an
   earlier instruction of the transaction changed them. *)
FillFrom(s, filler, size, pay, srcHeld, dstHeld) ==
    LET left == escrow[s] - size
    IN  /\ FillAccepted(s, filler, size, pay, dstHeld[filler])
        /\ dst' = [dstHeld EXCEPT ![filler] = @ - pay,
                                  ![OwnerOf[s]] = @ + Delivered(s, filler, pay)]
        /\ src' = [srcHeld EXCEPT ![filler] = @ + (size - SrcFee(size))]
        /\ dstFees' = dstFees + DstFee(pay)
        /\ paid' = [paid EXCEPT ![s] = @ + Delivered(s, filler, pay)]
        /\ \/ /\ left > 0
              /\ order' = [order EXCEPT ![s].filled = @ + size]
              /\ escrow' = [escrow EXCEPT ![s] = left]
              /\ srcFees' = srcFees + SrcFee(size)
              /\ UNCHANGED <<withheld, stray>>
           \/ /\ CloseAccounts(s, left)
              /\ srcFees' = srcFees + SrcFee(size) + withheld[s]
        /\ UNCHANGED <<mint, now>>

Fill(s, filler, size, pay) == FillFrom(s, filler, size, pay, src, dst)

(* drain_escrow_and_close_ata, shared by cancel and expire: everything in
   the escrow account, stray deposits included, goes back to the owner,
   less another transfer fee. *)
Drain(s) ==
    /\ IsOpen(s)
    /\ MintAllowed
    /\ src' = [src EXCEPT ![OwnerOf[s]] = @ + (escrow[s] - SrcFee(escrow[s]))]
    /\ CloseAccounts(s, escrow[s] - escrow[s])
    /\ srcFees' = srcFees + SrcFee(escrow[s]) + withheld[s]
    /\ UNCHANGED <<dst, dstFees, mint, now, paid>>

(* cancel: signed by the owner, at any time. *)
Cancel(s) == Drain(s)

HardExpired(s) == now >= order[s].terms.hardExpiry

(* expire: signed by anyone, from the hard expiry on. *)
Expire(s) ==
    /\ IsOpen(s)
    /\ HardExpired(s)
    /\ Drain(s)

-----------------------------------------------------------------------------
(* The world around the program. *)

(* Anyone may send source tokens straight to an escrow account. *)
StrayDeposit(s, user, amount) ==
    /\ IsOpen(s)
    /\ ~mint.paused
    /\ src[user] >= amount
    /\ src' = [src EXCEPT ![user] = @ - amount]
    /\ escrow' = [escrow EXCEPT ![s] = @ + (amount - SrcFee(amount))]
    /\ withheld' = [withheld EXCEPT ![s] = @ + SrcFee(amount)]
    /\ stray' = [stray EXCEPT ![s] = @ + (amount - SrcFee(amount))]
    /\ UNCHANGED <<order, dst, srcFees, dstFees, mint, now, paid>>

(* The issuer may pause the source mint or not, hook it or not, and set the
   fee of either mint. *)
IssuerSets ==
    /\ mint' \in Mints
    /\ UNCHANGED <<order, tokens, now, history>>

Tick ==
    /\ now < MaxTime
    /\ now' = now + 1
    /\ UNCHANGED <<order, tokens, mint, history>>

Next ==
    \/ \E s \in Slots :
        \/ \E amount \in U64, t \in Terms : Place(s, amount, t)
        \/ \E filler \in Users, size, pay \in U64 : Fill(s, filler, size, pay)
        \/ Cancel(s)
        \/ Expire(s)
        \/ \E user \in Users, amount \in 1..MaxStray : StrayDeposit(s, user, amount)
    \/ IssuerSets
    \/ Tick

Spec == Init /\ [][Next]_vars

(* Time passes, and some wallet cranks expire while it is available: the
   program lets anyone sign it.  Nobody owes anything else: neither fillers
   nor owners need ever act, and the issuer may do as it likes. *)
CrankedSpec ==
    /\ Spec
    /\ WF_vars(Tick)
    /\ \A s \in Slots : WF_vars(Expire(s))

-----------------------------------------------------------------------------
(* Properties. *)

(* The escrow account of an open order holds what the order has left to
   sell plus the stray deposits, and never less: filled_raw and escrowed_raw
   are counters kept beside the token balance that fill goes by.  A closed
   slot holds nothing. *)
Covered(s) ==
    IF IsOpen(s)
    THEN /\ order[s].filled <= order[s].escrowed
         /\ escrow[s] = order[s].escrowed - order[s].filled + stray[s]
    ELSE escrow[s] = 0 /\ withheld[s] = 0 /\ stray[s] = 0

EscrowCovers == \A s \in Slots : Covered(s)

(* Over all its partial fills, each rounded up and each less the fee of the
   destination mint, an order has brought its owner the failsafe floor, and
   the minimum ratio as long as the failsafe has not set in. *)
PaidAt(s, floor) == paid[s] * RATIO_SCALE >= order[s].filled * floor

PaidFor(s) ==
    /\ PaidAt(s, order[s].terms.failsafeFloor)
    /\ now < order[s].terms.failsafeTs => PaidAt(s, order[s].terms.minRatio)

OwnerPaid == \A s \in Slots : IsOpen(s) => PaidFor(s)

(* An order account disappears in two ways only: with a sale of the very
   last unit it took in, or with everything in escrow going to its owner. *)
Accounted(s) ==
    (IsOpen(s) /\ order'[s] = NoOrder) =>
        \/ /\ paid'[s] > paid[s]
           /\ order[s].filled + escrow[s] = order[s].escrowed
        \/ /\ paid'[s] = paid[s]
           /\ src'[OwnerOf[s]] = src[OwnerOf[s]] + escrow[s] - SrcFee(escrow[s])

ClosesAccounted == [][\A s \in Slots : Accounted(s)]_vars

(* The program implements the promise to the owner (OrderPromise): the order
   accounts are the book, and the time is the chain's. *)
Promise == INSTANCE OrderPromise WITH book <- order, owed <- paid, clock <- now

KeepsPromise == Promise!PromiseSpec

(* Nothing stays locked: if the issuer ends up leaving the mint unpaused and
   unhooked, every order that is ever placed comes to an end, although no
   filler and no owner does anything, however often the fee changed and
   whatever was withheld or deposited in the meantime. *)
Released ==
    <>[](~mint.paused /\ ~mint.hooked) => \A s \in Slots : IsOpen(s) ~> ~IsOpen(s)

=============================================================================
