---------------------------- MODULE OrderPromise ----------------------------
(***************************************************************************)
(* What an order promises its owner, without token accounts, fees, issuer  *)
(* controls or stray deposits.  An order sells at most what it took in;    *)
(* before its hard expiry each sale pays the owner at least the floor in   *)
(* force; from the hard expiry on nothing is sold; the terms never change; *)
(* and the order ends either by its last sale or by being released.        *)
(***************************************************************************)
EXTENDS TminusMath

CONSTANTS
    Slots,     \* the addresses an order can live at
    NoOrder    \* what is found at an address that holds no order

VARIABLES
    book,      \* book[s]: the order at s
    owed,      \* owed[s]: destination tokens its owner has received for it
    clock      \* the chain's time

promiseVars == <<book, owed, clock>>

PromiseInit ==
    /\ book = [s \in Slots |-> NoOrder]
    /\ owed = [s \in Slots |-> 0]
    /\ clock \in Nat

Enter(s) ==
    /\ book[s] = NoOrder
    /\ book'[s] # NoOrder
    /\ book'[s].filled = 0
    /\ book'[s].escrowed > 0
    /\ book'[s].terms.failsafeFloor <= book'[s].terms.minRatio
    /\ owed'[s] = 0

(* size units are sold, and the owner is paid; the sale that exhausts the
   order may end it, and then the slot is free. *)
Trade(s, size) ==
    /\ book[s] # NoOrder
    /\ clock < book[s].terms.hardExpiry
    /\ size > 0
    /\ book[s].filled + size <= book[s].escrowed
    /\ (owed'[s] - owed[s]) * RATIO_SCALE >= size * ActiveFloor(clock, book[s].terms)
    /\ \/ book'[s] = [book[s] EXCEPT !.filled = @ + size]
       \/ /\ book[s].filled + size = book[s].escrowed
          /\ book'[s] = NoOrder

Release(s) ==
    /\ book[s] # NoOrder
    /\ book'[s] = NoOrder
    /\ owed'[s] = owed[s]

(* One order moves at a time. *)
OthersKeep(s) ==
    \A r \in Slots \ {s} : book'[r] = book[r] /\ owed'[r] = owed[r]

Pass ==
    /\ clock' > clock
    /\ UNCHANGED <<book, owed>>

Move(s) ==
    \/ Enter(s)
    \/ \E size \in U64 : Trade(s, size)
    \/ Release(s)

PromiseNext ==
    \/ Pass
    \/ \E s \in Slots : Move(s) /\ OthersKeep(s) /\ clock' = clock

PromiseSpec == PromiseInit /\ [][PromiseNext]_promiseVars

=============================================================================
