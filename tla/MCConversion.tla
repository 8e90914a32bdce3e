---------------------------- MODULE MCConversion ----------------------------
(***************************************************************************)
(* Small instances of Conversion.  A tick of the clock is 30 s.            *)
(***************************************************************************)
EXTENDS Conversion, TLC

Controls(paused, hooked, rate) == [paused |-> paused, hooked |-> hooked, rate |-> rate]

\* Open, and closed by a pause, or by a hook and another fee.
MCControls == {Controls(FALSE, FALSE, 1), Controls(TRUE, FALSE, 1), Controls(FALSE, TRUE, 2)}

\* Wallets hold the same and are treated alike.
MCWalletSymmetry == Permutations(Wallets)

MCOpen == {Controls(FALSE, FALSE, 1)}

Page(terms, dest) == [terms |-> terms, dest |-> dest]

\* The deadline, or an expiry without a date for another destination.
MCPages == {Page(d, DefaultDest) : d \in Deadlines}
              \union {Page(Undated, dest) : dest \in Destinations \ {DefaultDest}}

\* An error that carries terms, as a page served from a store with a 503 does.
MCErrorPages == {Page(d, DefaultDest) : d \in Deadlines}

MCDatedPages == {Page(d, DefaultDest) : d \in Deadlines}

=============================================================================
