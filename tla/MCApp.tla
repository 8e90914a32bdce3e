------------------------------- MODULE MCApp -------------------------------
(***************************************************************************)
(* A small instance of App: two wallets, an asset whose destination mint   *)
(* is verified and one without, and two orders of the design source.       *)
(***************************************************************************)
EXTENDS App

CONSTANTS a1, a2, spacex, openai, o1, o2

=============================================================================
