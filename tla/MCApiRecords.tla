---------------------------- MODULE MCApiRecords ----------------------------
(***************************************************************************)
(* A small instance of ApiRecords: two listings of one asset, and two      *)
(* requests for the feed.                                                  *)
(***************************************************************************)
EXTENDS ApiRecords, MCIssuerEvents

CONSTANTS d1, d2, c1, c2

=============================================================================
