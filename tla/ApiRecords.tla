----------------------------- MODULE ApiRecords -----------------------------
(***************************************************************************)
(* What the API keeps of the issuers' pages: the feed of SPACEX, and the   *)
(* history of issuer events of every asset.  They are tables of their own, *)
(* written by requests of their own, and the history here is of an asset   *)
(* without feed; neither reads what the other wrote, so one asset at a     *)
(* time is followed.                                                       *)
(***************************************************************************)
EXTENDS IssuerEvents, Feed

CONSTANT Assets  \* assets to follow: "SPACEX", which has a feed, and others

VARIABLE asset

recordVars == <<asset, vars, feedVars>>

RecordsInit == asset \in Assets /\ Init /\ FeedInit

RecordsNext ==
    /\ UNCHANGED asset
    /\ \/ asset = "SPACEX" /\ FeedNext /\ UNCHANGED vars
       \/ asset # "SPACEX" /\ Next /\ UNCHANGED feedVars

RecordsSpec == RecordsInit /\ [][RecordsNext]_recordVars

(* Of the feed nothing need ever happen. *)
FairRecordsSpec ==
    /\ RecordsSpec
    /\ \A l \in Listings : WF_vars(asset # "SPACEX" /\ Serves(l))
    /\ WF_vars(asset # "SPACEX" /\ CatalogAges)

-----------------------------------------------------------------------------
(* Properties. *)

(* Once nothing fails and the page stays as it is, the history of an asset
   without feed ends with what the page says, whatever listings with an older
   view, or with none, wrote in between. *)
EventsCatchUp == asset # "SPACEX" => HistoryCatchesUp

(* And then it grows no more: listings that find nothing new add no rows. *)
EventsComeToRest == asset # "SPACEX" => HistoryComesToRest

=============================================================================
