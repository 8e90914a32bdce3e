---------------------------- MODULE IssuerEvents ----------------------------
(***************************************************************************)
(* The history of one asset's issuer events (apps/api/src/event-change.ts, *)
(* corporate-action.ts).  Every listing takes the asset from the catalog,  *)
(* reads the newest row of issuer_event_snapshots, says what changed since *)
(* and may insert a row.  Listings overlap, and share the catalog, whose   *)
(* entry is 120 s old at most: of two that build it at one time the last   *)
(* to end is kept, and one may insert what it saw long after another       *)
(* inserted something newer.                                               *)
(*                                                                         *)
(* An asset without feed row, so any but SPACEX: what the listing sees is  *)
(* what the page says, or the body of the error that came in its place,    *)
(* and whether the deadline it states had passed when the catalog was      *)
(* begun.  The fingerprint of an event stands for the event: the URL it    *)
(* was read from, its terms, and whether the tokens expire worthless,      *)
(* which a passed deadline is taken to say.  Only the newest row matters   *)
(* to a listing and only it is kept.                                       *)
(***************************************************************************)
EXTENDS Naturals

CONSTANTS
    Listings,  \* requests to the API that may be under way
    Terms,     \* the actionable terms a page may state
    Texts,     \* the statements it may word them in
    Dated,     \* the terms with a deadline that do not say "expire worthless"
    Pages,     \* what the issuer's page may say: [terms, text]
    ErrorPages,  \* what the body of an error of the issuer's host may say
    Blank,     \* terms and text of a page without any
    NoEntry,   \* no cache
    NoAsset,   \* neither list names the asset
    NoRow      \* no row in issuer_event_snapshots, or the read failed

Events == [source : {"page", "products"}, terms : Terms, worthless : BOOLEAN]

Seen == [event : Events, text : Texts]

(* The URL is part of the fingerprint, but no kind of change is about it. *)
Differ(a, b) == a.terms # b.terms \/ a.worthless # b.worthless

(* Rows of issuer_event_snapshots.  A row of a change has what it changed
   from; one without says nothing changed. *)
Rows ==
    {row \in [event : Events, text : Texts, kind : {"NO_CHANGE", "TEXT_CHANGED", "CHANGED"},
              previous : Events \union {NoRow}] :
        /\ row.kind # "NO_CHANGE" => row.previous # NoRow
        /\ row.kind = "CHANGED" <=> row.previous # NoRow /\ Differ(row.previous, row.event)}

ASSUME PagesAssumption ==
    /\ Pages \union ErrorPages \subseteq [terms : Terms, text : Texts]
    /\ Dated \subseteq Terms
    /\ Blank \in Terms \intersect Texts

ASSUME RowAssumption == NoRow \notin Events \union Rows

ASSUME EntryAssumption ==
    /\ NoAsset \notin Seen
    /\ NoEntry \notin [young : BOOLEAN, seen : Seen \union {NoAsset}]

VARIABLES
    page,     \* the issuer's page
    over,     \* the terms of Dated whose deadline has passed
    catalog,  \* the cached entry: [young, seen], or NoEntry
    newest,   \* the newest row of the asset: [event, text, kind, previous]
    listing,  \* listing[l]: where the listing is and what it knows
    went      \* history: <<a, b>> if the page said a once and b since

vars == <<page, over, catalog, newest, listing, went>>

Idle == [at |-> "idle"]

(* A deadline may pass at once. *)
Init ==
    /\ page \in Pages
    /\ over = {}
    /\ catalog = NoEntry
    /\ newest = NoRow
    /\ listing = [l \in Listings |-> Idle]
    /\ went = {<<page.terms, page.terms>>}

At(l, step) == listing[l].at = step

Goto(l, state) == listing' = [listing EXCEPT ![l] = state]

-----------------------------------------------------------------------------
(* The asset as the catalog has it. *)

(* What is read from a text when the deadlines of passed are over. *)
Sees(source, says, passed) ==
    [event |-> [source |-> source, terms |-> says.terms, worthless |-> says.terms \in passed],
     text  |-> says.text]

Reached(passed) == Sees("page", page, passed)

(* Without the page: another URL, and the text of the error or none. *)
Unreached(passed) ==
    {Sees("products", says, passed) : says \in ErrorPages \union {[terms |-> Blank, text |-> Blank]}}

(* A listing has the asset, and goes on to observe it if there is one. *)
Observe(l, seen) ==
    Goto(l, IF seen = NoAsset THEN Idle ELSE [at |-> "load", seen |-> seen])

Young == catalog # NoEntry /\ catalog.young

(* buildPrestocksCatalog answers from the cache, or takes the time and begins
   to fetch. *)
Begin(l) ==
    /\ At(l, "idle")
    /\ \/ Young /\ Observe(l, catalog.seen)
       \/ ~Young /\ Goto(l, [at |-> "fetch", passed |-> over])
    /\ UNCHANGED <<page, over, catalog, newest, went>>

Fetches(l, seen) ==
    /\ Goto(l, [at |-> "store", seen |-> seen])
    /\ UNCHANGED <<page, over, catalog, newest, went>>

Fetch(l) == At(l, "fetch") /\ Fetches(l, Reached(listing[l].passed))

(* The page, or the lists, do not answer within 8 s, or with an error. *)
FailToFetch(l) ==
    /\ At(l, "fetch")
    /\ \E seen \in Unreached(listing[l].passed) \union {NoAsset} : Fetches(l, seen)

(* The other pages have arrived too, and the catalog is replaced. *)
Store(l) ==
    /\ At(l, "store")
    /\ catalog' = [young |-> TRUE, seen |-> listing[l].seen]
    /\ Observe(l, listing[l].seen)
    /\ UNCHANGED <<page, over, newest, went>>

-----------------------------------------------------------------------------
(* observeIssuerEvent.  sourceOk is always true. *)

(* classifyIssuerChange. *)
FirstAsChange(row, seen) ==  \* mutant: a first row is a change
    IF row = NoRow \/ Differ(row.event, seen.event) THEN "CHANGED"
    ELSE IF row.text # seen.text THEN "TEXT_CHANGED"
    ELSE "NO_CHANGE"

Classify(row, seen) ==
    IF row = NoRow THEN "NO_CHANGE"
    ELSE IF Differ(row.event, seen.event) THEN "CHANGED"
    ELSE IF row.text # seen.text THEN "TEXT_CHANGED"
    ELSE "NO_CHANGE"

OnChangeOnly(row, seen) ==  \* mutant: the fingerprints not compared
    row = NoRow \/ Classify(row, seen) # "NO_CHANGE"

ShouldWrite(row, seen) ==
    row = NoRow \/ Classify(row, seen) # "NO_CHANGE" \/ row.event # seen.event

RowOfOldText(row, seen) ==  \* mutant: the statement's hash is not brought up to date
    [event    |-> seen.event,
     text     |-> IF row = NoRow THEN seen.text ELSE row.text,
     kind     |-> Classify(row, seen),
     previous |-> IF row = NoRow THEN NoRow ELSE row.event]

RowFor(row, seen) ==
    [event    |-> seen.event,
     text     |-> seen.text,
     kind     |-> Classify(row, seen),
     previous |-> IF row = NoRow THEN NoRow ELSE row.event]

(* loadLatestIssuerEvent, and what follows from it.  A listing that writes
   nothing answers with the row it read. *)
Loads(l, row) ==
    LET seen == listing[l].seen
    IN  /\ At(l, "load")
        /\ Goto(l, IF ShouldWrite(row, seen)
                   THEN [at |-> "insert", row |-> RowFor(row, seen)]
                   ELSE Idle)
        /\ UNCHANGED <<page, over, catalog, newest, went>>

Load(l) == Loads(l, newest)

(* The read fails, and is taken for no row. *)
FailToLoad(l) == Loads(l, NoRow)

Insert(l) ==
    /\ At(l, "insert")
    /\ newest' = listing[l].row
    /\ Goto(l, Idle)
    /\ UNCHANGED <<page, over, catalog, went>>

(* The listing answers as if the row were there. *)
FailToInsert(l) ==
    /\ At(l, "insert")
    /\ Goto(l, Idle)
    /\ UNCHANGED <<page, over, catalog, newest, went>>

-----------------------------------------------------------------------------
(* What goes on around the listings. *)

IssuerWrites ==
    /\ page' \in Pages \ {page}
    /\ went' = went \union {<<step[1], page'.terms>> : step \in went} \union {<<page'.terms, page'.terms>>}
    /\ UNCHANGED <<over, catalog, newest, listing>>

(* A deadline passes, whether or not the page states those terms now. *)
DeadlinePasses ==
    /\ \E terms \in Dated \ over : over' = over \union {terms}
    /\ UNCHANGED <<page, catalog, newest, listing, went>>

(* The entry's 120 s, counted from before its pages were fetched. *)
CatalogAges ==
    /\ Young
    /\ catalog' = [catalog EXCEPT !.young = FALSE]
    /\ UNCHANGED <<page, over, newest, listing, went>>

(* The API restarts. *)
Restart ==
    /\ catalog' = NoEntry
    /\ listing' = [l \in Listings |-> Idle]
    /\ UNCHANGED <<page, over, newest, went>>

Serves(l) == Begin(l) \/ Fetch(l) \/ Store(l) \/ Load(l) \/ Insert(l)

Fails ==
    \/ \E l \in Listings : FailToFetch(l) \/ FailToLoad(l) \/ FailToInsert(l)
    \/ Restart

\* The steps that are neither a failure nor the issuer's.
SmoothNext == CatalogAges \/ DeadlinePasses \/ \E l \in Listings : Serves(l)

Next == SmoothNext \/ Fails \/ IssuerWrites

Spec == Init /\ [][Next]_vars

(* Consoles ask for the actions every 15 s, a request under way goes on, and
   the catalog grows old. *)
FairSpec ==
    /\ Spec
    /\ \A l \in Listings : WF_vars(Serves(l))
    /\ WF_vars(CatalogAges)

-----------------------------------------------------------------------------
(* Properties. *)

(* Every variable is of its type. *)
TypeOK ==
    /\ page \in Pages
    /\ over \subseteq Dated
    /\ catalog \in {NoEntry} \union [young : BOOLEAN, seen : Seen \union {NoAsset}]
    /\ newest \in Rows \union {NoRow}
    /\ went \subseteq Terms \X Terms
    /\ listing \in [Listings ->
          [at : {"idle"}] \union [at : {"fetch"}, passed : SUBSET Dated] \union [at : {"store"}, seen : Seen \union {NoAsset}]
          \union [at : {"load"}, seen : Seen] \union [at : {"insert"}, row : Rows]]

(* The page said the one and then the other, or said the same until its
   deadline passed. *)
Happened(before, after) ==
    /\ <<before.terms, after.terms>> \in went
    /\ before.terms = after.terms => after.worthless /\ after.terms \in over

(* README.md:192, "Event History shows only real persisted transitions": a
   row of a change, both of whose events were read from the page, says what
   happened. *)
RealTransitions ==
    (newest # NoRow /\ newest.kind = "CHANGED"
        /\ newest.event.source = "page" /\ newest.previous.source = "page")
    => Happened(newest.previous, newest.event)

(* From some point on nothing fails and the issuer leaves its page alone. *)
Calm == <>[][SmoothNext]_vars

(* Then the history ends with what the page says, and with its deadline as it
   stands, whatever listings with an older view, or with none, or of an error
   page, wrote in between. *)
HistoryCatchesUp ==
    Calm => <>[](newest # NoRow /\ [event |-> newest.event, text |-> newest.text] = Reached(over))

(* And then it grows no more: listings that find nothing new add no rows. *)
HistoryComesToRest == Calm => <>[][\A l \in Listings : ~Insert(l)]_vars

=============================================================================
