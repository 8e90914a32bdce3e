------------------------- MODULE IssuerEventsProofs -------------------------
(***************************************************************************)
(* What TLAPS proves about the tables the API keeps.  IssuerEvents, for    *)
(* any pages: rows are of their types with any number of listings, and     *)
(* listings that do not overlap record only changes the page made.  Feed,  *)
(* for any number of overlapping requests: what they are told is dated.    *)
(***************************************************************************)
EXTENDS IssuerEvents, Feed, TLAPS

-----------------------------------------------------------------------------
(* Types. *)

LEMMA SeenTyped ==
    ASSUME TypeOK, NEW passed
    PROVE  Reached(passed) \in Seen /\ Unreached(passed) \subseteq Seen
<1>1. ASSUME NEW source \in {"page", "products"}, NEW says \in [terms : Terms, text : Texts]
      PROVE  Sees(source, says, passed) \in Seen
  BY DEF Sees, Seen, Events
<1>2. page \in [terms : Terms, text : Texts]
  BY PagesAssumption DEF TypeOK
<1>3. ErrorPages \union {[terms |-> Blank, text |-> Blank]} \subseteq [terms : Terms, text : Texts]
  BY PagesAssumption
<1>4. QED
  BY <1>1, <1>2, <1>3 DEF Reached, Unreached

LEMMA RowTyped ==
    ASSUME NEW row \in Rows \union {NoRow}, NEW seen \in Seen
    PROVE  RowFor(row, seen) \in Rows
BY RowAssumption DEF RowFor, Classify, Differ, Rows, Seen, Events

Stages ==
    [at : {"idle"}] \union [at : {"fetch"}, passed : SUBSET Dated] \union [at : {"store"}, seen : Seen \union {NoAsset}]
    \union [at : {"load"}, seen : Seen] \union [at : {"insert"}, row : Rows]

(* A listing goes on, and the rest is of its type. *)
LEMMA GotoTyped ==
    ASSUME TypeOK, NEW l \in Listings, NEW state \in Stages, Goto(l, state),
           UNCHANGED <<page, over, went>>,
           catalog' \in {NoEntry} \union [young : BOOLEAN, seen : Seen \union {NoAsset}],
           newest' \in Rows \union {NoRow}
    PROVE  TypeOK'
BY DEF TypeOK, Goto, Stages

LEMMA ObserveTyped ==
    ASSUME NEW seen \in Seen \union {NoAsset}
    PROVE  (IF seen = NoAsset THEN Idle ELSE [at |-> "load", seen |-> seen]) \in Stages
BY DEF Idle, Stages

LEMMA AtTyped ==
    ASSUME TypeOK, NEW l \in Listings
    PROVE  /\ At(l, "fetch") => listing[l].passed \subseteq Dated
           /\ At(l, "store") => listing[l].seen \in Seen \union {NoAsset}
           /\ At(l, "load") => listing[l].seen \in Seen
           /\ At(l, "insert") => listing[l].row \in Rows
BY DEF TypeOK, At

LEMMA TypeInit == Init => TypeOK
BY PagesAssumption DEF Init, TypeOK, Idle

LEMMA TypeNext == TypeOK /\ [Next]_vars => TypeOK'
<1> SUFFICES ASSUME TypeOK, [Next]_vars PROVE TypeOK'
  OBVIOUS
<1> catalog \in {NoEntry} \union [young : BOOLEAN, seen : Seen \union {NoAsset}]
  BY DEF TypeOK
<1> newest \in Rows \union {NoRow}
  BY DEF TypeOK
<1>1. ASSUME NEW l \in Listings, Begin(l) PROVE TypeOK'
  <2>1. CASE Young /\ Observe(l, catalog.seen)
    BY <1>1, <2>1, ObserveTyped, GotoTyped DEF Begin, Young, Observe
  <2>2. CASE Goto(l, [at |-> "fetch", passed |-> over])
    <3>1. [at |-> "fetch", passed |-> over] \in Stages
      BY DEF TypeOK, Stages
    <3>2. QED
      BY <1>1, <2>2, <3>1, GotoTyped DEF Begin
  <2>3. QED
    BY <1>1, <2>1, <2>2 DEF Begin
<1>2. ASSUME NEW l \in Listings, NEW seen \in Seen \union {NoAsset}, Fetches(l, seen) PROVE TypeOK'
  <2>1. [at |-> "store", seen |-> seen] \in Stages
    BY DEF Stages
  <2>2. QED
    BY <1>2, <2>1, GotoTyped DEF Fetches
<1>3. ASSUME NEW l \in Listings, Store(l) PROVE TypeOK'
  <2>1. listing[l].seen \in Seen \union {NoAsset}
    BY <1>3, AtTyped DEF Store
  <2>2. QED
    BY <1>3, <2>1, ObserveTyped, GotoTyped DEF Store, Observe
<1>4. ASSUME NEW l \in Listings, NEW row \in Rows \union {NoRow}, Loads(l, row) PROVE TypeOK'
  <2>1. listing[l].seen \in Seen
    BY <1>4, AtTyped DEF Loads
  <2>2. [at |-> "insert", row |-> RowFor(row, listing[l].seen)] \in Stages
    BY <2>1, RowTyped DEF Stages
  <2>3. Idle \in Stages
    BY DEF Idle, Stages
  <2>4. QED
    BY <1>4, <2>2, <2>3, GotoTyped DEF Loads
<1>5. ASSUME NEW l \in Listings, Insert(l) \/ FailToInsert(l) PROVE TypeOK'
  <2>1. listing[l].row \in Rows
    BY <1>5, AtTyped DEF Insert, FailToInsert
  <2>2. Idle \in Stages
    BY DEF Idle, Stages
  <2>3. QED
    BY <1>5, <2>1, <2>2, GotoTyped DEF Insert, FailToInsert
<1>6. CASE IssuerWrites
  BY <1>6, PagesAssumption DEF IssuerWrites, TypeOK
<1>7. CASE CatalogAges
  <2>1. catalog \in [young : BOOLEAN, seen : Seen \union {NoAsset}]
    BY <1>7 DEF CatalogAges, Young
  <2>2. catalog' \in [young : BOOLEAN, seen : Seen \union {NoAsset}]
    BY <1>7, <2>1 DEF CatalogAges
  <2>3. QED
    BY <1>7, <2>2 DEF CatalogAges, TypeOK
<1>8. CASE DeadlinePasses
  BY <1>8 DEF DeadlinePasses, TypeOK
<1>9. CASE Restart
  BY <1>9 DEF Restart, TypeOK, Idle
<1>10. CASE UNCHANGED vars
  BY <1>10 DEF vars, TypeOK
<1>11. QED
  BY <1>1, <1>2, <1>3, <1>4, <1>5, <1>6, <1>7, <1>8, <1>9, <1>10, SeenTyped
  DEF Next, SmoothNext, Serves, Fails, Fetch, FailToFetch, Load, FailToLoad

(* However listings overlap and fail, a row of a change has what it changed
   from, and the two differ (event-change.ts: observeIssuerEvent). *)
THEOREM RowsTyped == Spec => []TypeOK
BY TypeInit, TypeNext, PTL DEF Spec

-----------------------------------------------------------------------------
(* Listings that do not overlap. *)

Alone == \A l, m \in Listings : l = m

(* If the page said a, it did so once, and says what it says now since; and
   what a has expired has. *)
Said(a) ==
    a.source = "page" =>
        /\ {<<a.terms, a.terms>>, <<a.terms, page.terms>>} \subseteq went
        /\ a.worthless => a.terms \in over

Before(a, b) ==
    (a.source = "page" /\ b.source = "page") =>
        /\ <<a.terms, b.terms>> \in went
        /\ (a.terms = b.terms /\ a.worthless) => b.worthless

(* What was seen is no older than the newest row. *)
Fresh(seen) ==
    seen # NoAsset => Said(seen.event) /\ (newest # NoRow => Before(newest.event, seen.event))

(* The row is what the catalog has, compared with the newest row or none. *)
Follows(row) ==
    /\ catalog # NoEntry /\ catalog.seen # NoAsset /\ catalog.seen.event = row.event
    /\ row.previous # NoRow => newest # NoRow /\ row.previous = newest.event

NewestTrue ==
    newest # NoRow =>
        /\ Said(newest.event)
        /\ newest.previous # NoRow => Before(newest.previous, newest.event)

CatalogFresh == catalog # NoEntry => Fresh(catalog.seen)

(* A listing that fetches has taken the time after the newest row was read. *)
TimeTaken(passed) ==
    /\ passed \subseteq over
    /\ (newest # NoRow /\ newest.event.source = "page" /\ newest.event.worthless)
          => newest.event.terms \in passed

ListingTrue(l) ==
    /\ At(l, "fetch") => TimeTaken(listing[l].passed)
    /\ At(l, "store") => Fresh(listing[l].seen)
    /\ At(l, "load") => catalog # NoEntry /\ catalog.seen = listing[l].seen
    /\ At(l, "insert") => Follows(listing[l].row)

SerialInv ==
    /\ TypeOK
    /\ <<page.terms, page.terms>> \in went
    /\ NewestTrue
    /\ CatalogFresh
    /\ \A l \in Listings : ListingTrue(l)

LEMMA SerialInit == Init => SerialInv
BY TypeInit DEF Init, SerialInv, NewestTrue, CatalogFresh, ListingTrue, At, Idle

(* A step of the only listing that leaves page and rows alone. *)
LEMMA OnlyListing ==
    ASSUME Alone, SerialInv, TypeOK', NEW l \in Listings, NEW state, Goto(l, state),
           UNCHANGED <<page, over, newest, went>>, CatalogFresh', ListingTrue(l)'
    PROVE  SerialInv'
<1>1. NewestTrue'
  BY DEF SerialInv, NewestTrue, Said, Before
<1>2. \A m \in Listings : ListingTrue(m)'
  BY DEF Alone
<1>3. QED
  BY <1>1, <1>2 DEF SerialInv

LEMMA ReachedFresh ==
    ASSUME SerialInv, NEW passed, TimeTaken(passed)
    PROVE  Fresh(Reached(passed))
BY DEF SerialInv, NewestTrue, TimeTaken, Fresh, Said, Before, Reached, Sees

LEMMA UnreachedFresh ==
    ASSUME NEW passed, NEW seen \in Unreached(passed)
    PROVE  Fresh(seen)
BY DEF Fresh, Said, Before, Unreached, Sees

LEMMA SerialNext == Alone /\ SerialInv /\ [Next]_vars => SerialInv'
<1> SUFFICES ASSUME Alone, SerialInv, [Next]_vars PROVE SerialInv'
  OBVIOUS
<1>0. TypeOK /\ TypeOK'
  BY TypeNext DEF SerialInv
<1>1. ASSUME NEW l \in Listings, Begin(l) PROVE SerialInv'
  <2>1. CatalogFresh'
    BY <1>1 DEF Begin, SerialInv, CatalogFresh, Fresh, Said, Before
  <2>2. CASE Young /\ Observe(l, catalog.seen)
    <3>1. ListingTrue(l)'
      BY <1>0, <1>1, <2>2 DEF Begin, Observe, Young, Goto, TypeOK, ListingTrue, At, Idle
    <3>2. QED
      BY <1>0, <1>1, <2>1, <2>2, <3>1, OnlyListing DEF Begin, Observe
  <2>3. CASE Goto(l, [at |-> "fetch", passed |-> over])
    <3>1. TimeTaken(over)'
      BY <1>1 DEF Begin, SerialInv, NewestTrue, Said, TimeTaken
    <3>2. ListingTrue(l)'
      BY <1>0, <1>1, <2>3, <3>1 DEF Begin, Goto, TypeOK, ListingTrue, At, TimeTaken
    <3>3. QED
      BY <1>0, <1>1, <2>1, <2>3, <3>2, OnlyListing DEF Begin
  <2>4. QED
    BY <1>1, <2>2, <2>3 DEF Begin
<1>2. ASSUME NEW l \in Listings, NEW seen, Fresh(seen), Fetches(l, seen) PROVE SerialInv'
  <2>1. CatalogFresh'
    BY <1>2 DEF Fetches, SerialInv, CatalogFresh, Fresh, Said, Before
  <2>2. ListingTrue(l)'
    BY <1>0, <1>2 DEF Fetches, Goto, TypeOK, ListingTrue, At, Fresh, Said, Before
  <2>3. QED
    BY <1>0, <1>2, <2>1, <2>2, OnlyListing DEF Fetches
<1>3. ASSUME NEW l \in Listings, Store(l) PROVE SerialInv'
  <2>1. Fresh(listing[l].seen)
    BY <1>3 DEF Store, SerialInv, ListingTrue
  <2>2. CatalogFresh'
    BY <1>3, <2>1 DEF Store, CatalogFresh, Fresh, Said, Before
  <2>3. catalog' # NoEntry /\ catalog'.seen = listing[l].seen
    <3>1. listing[l].seen \in Seen \union {NoAsset}
      BY <1>0, <1>3, AtTyped DEF Store
    <3>2. [young |-> TRUE, seen |-> listing[l].seen] \in [young : BOOLEAN, seen : Seen \union {NoAsset}]
      BY <3>1
    <3>3. QED
      BY <1>3, <3>2, EntryAssumption DEF Store
  <2>4. ListingTrue(l)'
    BY <1>0, <1>3, <2>3 DEF Store, Observe, Goto, TypeOK, ListingTrue, At, Idle
  <2>5. QED
    BY <1>0, <1>3, <2>2, <2>4, OnlyListing DEF Store, Observe
<1>4. ASSUME NEW l \in Listings, NEW row, row \in {newest, NoRow}, Loads(l, row) PROVE SerialInv'
  <2>1. CatalogFresh'
    BY <1>4 DEF Loads, SerialInv, CatalogFresh, Fresh, Said, Before
  <2>2. CASE Goto(l, [at |-> "insert", row |-> RowFor(row, listing[l].seen)])
    <3>1. listing[l].seen \in Seen /\ catalog # NoEntry /\ catalog.seen = listing[l].seen
      BY <1>0, <1>4, AtTyped DEF Loads, SerialInv, ListingTrue
    <3>2. PICK inserted : inserted = RowFor(row, listing[l].seen)
      OBVIOUS
    <3>3. Follows(inserted)'
      BY <1>4, <3>1, <3>2, EntryAssumption DEF Loads, Follows, RowFor
    <3>4. listing'[l] = [at |-> "insert", row |-> inserted]
      BY <1>0, <2>2, <3>2 DEF Goto, TypeOK
    <3>5. ListingTrue(l)'
      BY <3>3, <3>4 DEF ListingTrue, At
    <3>6. QED
      BY <1>0, <1>4, <2>1, <2>2, <3>5, OnlyListing DEF Loads
  <2>3. CASE Goto(l, Idle)
    <3>1. ListingTrue(l)'
      BY <1>0, <2>3 DEF Goto, TypeOK, ListingTrue, At, Idle
    <3>2. QED
      BY <1>0, <1>4, <2>1, <2>3, <3>1, OnlyListing DEF Loads
  <2>4. QED
    BY <1>4, <2>2, <2>3 DEF Loads
<1>5. ASSUME NEW l \in Listings, Insert(l) PROVE SerialInv'
  <2> DEFINE row == listing[l].row
  <2>1. row \in Rows /\ Follows(row) /\ Fresh(catalog.seen)
    BY <1>0, <1>5, AtTyped DEF Insert, SerialInv, ListingTrue, CatalogFresh, Follows
  <2>2. newest' = row /\ UNCHANGED <<page, over, catalog, went>>
    BY <1>5 DEF Insert
  <2>3. NewestTrue'
    BY <2>1, <2>2 DEF NewestTrue, Follows, Fresh, Said, Before
  <2>4. CatalogFresh'
    BY <2>1, <2>2 DEF CatalogFresh, Follows, Fresh, Said, Before
  <2>5. ListingTrue(l)'
    BY <1>0, <1>5 DEF Insert, Goto, TypeOK, ListingTrue, At, Idle
  <2>6. QED
    BY <1>0, <2>2, <2>3, <2>4, <2>5 DEF SerialInv, Alone
<1>6. ASSUME NEW l \in Listings, FailToInsert(l) PROVE SerialInv'
  <2>1. CatalogFresh'
    BY <1>6 DEF FailToInsert, SerialInv, CatalogFresh, Fresh, Said, Before
  <2>2. ListingTrue(l)'
    BY <1>0, <1>6 DEF FailToInsert, Goto, TypeOK, ListingTrue, At, Idle
  <2>3. QED
    BY <1>0, <1>6, <2>1, <2>2, OnlyListing DEF FailToInsert
<1>7. CASE IssuerWrites
  <2>1. UNCHANGED <<over, catalog, newest, listing>> /\ went \subseteq went'
    BY <1>7 DEF IssuerWrites
  <2>2. <<page.terms, page.terms>>' \in went'
    BY <1>7 DEF IssuerWrites
  <2>3. ASSUME NEW a, Said(a) PROVE Said(a)'
    <3>1. CASE a.source = "page"
      <4>1. <<a.terms, a.terms>> \in went' /\ <<a.terms, page.terms>> \in went
        BY <2>1, <2>3, <3>1 DEF Said
      <4>2. <<a.terms, page'.terms>> \in went'
        BY <1>7, <4>1 DEF IssuerWrites
      <4>3. a.worthless => a.terms \in over'
        BY <2>1, <2>3, <3>1 DEF Said
      <4>4. QED
        BY <4>1, <4>2, <4>3 DEF Said
    <3>2. QED
      BY <3>1 DEF Said
  <2>4. ASSUME NEW a, NEW b, Before(a, b) PROVE Before(a, b)'
    BY <2>1, <2>4 DEF Before
  <2>5. NewestTrue'
    BY <2>1, <2>3, <2>4 DEF SerialInv, NewestTrue
  <2>6. ASSUME NEW seen, Fresh(seen) PROVE Fresh(seen)'
    BY <2>1, <2>3, <2>4, <2>6 DEF Fresh
  <2>7. CatalogFresh'
    BY <2>1, <2>6 DEF SerialInv, CatalogFresh
  <2>8. ASSUME NEW l \in Listings PROVE ListingTrue(l)'
    BY <2>1, <2>6 DEF SerialInv, ListingTrue, TimeTaken, At, Follows
  <2>9. QED
    BY <1>0, <2>2, <2>5, <2>7, <2>8 DEF SerialInv
<1>8. CASE CatalogAges
  <2>1. catalog' # NoEntry /\ catalog'.seen = catalog.seen
    BY <1>0, <1>8, EntryAssumption DEF CatalogAges, Young, TypeOK
  <2>2. UNCHANGED <<page, over, newest, listing, went>> /\ catalog # NoEntry
    BY <1>8 DEF CatalogAges, Young
  <2>3. NewestTrue' /\ CatalogFresh'
    BY <2>1, <2>2 DEF SerialInv, NewestTrue, CatalogFresh, Fresh, Said, Before
  <2>4. ASSUME NEW l \in Listings PROVE ListingTrue(l)'
    BY <2>1, <2>2 DEF SerialInv, ListingTrue, TimeTaken, At, Follows, Fresh, Said, Before
  <2>5. QED
    BY <1>0, <2>2, <2>3, <2>4 DEF SerialInv
<1>9. CASE Restart
  BY <1>0, <1>9 DEF Restart, SerialInv, NewestTrue, Said, Before, CatalogFresh, ListingTrue, At, Idle
<1>10. CASE DeadlinePasses
  <2>1. UNCHANGED <<page, catalog, newest, listing, went>> /\ over \subseteq over'
    BY <1>10 DEF DeadlinePasses
  <2>2. ASSUME NEW a, Said(a) PROVE Said(a)'
    BY <2>1, <2>2 DEF Said
  <2>3. ASSUME NEW seen, Fresh(seen) PROVE Fresh(seen)'
    BY <2>1, <2>2, <2>3 DEF Fresh, Before
  <2>4. NewestTrue' /\ CatalogFresh'
    BY <2>1, <2>2, <2>3 DEF SerialInv, NewestTrue, CatalogFresh, Before
  <2>5. ASSUME NEW l \in Listings PROVE ListingTrue(l)'
    BY <2>1, <2>3 DEF SerialInv, ListingTrue, TimeTaken, At, Follows
  <2>6. QED
    BY <1>0, <2>1, <2>4, <2>5 DEF SerialInv
<1>11. CASE UNCHANGED vars
  BY <1>0, <1>11
  DEF vars, SerialInv, NewestTrue, CatalogFresh, ListingTrue, TimeTaken, At, Follows, Fresh, Said, Before
<1>12. ASSUME NEW l \in Listings, Fetch(l) PROVE SerialInv'
  <2>1. TimeTaken(listing[l].passed)
    BY <1>12 DEF Fetch, SerialInv, ListingTrue
  <2>2. QED
    BY <1>2, <1>12, <2>1, ReachedFresh DEF Fetch
<1>13. ASSUME NEW l \in Listings, FailToFetch(l) PROVE SerialInv'
  <2>1. PICK seen \in Unreached(listing[l].passed) \union {NoAsset} : Fetches(l, seen)
    BY <1>13 DEF FailToFetch
  <2>2. Fresh(seen)
    BY UnreachedFresh DEF Fresh
  <2>3. QED
    BY <1>2, <2>1, <2>2
<1>14. QED
  BY <1>1, <1>3, <1>4, <1>5, <1>6, <1>7, <1>8, <1>9, <1>10, <1>11, <1>12, <1>13
  DEF Next, SmoothNext, Serves, Fails, Load, FailToLoad

LEMMA SerialReal == SerialInv => RealTransitions
BY DEF SerialInv, TypeOK, Rows, Events, Differ, NewestTrue, Said, Before, Happened, RealTransitions

(* Without overlap, a row of a change that compares two readings of the page
   (observeIssuerEvent) says what the page did, or that the deadline it stated
   has passed.  Nothing is said of rows that compare with an unreached page. *)
THEOREM SerialRealTransitions ==
    ASSUME \A l, m \in Listings : l = m
    PROVE  Spec => []RealTransitions
<1>1. Alone
  BY DEF Alone
<1>2. Spec => []SerialInv
  BY <1>1, SerialInit, SerialNext, PTL DEF Spec
<1>3. QED
  BY <1>2, SerialReal, PTL

-----------------------------------------------------------------------------
(* The feed. *)

FeedRows ==
    [deadline : Deadlines \union {Unstated}, state : {"verified", "unverified"}, date : Nat]

Calling ==
    [at : {"free"}] \union [at : {"fetch"}, since : Nat]
    \union [at : {"rest"}, since : Nat, deadline : Deadlines \union {Unstated}, ok : BOOLEAN]
    \union [at : {"told"}, deadline : Deadlines \union {Unstated},
            state : {"verified", "unverified", "stale"}]

FeedTyped ==
    /\ time \in Nat
    /\ stating \in Deadlines \union {Unstated}
    /\ lastly \in [Deadlines -> Int]
    /\ snapshot \in {NoSnapshot} \union FeedRows
    /\ call \in [Calls -> Calling]

(* The page states nothing later than now, and what it states it states now. *)
PageInv ==
    /\ \A d \in Deadlines : lastly[d] <= time
    /\ stating \in Deadlines => lastly[stating] = time

StatedSince(deadline, date) == deadline \in Deadlines /\ lastly[deadline] >= date

(* The row's deadline, if verified, was on the page at its date or after. *)
RowInv ==
    (snapshot # NoSnapshot /\ snapshot.state = "verified")
        => StatedSince(snapshot.deadline, snapshot.date)

(* What a refresh has of the page was there after it began. *)
CallInv(c) ==
    /\ call[c].at \in {"fetch", "rest"} => call[c].since <= time
    /\ (call[c].at = "rest" /\ call[c].ok /\ call[c].deadline # Unstated)
          => StatedSince(call[c].deadline, call[c].since)

FeedInv == FeedTyped /\ PageInv /\ RowInv /\ \A c \in Calls : CallInv(c)

LEMMA FeedInvInit == FeedInit => FeedInv
BY FeedAssumption DEF FeedInit, FeedInv, FeedTyped, PageInv, RowInv, CallInv, Calling, Free, Never

(* One request goes on, and nothing else happens. *)
LEMMA CallMoves ==
    ASSUME FeedInv, NEW c \in Calls, NEW state \in Calling, Moves(c, state),
           UNCHANGED World, snapshot' \in {NoSnapshot} \union FeedRows, RowInv',
           state.at \in {"fetch", "rest"} => state.since <= time,
           (state.at = "rest" /\ state.ok /\ state.deadline # Unstated)
               => StatedSince(state.deadline, state.since)
    PROVE  FeedInv'
<1>1. FeedTyped' /\ PageInv'
  BY DEF FeedInv, FeedTyped, PageInv, Moves, World
<1>2. ASSUME NEW b \in Calls PROVE CallInv(b)'
  <2>1. CASE b = c
    BY <2>1 DEF FeedInv, FeedTyped, Moves, World, CallInv, StatedSince
  <2>2. CASE b # c
    BY <2>2 DEF FeedInv, FeedTyped, Moves, World, CallInv, StatedSince
  <2>3. QED
    BY <2>1, <2>2
<1>3. QED
  BY <1>1, <1>2 DEF FeedInv

(* The page, as time passes and the issuer edits it, forgets nothing. *)
LEMMA PageMoves ==
    ASSUME FeedInv, FeedTyped', PageInv', UNCHANGED <<snapshot, call>>,
           time <= time', \A d \in Deadlines : lastly[d] <= lastly'[d]
    PROVE  FeedInv'
<1>1. RowInv'
  BY DEF FeedInv, FeedTyped, FeedRows, RowInv, StatedSince
<1>2. ASSUME NEW c \in Calls PROVE CallInv(c)'
  BY DEF FeedInv, FeedTyped, Calling, CallInv, StatedSince
<1>3. QED
  BY <1>1, <1>2 DEF FeedInv

(* What Stores inserts, and is told. *)
LEMMA RowDated ==
    ASSUME FeedInv, NEW c \in Calls, call[c].at = "rest",
           NEW verified, verified = IsVerified(call[c].deadline, call[c].ok),
           NEW row, row = Record(call[c].deadline,
                                 IF verified THEN "verified" ELSE "unverified",
                                 DateOf(call[c].since))
    PROVE  /\ row \in FeedRows
           /\ row.state = "verified" => StatedSince(row.deadline, call[c].since)
           /\ row.date = call[c].since
BY DEF FeedInv, FeedTyped, CallInv, Calling, Record, FeedRows, DateOf, IsVerified

LEMMA FeedInvNext == FeedInv /\ [FeedNext]_feedVars => FeedInv'
<1> SUFFICES ASSUME FeedInv, [FeedNext]_feedVars PROVE FeedInv'
  OBVIOUS
<1>1. FeedTyped /\ PageInv /\ RowInv
  BY DEF FeedInv
<1>2. UNCHANGED <<World, snapshot>> =>
          RowInv' /\ UNCHANGED World /\ snapshot' \in {NoSnapshot} \union FeedRows
  BY <1>1 DEF World, RowInv, StatedSince, FeedTyped
<1>3. ASSUME NEW c \in Calls, Refresh(c), UNCHANGED <<World, snapshot>> PROVE FeedInv'
  <2>1. [at |-> "fetch", since |-> time] \in Calling
    BY <1>1 DEF Calling, FeedTyped
  <2>2. QED
    BY <1>1, <1>2, <1>3, <2>1, CallMoves DEF Refresh, FeedTyped
<1>4. ASSUME NEW c \in Calls, Moves(c, Free), UNCHANGED <<World, snapshot>> PROVE FeedInv'
  BY <1>2, <1>4, CallMoves DEF Free, Calling
<1>5. ASSUME NEW c \in Calls, PageAnswers(c) PROVE FeedInv'
  <2>1. PICK ok \in BOOLEAN, deadline \in Deadlines \union {Unstated} :
            /\ ok => deadline = stating
            /\ Moves(c, [at |-> "rest", since |-> call[c].since,
                         deadline |-> deadline, ok |-> ok])
    BY <1>5 DEF PageAnswers
  <2>2. call[c].since \in Nat /\ call[c].since <= time
    BY <1>5 DEF PageAnswers, FeedInv, FeedTyped, CallInv, Calling
  <2>3. (ok /\ deadline # Unstated) => StatedSince(deadline, call[c].since)
    BY <1>1, <2>1, <2>2 DEF PageInv, FeedTyped, StatedSince
  <2>4. [at |-> "rest", since |-> call[c].since, deadline |-> deadline, ok |-> ok] \in Calling
    BY <2>2 DEF Calling
  <2>5. QED
    BY <1>2, <1>5, <2>1, <2>2, <2>3, <2>4, CallMoves DEF PageAnswers
<1>6. ASSUME NEW c \in Calls, Stores(c) PROVE FeedInv'
  <2> DEFINE verified == IsVerified(call[c].deadline, call[c].ok)
             row == Record(call[c].deadline, IF verified THEN "verified" ELSE "unverified",
                           DateOf(call[c].since))
  <2>1. call[c].at = "rest" /\ UNCHANGED World /\ Tell(c, row)
        /\ (snapshot' = row \/ snapshot' = snapshot)
    BY <1>6 DEF Stores
  <2>2. row \in FeedRows /\ (row.state = "verified" => StatedSince(row.deadline, row.date))
    BY <2>1, RowDated
  <2> HIDE DEF row
  <2>3. snapshot' \in {NoSnapshot} \union FeedRows /\ RowInv'
    BY <1>1, <2>1, <2>2 DEF FeedTyped, World, RowInv, StatedSince
  <2>4. [at |-> "told", deadline |-> row.deadline, state |-> row.state] \in Calling
    BY <2>2 DEF FeedRows, Calling
  <2>5. QED
    BY <2>1, <2>3, <2>4, CallMoves DEF Tell
<1>7. ASSUME NEW c \in Calls, snapshot # NoSnapshot, Tell(c, LatestFeed(snapshot)),
             UNCHANGED <<World, snapshot>>
      PROVE  FeedInv'
  <2>1. /\ LatestFeed(snapshot).deadline \in Deadlines \union {Unstated}
        /\ LatestFeed(snapshot).state \in {"verified", "unverified", "stale"}
    BY <1>1, <1>7 DEF FeedTyped, FeedRows, LatestFeed
  <2>2. [at |-> "told", deadline |-> LatestFeed(snapshot).deadline,
         state |-> LatestFeed(snapshot).state] \in Calling
    BY <2>1 DEF Calling
  <2>3. QED
    BY <1>2, <1>7, <2>2, CallMoves DEF Tell
<1>8. CASE ApiRestarts
  BY <1>1, <1>2, <1>8 DEF ApiRestarts, World, FeedInv, FeedTyped, PageInv, CallInv, Free, Calling
<1>9. CASE IssuerEdits
  <2>1. FeedTyped' /\ PageInv'
    BY <1>1, <1>9, FeedAssumption DEF IssuerEdits, FeedTyped, PageInv
  <2>2. \A d \in Deadlines : lastly[d] <= lastly'[d]
    BY <1>1, <1>9 DEF IssuerEdits, FeedTyped, PageInv
  <2>3. QED
    BY <1>1, <1>9, <2>1, <2>2, PageMoves DEF IssuerEdits, FeedTyped
<1>10. CASE Passes
  <2>1. FeedTyped' /\ PageInv'
    BY <1>1, <1>10 DEF Passes, FeedTyped, PageInv
  <2>2. \A d \in Deadlines : lastly[d] <= lastly'[d]
    BY <1>1, <1>10 DEF Passes, FeedTyped, PageInv
  <2>3. QED
    BY <1>1, <1>10, <2>1, <2>2, PageMoves DEF Passes, FeedTyped
<1>11. CASE UNCHANGED feedVars
  BY <1>11 DEF feedVars, FeedInv, FeedTyped, PageInv, RowInv, CallInv, StatedSince
<1>12. QED
  BY <1>3, <1>4, <1>5, <1>6, <1>7, <1>8, <1>9, <1>10, <1>11
  DEF FeedNext, AskToRefresh, AskForFeed, RefreshThrows, Answered

(* A request is told a verified deadline by a refresh of its own, or of a
   row that is not old. *)
LEMMA StepIsDated ==
    ASSUME FeedInv, FeedNext, NEW c \in Calls, call'[c] # call[c],
           call'[c].at = "told", call'[c].state = "verified"
    PROVE  \/ lastly[call'[c].deadline] >= time - FeedLife
           \/ call[c].at = "rest" /\ lastly[call'[c].deadline] >= call[c].since
<1>1. ASSUME NEW b \in Calls, NEW state, Moves(b, state)
      PROVE  b = c /\ call'[c] = state
  BY <1>1 DEF FeedInv, FeedTyped, Moves
<1>2. ASSUME NEW b \in Calls, NEW state, Moves(b, state)
      PROVE  state.at = "told"
  BY <1>1, <1>2
<1>3. ASSUME NEW b \in Calls
      PROVE  ~AskToRefresh(b) /\ ~PageAnswers(b) /\ ~RefreshThrows(b) /\ ~Answered(b)
  <2>1. ~Moves(b, [at |-> "fetch", since |-> time]) /\ ~Moves(b, Free)
    BY <1>2 DEF Free
  <2>2. \A ok, deadline :
          ~Moves(b, [at |-> "rest", since |-> call[b].since, deadline |-> deadline, ok |-> ok])
    BY <1>2
  <2>3. QED
    BY <2>1, <2>2 DEF AskToRefresh, Refresh, PageAnswers, RefreshThrows, Answered
<1>4. ASSUME NEW b \in Calls, Stores(b)
      PROVE  call[c].at = "rest" /\ lastly[call'[c].deadline] >= call[c].since
  <2> DEFINE verified == IsVerified(call[b].deadline, call[b].ok)
             row == Record(call[b].deadline, IF verified THEN "verified" ELSE "unverified",
                           DateOf(call[b].since))
  <2>1. call[b].at = "rest" /\ Tell(b, row)
    BY <1>4 DEF Stores
  <2>2. row.state = "verified" => StatedSince(row.deadline, call[b].since)
    BY <2>1, RowDated
  <2> HIDE DEF row
  <2>3. QED
    BY <1>1, <2>1, <2>2 DEF Tell, StatedSince
<1>5. ASSUME NEW b \in Calls, AskForFeed(b)
      PROVE  lastly[call'[c].deadline] >= time - FeedLife
  <2>1. snapshot # NoSnapshot /\ Tell(b, LatestFeed(snapshot))
    BY <1>2, <1>5 DEF AskForFeed, Refresh
  <2>2. LatestFeed(snapshot).state = "verified" /\ call'[c].deadline = LatestFeed(snapshot).deadline
    BY <1>1, <2>1 DEF Tell
  <2>3. snapshot \in FeedRows
    BY <2>1 DEF FeedInv, FeedTyped
  <2>4. /\ time - snapshot.date <= FeedLife
        /\ snapshot.state = "verified"
        /\ call'[c].deadline = snapshot.deadline
    BY <2>2, <2>3, FeedAssumption DEF LatestFeed, FeedRows, FeedInv, FeedTyped
  <2>5. StatedSince(snapshot.deadline, snapshot.date)
    BY <2>1, <2>4 DEF FeedInv, RowInv
  <2>6. QED
    BY <2>3, <2>4, <2>5, FeedAssumption DEF StatedSince, FeedInv, FeedTyped, FeedRows
<1>6. ~ApiRestarts
  BY DEF ApiRestarts, Free
<1>7. ~IssuerEdits /\ ~Passes
  BY DEF IssuerEdits, Passes
<1>8. QED
  BY <1>3, <1>4, <1>5, <1>6, <1>7 DEF FeedNext

(* However slowly a refresh runs, and whatever overlaps it, a verified
   deadline of GET /v1/feed or /v1/feed/refresh was on the page within
   FEED_STALE_MS of the answer, or after the request began. *)
THEOREM FeedAlwaysDated == FeedSpec => FeedIsDated
<1>1. FeedInv /\ [FeedNext]_feedVars =>
        [ \A c \in Calls :
            (call'[c] # call[c] /\ call'[c].at = "told" /\ call'[c].state = "verified") =>
                \/ lastly[call'[c].deadline] >= time - FeedLife
                \/ call[c].at = "rest" /\ lastly[call'[c].deadline] >= call[c].since ]_feedVars
  BY StepIsDated
<1>2. QED
  BY <1>1, FeedInvInit, FeedInvNext, PTL DEF FeedSpec, FeedIsDated

=============================================================================
