--------------------------- MODULE ConsoleProofs ---------------------------
(***************************************************************************)
(* What TLAPS proves about Console, for any wallets, assets and number of  *)
(* acts: its fields hold what they are declared to hold, and what it shows *)
(* never goes back.                                                        *)
(***************************************************************************)
EXTENDS Console, TLAPS

-----------------------------------------------------------------------------
(* The inductive invariant, a part for each group of fields. *)

Owners == Addresses \cup {NoOne}

Conns ==
    {Prompted} \cup {Trusted(left) : left \in 1..Providers}
               \cup {Balances(address) : address \in Addresses}

WalletOK ==
    /\ wallet \in [connecting : BOOLEAN, address : Owners]
    /\ wallet.connecting => wallet.address = NoOne
    /\ BagToSet(conns) \subseteq Conns
    /\ leaving \in Nat
    /\ BagToSet(loads) \subseteq Addresses
    /\ activity \in Owners

Looks == {NoLook, ProofLook} \cup [at : {"pda"}, pda : [owner : Addresses, asset : Assets]]

InspectOK ==
    /\ derived \in Pdas
    /\ look \in Looks
    /\ selected \in Assets

CountsOK ==
    /\ feedCalls \in Nat
    /\ conversions \in [asked : Nat, settled : Nat]
    /\ running \in BOOLEAN
    /\ served \in Nat \ {0}
    /\ acts \in 0..MaxActs
    /\ lists \in Reads
    /\ market \in 0..served

(* The one refresh that may still write has asked since what is shown was
   served, or has written the lists, no older than the market, itself. *)
RefreshOK ==
    \/ refreshes = {}
    \/ \E since \in 1..served :
           /\ refreshes = {Asked(since)}
           /\ market <= since
           /\ lists # Nothing => lists <= since
    \/ \E owner \in Owners :
           /\ refreshes = {Loading(lists, owner)}
           /\ lists # Nothing => market <= lists

IInv == WalletOK /\ InspectOK /\ CountsOK /\ RefreshOK

LEMMA InvTypes == IInv => ConsoleTypeOK
<1> SUFFICES ASSUME IInv PROVE ConsoleTypeOK
  OBVIOUS
<1>1. refreshes \in {{}}
                     \cup {{Asked(since)} : since \in 1..served}
                     \cup {{Loading(read, owner)} : read \in Reads, owner \in Addresses \cup {NoOne}}
  BY DEF IInv, RefreshOK, CountsOK, Owners
<1>2. QED
  BY <1>1 DEF IInv, WalletOK, InspectOK, CountsOK, ConsoleTypeOK, Owners, Conns, Looks

LEMMA EmptyIsEmpty == BagToSet(EmptyBag) = {}
BY DEF BagToSet, EmptyBag, SetToBag

LEMMA InvInit == ConsoleInit => IInv
<1> SUFFICES ASSUME ConsoleInit PROVE IInv
  OBVIOUS
<1> USE ConsoleAssumption DEF ConsoleInit
<1>1. WalletOK
  BY EmptyIsEmpty DEF WalletOK, Apart, Owners
<1>2. InspectOK
  BY DEF InspectOK, Looks, Pdas
<1>3. CountsOK
  <2>1. running \in BOOLEAN /\ lists \in Reads
    BY DEF Reads
  <2>2. 0 \in 0..MaxActs /\ 0 \in 0..1
    OBVIOUS
  <2>3. QED
    BY <2>1, <2>2 DEF CountsOK
<1>4. RefreshOK
  BY DEF RefreshOK
<1>5. QED
  BY <1>1, <1>2, <1>3, <1>4 DEF IInv

-----------------------------------------------------------------------------
(* What the helpers leave behind. *)

LEMMA AddedTo ==
    ASSUME NEW bag, NEW e
    PROVE  BagToSet(BagAdd(bag, e)) = BagToSet(bag) \cup {e}
BY DEF BagToSet, BagAdd

LEMMA RemovedFrom ==
    ASSUME NEW bag, NEW e
    PROVE  BagToSet(BagRemove(bag, e)) \subseteq BagToSet(bag)
BY DEF BagToSet, BagRemove

(* An inspection asks for the address of a wallet and an asset that exist. *)
LEMMA InspectsTyped ==
    ASSUME InspectOK, NEW owner \in Owners, NEW asset \in Assets, NEW shown,
           Inspects(owner, asset, shown), selected' \in Assets
    PROVE  InspectOK'
<1>1. Pdas' = Pdas /\ NoPda \in Pdas
  BY DEF Pdas
<1>2. owner # NoOne => PdaLook(owner, asset) \in Looks
  BY DEF PdaLook, PdaOf, Looks, Owners
<1>3. NoLook \in Looks /\ ProofLook \in Looks
  BY DEF Looks
<1>4. QED
  BY <1>1, <1>2, <1>3 DEF Inspects, LooksFor, InspectOK

LEMMA WalletStays == WalletOK /\ UNCHANGED walletVars => WalletOK'
BY DEF WalletOK, walletVars

LEMMA InspectStays == InspectOK /\ UNCHANGED inspectVars => InspectOK'
BY DEF InspectOK, inspectVars, Pdas

LEMMA FeedStays ==
    CountsOK /\ RefreshOK /\ UNCHANGED <<feedVars, conversions, served>> /\ acts' \in 0..MaxActs
        => (CountsOK /\ RefreshOK)'
BY DEF CountsOK, RefreshOK, feedVars, Reads

LEMMA ActsTyped == CountsOK /\ Acts => acts' \in 0..MaxActs
BY ConsoleAssumption DEF CountsOK, Acts

(* A refresh that starts asks after everything shown was served. *)
LEMMA StartTyped ==
    ASSUME CountsOK, StartRefresh, UNCHANGED <<lists, market, served>>
    PROVE  RefreshOK'
<1>1. refreshes' = {Asked(served)}
  BY DEF StartRefresh, Aborted
<1>2. served \in 1..served /\ market <= served /\ (lists # Nothing => lists <= served)
  BY DEF CountsOK, Reads
<1>3. QED
  BY <1>1, <1>2 DEF RefreshOK

LEMMA RefreshTyped ==
    ASSUME IInv, NEW r \in refreshes
    PROVE  /\ refreshes = {r}
           /\ r.at = "asked" =>
                /\ r.since \in 1..served /\ market <= r.since
                /\ lists # Nothing => lists <= r.since
           /\ r.at = "activity" =>
                /\ r.read = lists /\ r.owner \in Owners
                /\ lists # Nothing => market <= lists
BY DEF IInv, RefreshOK, Asked, Loading

LEMMA ConnTyped ==
    ASSUME WalletOK, NEW c \in BagToSet(conns)
    PROVE  /\ c.at = "trusted" => c.left \in 1..Providers
           /\ c.at = "balances" => c.address \in Addresses
BY DEF WalletOK, Conns, Prompted, Trusted, Balances

-----------------------------------------------------------------------------
(* Every step keeps the invariant. *)

LEMMA RefreshSteps ==
    ASSUME IInv, NEW r \in refreshes
    PROVE  /\ \A read \in Reads :
                  /\ read # Nothing /\ r.at = "asked" => read >= r.since
                  /\ RefreshArrives(r, read)
                  => IInv'
           /\ \A owner \in Owners : FinishRefresh(r, owner) => IInv'
           /\ ThrowRefresh(r) => IInv'
<1>1. ASSUME NEW read \in Reads, RefreshArrives(r, read),
             read # Nothing /\ r.at = "asked" => read >= r.since
      PROVE  IInv'
  <2>1. WalletOK' /\ InspectOK'
    BY <1>1, InspectStays DEF RefreshArrives, LoadsActivity, IInv, WalletOK, Owners
  <2>2. CountsOK'
    BY <1>1 DEF RefreshArrives, IInv, CountsOK, Reads
  <2>3. refreshes' = {Loading(read, wallet.address)} /\ lists' = read
    BY <1>1, RefreshTyped DEF RefreshArrives
  <2>4. wallet.address \in Owners
    BY DEF IInv, WalletOK
  <2>5. read # Nothing => market <= read
    BY <1>1, RefreshTyped DEF RefreshArrives, IInv, CountsOK, Reads
  <2>6. RefreshOK'
    BY <1>1, <2>3, <2>4, <2>5 DEF RefreshArrives, RefreshOK
  <2>7. QED
    BY <2>1, <2>2, <2>6 DEF IInv
<1>2. ASSUME NEW owner \in Owners, FinishRefresh(r, owner) PROVE IInv'
  <2>1. WalletOK'
    BY <1>2 DEF FinishRefresh, IInv, WalletOK
  <2>2. InspectOK'
    <3>1. wallet.address \in Owners /\ selected \in Assets /\ selected' = selected
      BY <1>2 DEF IInv, WalletOK, InspectOK, FinishRefresh
    <3>2. QED
      BY <1>2, <3>1, InspectsTyped DEF FinishRefresh, IInv
  <2>3. refreshes' = {}
    BY <1>2, RefreshTyped DEF FinishRefresh
  <2>4. market' \in 0..served
    BY <1>2, RefreshTyped DEF FinishRefresh, MarketFrom, IInv, CountsOK, Reads
  <2>5. CountsOK' /\ RefreshOK'
    BY <1>2, <2>3, <2>4 DEF FinishRefresh, IInv, CountsOK, RefreshOK, Reads
  <2>6. QED
    BY <2>1, <2>2, <2>5 DEF IInv
<1>3. ASSUME ThrowRefresh(r) PROVE IInv'
  <2>1. refreshes' = {}
    BY <1>3, RefreshTyped DEF ThrowRefresh
  <2>2. WalletOK' /\ InspectOK'
    BY <1>3, WalletStays, InspectStays DEF ThrowRefresh, IInv
  <2>3. QED
    BY <1>3, <2>1, <2>2 DEF ThrowRefresh, IInv, CountsOK, RefreshOK, Reads
<1>4. QED
  BY <1>1, <1>2, <1>3

LEMMA WalletSteps ==
    ASSUME IInv
    PROVE  /\ \A c \in BagToSet(conns) :
                  /\ \A address \in Addresses : Approve(c, address) => IInv'
                  /\ GiveUp(c) \/ Distrust(c) \/ ApplyConnectedWallet(c) => IInv'
           /\ \A owner \in BagToSet(loads) : ActivityArrives(owner) \/ ActivityFails(owner) => IInv'
           /\ ConnectWallet \/ DisconnectWallet \/ Leave => IInv'
<1> USE DEF IInv
<1> acts \in 0..MaxActs
  BY DEF CountsOK
<1>1. ASSUME NEW c \in BagToSet(conns), NEW address \in Addresses, Approve(c, address)
      PROVE  IInv'
  <2>1. BagToSet(conns)' \subseteq Conns
    BY <1>1, AddedTo, RemovedFrom DEF Approve, WalletOK, Conns
  <2>2. WalletOK'
    BY <1>1, <2>1 DEF Approve, WalletOK, BagToSet
  <2>3. QED
    BY <1>1, <2>2, InspectStays, FeedStays DEF Approve
<1>2. ASSUME NEW c \in BagToSet(conns), GiveUp(c) PROVE IInv'
  <2>1. BagToSet(conns)' \subseteq Conns
    BY <1>2, RemovedFrom DEF GiveUp, WalletOK
  <2>2. WalletOK'
    BY <1>2, <2>1 DEF GiveUp, ForgetsWallet, Apart, WalletOK, Owners, BagToSet
  <2>3. QED
    BY <1>2, <2>2, InspectStays, FeedStays DEF GiveUp
<1>3. ASSUME NEW c \in BagToSet(conns), Distrust(c) PROVE IInv'
  <2>1. c.left \in 1..Providers
    BY <1>3, ConnTyped DEF Distrust
  <2>2. c.left # 1 => c.left - 1 \in 1..Providers
    BY <2>1, ConsoleAssumption
  <2>3. BagToSet(conns)' \subseteq Conns
    BY <1>3, <2>2, AddedTo, RemovedFrom DEF Distrust, WalletOK, Conns
  <2>4. WalletOK'
    BY <1>3, <2>3 DEF Distrust, WalletOK, BagToSet
  <2>5. QED
    BY <1>3, <2>4, InspectStays, FeedStays DEF Distrust
<1>4. ASSUME NEW c \in BagToSet(conns), ApplyConnectedWallet(c) PROVE IInv'
  <2>1. c.address \in Addresses
    BY <1>4, ConnTyped DEF ApplyConnectedWallet
  <2>2. WalletOK'
    <3>1. BagToSet(conns)' \subseteq Conns
      BY <1>4, RemovedFrom DEF ApplyConnectedWallet, WalletOK
    <3>2. BagToSet(loads)' \subseteq Addresses
      BY <1>4, <2>1, AddedTo DEF ApplyConnectedWallet, WalletOK
    <3>3. QED
      BY <1>4, <2>1, <3>1, <3>2 DEF ApplyConnectedWallet, WalletOK, Owners
  <2>3. InspectOK'
    BY <1>4, <2>1, InspectsTyped DEF ApplyConnectedWallet, InspectOK, Owners
  <2>4. QED
    BY <1>4, <2>2, <2>3, FeedStays DEF ApplyConnectedWallet
<1>5. ASSUME NEW owner \in BagToSet(loads), ActivityArrives(owner) \/ ActivityFails(owner) PROVE IInv'
  <2>1. WalletOK'
    <3>1. BagToSet(loads)' \subseteq Addresses
      BY <1>5, RemovedFrom DEF ActivityArrives, ActivityFails, WalletOK
    <3>2. owner \in Addresses /\ BagToSet(conns)' = BagToSet(conns)
      BY <1>5 DEF ActivityArrives, ActivityFails, WalletOK
    <3>3. QED
      BY <1>5, <3>1, <3>2 DEF ActivityArrives, ActivityFails, WalletOK, Owners
  <2>2. QED
    BY <1>5, <2>1, InspectStays, FeedStays DEF ActivityArrives, ActivityFails
<1>6. ASSUME ConnectWallet PROVE IInv'
  <2>1. WalletOK'
    <3>1. BagToSet(conns)' \subseteq Conns
      BY <1>6, AddedTo DEF ConnectWallet, WalletOK, Conns
    <3>2. QED
      BY <1>6, <3>1 DEF ConnectWallet, Apart, WalletOK, Owners
  <2>2. QED
    BY <1>6, <2>1, InspectStays, FeedStays, ActsTyped DEF ConnectWallet
<1>7. ASSUME DisconnectWallet PROVE IInv'
  <2>1. WalletOK'
    BY <1>7 DEF DisconnectWallet, WalletOK
  <2>2. QED
    BY <1>7, <2>1, InspectStays, FeedStays, ActsTyped DEF DisconnectWallet
<1>8. ASSUME Leave PROVE IInv'
  <2>1. WalletOK'
    BY <1>8 DEF Leave, Apart, WalletOK, Owners
  <2>2. InspectOK'
    BY <1>8 DEF Leave, InspectOK, Pdas
  <2>3. QED
    BY <1>8, <2>1, <2>2, FeedStays DEF Leave
<1>9. QED
  BY <1>1, <1>2, <1>3, <1>4, <1>5, <1>6, <1>7, <1>8

LEMMA InspectSteps ==
    ASSUME IInv
    PROVE  /\ ProofAnswers \/ PdaAnswers \/ LookFails => IInv'
           /\ \A asset \in Assets : SelectAsset(asset) => IInv'
<1> USE DEF IInv
<1> acts \in 0..MaxActs
  BY DEF CountsOK
<1> wallet.address \in Owners /\ selected \in Assets
  BY DEF WalletOK, InspectOK
<1>1. ASSUME ProofAnswers PROVE IInv'
  <2>1. Inspects(wallet.address, selected, lists) /\ selected' = selected
    BY <1>1 DEF ProofAnswers, Inspects
  <2>2. QED
    BY <1>1, <2>1, WalletStays, InspectsTyped, FeedStays DEF ProofAnswers
<1>2. ASSUME PdaAnswers PROVE IInv'
  <2>1. look.pda \in Pdas
    BY <1>2 DEF PdaAnswers, InspectOK, Looks, NoLook, ProofLook, Pdas
  <2>2. InspectOK'
    BY <1>2, <2>1 DEF PdaAnswers, InspectOK, Looks, Pdas
  <2>3. QED
    BY <1>2, <2>2, WalletStays, FeedStays DEF PdaAnswers
<1>3. ASSUME LookFails PROVE IInv'
  <2>1. InspectOK'
    BY <1>3 DEF LookFails, InspectOK, Looks, Pdas
  <2>2. QED
    BY <1>3, <2>1, WalletStays, FeedStays DEF LookFails
<1>4. ASSUME NEW asset \in Assets, SelectAsset(asset) PROVE IInv'
  BY <1>4, WalletStays, InspectsTyped, FeedStays, ActsTyped DEF SelectAsset
<1>5. QED
  BY <1>1, <1>2, <1>3, <1>4

LEMMA FeedSteps ==
    ASSUME IInv
    PROVE  /\ Start \/ Stop \/ Poll \/ FeedRefreshed \/ Serve => IInv'
           /\ RequestConversion \/ ConversionSettles \/ ConversionEnds \/ ConnectsAgain => IInv'
<1> USE DEF IInv
<1>1. ASSUME Start PROVE IInv'
  <2>1. WalletOK'
    <3>1. Trusted(Providers) \in Conns
      BY ConsoleAssumption DEF Conns
    <3>2. BagToSet(conns)' \subseteq Conns
      BY <1>1, <3>1, AddedTo DEF Start, WalletOK
    <3>3. QED
      BY <1>1, <3>2 DEF Start, WalletOK
  <2>2. QED
    BY <1>1, <2>1, InspectStays DEF Start, CountsOK, RefreshOK, Reads
<1>2. ASSUME Stop PROVE IInv'
  <2>1. CountsOK' /\ RefreshOK'
    BY <1>2, ActsTyped DEF Stop, Aborted, CountsOK, RefreshOK, Reads
  <2>2. QED
    BY <1>2, <2>1, WalletStays, InspectStays DEF Stop
<1>3. ASSUME Poll PROVE IInv'
  BY <1>3, WalletStays, InspectStays, StartTyped DEF Poll, CountsOK, Reads
<1>4. ASSUME FeedRefreshed PROVE IInv'
  <2>1. CountsOK'
    BY <1>4 DEF FeedRefreshed, CountsOK, Reads
  <2>2. QED
    BY <1>4, <2>1, WalletStays, InspectStays, StartTyped DEF FeedRefreshed
<1>5. ASSUME Serve PROVE IInv'
  <2>1. CountsOK'
    BY <1>5, ActsTyped DEF Serve, feedVars, CountsOK, Reads
  <2>2. RefreshOK'
    BY <1>5 DEF Serve, feedVars, RefreshOK, CountsOK
  <2>3. QED
    BY <1>5, <2>1, <2>2, WalletStays, InspectStays DEF Serve
<1>6. ASSUME RequestConversion PROVE IInv'
  <2>1. CountsOK' /\ RefreshOK'
    BY <1>6, ActsTyped DEF RequestConversion, feedVars, CountsOK, RefreshOK, Reads
  <2>2. QED
    BY <1>6, <2>1, WalletStays, InspectStays DEF RequestConversion
<1>7. ASSUME ConversionSettles PROVE IInv'
  <2>1. CountsOK'
    BY <1>7 DEF ConversionSettles, CountsOK, Reads
  <2>2. QED
    BY <1>7, <2>1, WalletStays, InspectStays, StartTyped DEF ConversionSettles
<1>8. ASSUME ConversionEnds PROVE IInv'
  <2>1. CountsOK' /\ RefreshOK'
    BY <1>8 DEF ConversionEnds, feedVars, CountsOK, RefreshOK, Reads
  <2>2. QED
    BY <1>8, <2>1, WalletStays, InspectStays DEF ConversionEnds
<1>9. ASSUME ConnectsAgain PROVE IInv'
  <2>1. wallet.address # NoOne => Balances(wallet.address) \in Conns
    BY DEF WalletOK, Owners, Conns
  <2>2. BagToSet(conns)' \subseteq Conns
    BY <1>9, <2>1, AddedTo DEF ConnectsAgain, WalletOK
  <2>3. WalletOK'
    BY <1>9, <2>2 DEF ConnectsAgain, WalletOK
  <2>4. CountsOK' /\ RefreshOK'
    BY <1>9 DEF ConnectsAgain, feedVars, CountsOK, RefreshOK, Reads
  <2>5. QED
    BY <1>9, <2>3, <2>4, InspectStays DEF ConnectsAgain
<1>10. QED
  BY <1>1, <1>2, <1>3, <1>4, <1>5, <1>6, <1>7, <1>8, <1>9

LEMMA InvNext == IInv /\ [ConsoleNext]_consoleVars => IInv'
<1> SUFFICES ASSUME IInv, [ConsoleNext]_consoleVars PROVE IInv'
  OBVIOUS
<1>1. CASE UserActs
  BY <1>1, FeedSteps, WalletSteps, InspectSteps DEF UserActs
<1>2. CASE Unreached
  <2>1. Nothing \in Reads /\ NoOne \in Owners
    BY DEF Reads, Owners
  <2>2. ASSUME NEW r \in refreshes, RefreshArrivesEmpty(r) PROVE IInv'
    BY <2>1, <2>2, RefreshSteps DEF RefreshArrivesEmpty
  <2>3. ASSUME NEW r \in refreshes, FinishRefreshWithout(r) \/ ThrowRefresh(r) PROVE IInv'
    BY <2>1, <2>3, RefreshSteps DEF FinishRefreshWithout
  <2>4. QED
    BY <1>2, <2>2, <2>3, InspectSteps, WalletSteps DEF Unreached
<1>3. CASE \E c \in BagToSet(conns), address \in Addresses : Approve(c, address)
  BY <1>3, WalletSteps
<1>4. CASE WalletAnswers
  BY <1>4, WalletSteps DEF WalletAnswers
<1>5. CASE ProofAnswers \/ PdaAnswers
  BY <1>5, InspectSteps
<1>6. CASE Poll \/ FeedRefreshed \/ Serve \/ ConversionSettles \/ ConversionEnds \/ ConnectsAgain
  BY <1>6, FeedSteps
<1>7. CASE AnyArrival
  <2>1. PICK r \in refreshes : r.at = "asked" /\ \E read \in r.since..served : RefreshArrives(r, read)
    BY <1>7 DEF AnyArrival
  <2>2. r.since \in 1..served
    BY <2>1, RefreshTyped
  <2>3. PICK read \in r.since..served : RefreshArrives(r, read)
    BY <2>1
  <2>4. read \in Reads /\ read >= r.since
    BY <2>2, <2>3 DEF Reads, IInv, CountsOK
  <2>5. QED
    BY <2>3, <2>4, RefreshSteps
<1>8. CASE AnyFinish
  <2>1. PICK r \in refreshes : r.at = "activity" /\ FinishRefresh(r, r.owner)
    BY <1>8 DEF AnyFinish
  <2>2. r.owner \in Owners
    BY <2>1, RefreshTyped
  <2>3. QED
    BY <2>1, <2>2, RefreshSteps
<1>9. CASE UNCHANGED consoleVars
  <2>1. UNCHANGED walletVars /\ UNCHANGED inspectVars /\ UNCHANGED <<feedVars, conversions, served>> /\ acts' = acts
    BY <1>9 DEF consoleVars, walletVars, inspectVars, feedVars
  <2>2. QED
    BY <2>1, WalletStays, InspectStays, FeedStays DEF IInv, CountsOK
<1>10. QED
  BY <1>1, <1>2, <1>3, <1>4, <1>5, <1>6, <1>7, <1>8, <1>9 DEF ConsoleNext, AnsweredNext

(* The console's fields hold what they are declared to hold, and at most one
   refresh may still write (backendSource.ts). *)
THEOREM ConsoleTyped == ConsoleSpec => []ConsoleTypeOK
<1>1. ConsoleSpec => []IInv
  BY InvInit, InvNext, PTL DEF ConsoleSpec
<1>2. QED
  BY <1>1, InvTypes, PTL

-----------------------------------------------------------------------------
(* Which steps write what is shown, and what they write. *)

Forward ==
    /\ market' >= market
    /\ lists # Nothing /\ lists' # Nothing => lists' >= lists

LEMMA ForwardUnlessWritten ==
    ASSUME IInv, UNCHANGED <<lists, market>>
    PROVE  Forward
BY DEF IInv, CountsOK, Reads, Forward

LEMMA ForwardByRefresh ==
    ASSUME IInv, NEW r \in refreshes
    PROVE  /\ RefreshArrivesEmpty(r) => Forward
           /\ \A owner : FinishRefresh(r, owner) => Forward
           /\ r.at = "asked" => \A read \in r.since..served : RefreshArrives(r, read) => Forward
<1> market \in 0..served /\ lists \in Reads /\ served \in Nat
  BY DEF IInv, CountsOK
<1>1. ASSUME RefreshArrivesEmpty(r) PROVE Forward
  BY <1>1 DEF RefreshArrivesEmpty, RefreshArrives, Forward
<1>2. ASSUME NEW owner, FinishRefresh(r, owner) PROVE Forward
  <2>1. market' >= market
    BY <1>2, RefreshTyped DEF FinishRefresh, MarketFrom, Reads
  <2>2. QED
    BY <1>2, <2>1 DEF FinishRefresh, Forward, Reads
<1>3. ASSUME r.at = "asked", NEW read \in r.since..served, RefreshArrives(r, read) PROVE Forward
  BY <1>3, RefreshTyped DEF RefreshArrives, Forward, Reads
<1>4. QED
  BY <1>1, <1>2, <1>3

LEMMA ForwardNext == IInv /\ ConsoleNext => Forward
<1> SUFFICES ASSUME IInv, ConsoleNext PROVE Forward
  OBVIOUS
<1>1. CASE UserActs
  BY <1>1, ForwardUnlessWritten
  DEF UserActs, Start, Stop, ConnectWallet, DisconnectWallet, RequestConversion, SelectAsset, feedVars
<1>2. CASE Unreached
  BY <1>2, ForwardUnlessWritten, ForwardByRefresh
  DEF Unreached, LookFails, ActivityFails, FinishRefreshWithout, ThrowRefresh, feedVars
<1>3. CASE \E c \in BagToSet(conns), address \in Addresses : Approve(c, address)
  BY <1>3, ForwardUnlessWritten DEF Approve, feedVars
<1>4. CASE WalletAnswers
  BY <1>4, ForwardUnlessWritten
  DEF WalletAnswers, GiveUp, Distrust, ApplyConnectedWallet, ActivityArrives, Leave, feedVars
<1>5. CASE \/ ProofAnswers \/ PdaAnswers \/ Poll \/ FeedRefreshed \/ Serve
         \/ ConversionSettles \/ ConversionEnds \/ ConnectsAgain
  BY <1>5, ForwardUnlessWritten
  DEF ProofAnswers, PdaAnswers, Poll, FeedRefreshed, Serve,
      ConversionSettles, ConversionEnds, ConnectsAgain, feedVars
<1>6. CASE AnyArrival
  BY <1>6, ForwardByRefresh DEF AnyArrival
<1>7. CASE AnyFinish
  BY <1>7, ForwardByRefresh DEF AnyFinish
<1>8. QED
  BY <1>1, <1>2, <1>3, <1>4, <1>5, <1>6, <1>7 DEF ConsoleNext, AnsweredNext

(* What the console shows never goes back to an older version, however many
   refreshes are started, aborted, cut off or partly answered. *)
THEOREM ConsoleNeverGoesBack == ConsoleSpec => NeverGoesBack
<1>1. IInv /\ [ConsoleNext]_consoleVars => [Forward]_consoleVars
  BY ForwardNext
<1>2. ConsoleSpec => [][Forward]_consoleVars
  BY <1>1, InvInit, InvNext, PTL DEF ConsoleSpec
<1>3. [Forward]_consoleVars =>
          [/\ market' >= market
           /\ lists # Nothing /\ lists' # Nothing => lists' >= lists]_consoleVars
  BY DEF Forward
<1>4. QED
  BY <1>2, <1>3, PTL DEF NeverGoesBack

=============================================================================
