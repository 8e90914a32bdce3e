-------------------------- MODULE ConversionProofs --------------------------
(***************************************************************************)
(* What TLAPS proves about Conversion, for any number of sessions and      *)
(* wallets, any lifetimes of the caches and any conduct of the issuer, of  *)
(* Jupiter and of the chain: receipts are of conversions that landed, the  *)
(* holder is told the truth, nothing is submitted that the issuer had      *)
(* closed before the caches could have been filled, every field holds what *)
(* it is declared to, and the whole implements ConversionLedger.  Of what  *)
(* the runs refute, HeededWithoutFeed says when it would hold.             *)
(***************************************************************************)
EXTENDS Conversion, TLAPS

(* Where a request is before it has called Jupiter, and after. *)
Gated == {"lookup", "fetch", "baseline", "inspect", "quote"}
Beyond == {"jupiter", "confirm", "store"}

TxFields == {"status", "snapshot", "quotedAt"}

Shaped ==
    /\ DOMAIN call = Sessions
    /\ DOMAIN console = Sessions
    /\ DOMAIN tx = Sessions
    /\ \A s \in Sessions : tx[s].status # "unsigned" => DOMAIN tx[s] = TxFields

(* The receipts of a session are of its transaction, once it is told. *)
Backed(s) ==
    \A r \in receipts : r.sig = s =>
        /\ console[s].at = "told"
        /\ tx[s].status = "landed"
        /\ r.taker = tx[s].snapshot.taker
        /\ r.amount = tx[s].snapshot.amount

Erred(s) == console[s] = [at |-> "told", outcome |-> "error"]

(* Whoever waits has a request at work, which may outlive the connection.  One
   that assembles has no transaction yet; one that executes holds the snapshot
   of the one that was signed, and when it has called Jupiter it speaks for
   the wallet and the amount of that transaction. *)
Working(s) ==
    /\ console[s].at = "asking" => call[s].at # "none" /\ call[s].req.assemble
    /\ console[s].at = "posted" => call[s].at # "none" /\ ~call[s].req.assemble
    /\ call[s].at # "none" =>
          /\ Waits(s) \/ Erred(s)
          /\ \A r \in receipts : r.sig # s
          /\ call[s].at \in Gated \cup Beyond
          /\ call[s].req.assemble => call[s].at \in Gated /\ tx[s].status = "unsigned"
          /\ ~call[s].req.assemble =>
                /\ call[s].req.bound = tx[s].snapshot
                /\ \/ call[s].at \in Gated /\ tx[s].status = "signed"
                   \/ /\ call[s].at \in Beyond
                      /\ tx[s].status \notin {"unsigned", "signed"}
                      /\ call[s].req.taker = tx[s].snapshot.taker
                      /\ call[s].req.amount = tx[s].snapshot.amount
          /\ call[s].at = "store" => tx[s].status = "landed"

Sound(s) ==
    /\ console[s].at \in {"idle", "asking", "signing", "signed", "posted", "told"}
    /\ console[s].at \in {"idle", "asking", "signing"} => tx[s].status = "unsigned"
    /\ console[s].at = "signed" => tx[s].status = "signed"
    /\ Working(s)
    /\ Backed(s)

Told(s) ==
    console[s].at = "told" =>
        LET sent == tx[s].status \notin {"unsigned", "signed"} IN
        /\ console[s].outcome = "settled" => \E r \in receipts : r.sig = s
        /\ console[s].outcome = "refused" => ~sent
        /\ console[s].outcome = "submitted" => sent

LedgerInv ==
    /\ Shaped
    /\ \A s \in Sessions : Sound(s) /\ Told(s)
    /\ \A r \in receipts : r.sig \in Sessions
    /\ \A r, q \in receipts : r.sig = q.sig => r = q

LEMMA LedgerInit == Init => LedgerInv
BY DEF Init, LedgerInv, Shaped, Sound, Told, Working, Backed, NoCall, Unsigned, TxFields

(* A step of one session. *)
Only(s) ==
    /\ DOMAIN call' = Sessions
    /\ DOMAIN console' = Sessions
    /\ DOMAIN tx' = Sessions
    /\ \A u \in Sessions \ {s} :
          call'[u] = call[u] /\ console'[u] = console[u] /\ tx'[u] = tx[u]

LEMMA OneSession ==
    ASSUME LedgerInv, NEW s \in Sessions, Only(s), UNCHANGED receipts,
           tx'[s].status # "unsigned" => DOMAIN tx'[s] = TxFields,
           Sound(s)', Told(s)'
    PROVE  LedgerInv'
<1>1. Shaped'
  BY DEF LedgerInv, Shaped, Only
<1>2. \A u \in Sessions : Sound(u)' /\ Told(u)'
  <2>1. SUFFICES ASSUME NEW u \in Sessions \ {s} PROVE Sound(u)' /\ Told(u)'
    OBVIOUS
  <2>2. Sound(u) /\ Told(u)
    BY DEF LedgerInv
  <2>3. call'[u] = call[u] /\ console'[u] = console[u] /\ tx'[u] = tx[u]
    BY DEF Only
  <2>4. Sound(u)'
    BY <2>2, <2>3 DEF Sound, Working, Waits, Erred, Backed
  <2>5. Told(u)'
    BY <2>2, <2>3 DEF Told
  <2>6. QED
    BY <2>4, <2>5
<1>3. QED
  BY <1>1, <1>2 DEF LedgerInv

(* A request goes on with its gate. *)
LEMMA GateStep ==
    ASSUME LedgerInv, NEW s \in Sessions, NEW c, SetCall(s, c),
           call[s].at \in Gated, c.at \in Gated, c.req = call[s].req,
           UNCHANGED <<console, tx, receipts>>
    PROVE  LedgerInv'
<1>1. Only(s) /\ call'[s] = c
  BY DEF LedgerInv, Shaped, Only, SetCall
<1>2. Sound(s) /\ Told(s) /\ Shaped
  BY DEF LedgerInv
<1>3. Sound(s)'
  BY <1>1, <1>2 DEF Sound, Working, Waits, Erred, Backed, Gated, Beyond
<1>4. Told(s)'
  BY <1>2 DEF Told
<1>5. QED
  BY <1>1, <1>2, <1>3, <1>4, OneSession DEF Shaped

(* A request ends, and the holder, if still there, is told something true. *)
LEMMA EndStep ==
    ASSUME LedgerInv, NEW s \in Sessions, NEW outcome, SetCall(s, NoCall), Reply(s, outcome),
           outcome \in {"refused", "submitted", "error"},
           call[s].at \in Gated \cup Beyond,
           outcome = "refused" => call[s].at \in Gated,
           outcome = "submitted" => call[s].at \in Beyond,
           UNCHANGED <<tx, receipts>>
    PROVE  LedgerInv'
<1>1. Sound(s) /\ Told(s) /\ Shaped
  BY DEF LedgerInv
<1>2. Only(s) /\ call'[s].at = "none"
  BY <1>1 DEF Shaped, Only, SetCall, Reply, Tell, NoCall
<1>3. CASE Waits(s)
  <2>1. console'[s] = [at |-> "told", outcome |-> outcome]
    BY <1>1, <1>3 DEF Shaped, Reply, Tell
  <2>2. Backed(s)'
    BY <1>1, <1>3 DEF Sound, Backed, Waits
  <2>3. Sound(s)'
    BY <1>2, <2>1, <2>2 DEF Sound, Working
  <2>4. Told(s)'
    BY <1>1, <2>1 DEF Told, Sound, Working, Gated, Beyond
  <2>5. QED
    BY <1>1, <1>2, <2>3, <2>4, OneSession DEF Shaped
<1>4. CASE ~Waits(s)
  <2>1. UNCHANGED console /\ Erred(s)
    BY <1>1, <1>4 DEF Reply, Sound, Working, Gated, Beyond
  <2>2. Sound(s)' /\ Told(s)'
    BY <1>1, <1>2, <2>1 DEF Sound, Told, Working, Backed, Erred
  <2>3. QED
    BY <1>1, <1>2, <2>2, OneSession DEF Shaped
<1>5. QED
  BY <1>3, <1>4

(* A transaction that is on its way moves on; the requests go by its snapshot,
   which stays. *)
LEMMA TxStep ==
    ASSUME LedgerInv, NEW s \in Sessions, NEW status,
           tx' = [tx EXCEPT ![s].status = status],
           tx[s].status \in {"submitted", "sent"},
           status \in {"sent", "landed", "failed", "dropped"},
           UNCHANGED <<call, console, receipts>>
    PROVE  LedgerInv'
<1>1. Sound(s) /\ Told(s) /\ Shaped
  BY DEF LedgerInv
<1>2. DOMAIN tx[s] = TxFields
  BY <1>1 DEF Shaped
<1>3. /\ Only(s)
      /\ DOMAIN tx'[s] = TxFields
      /\ tx'[s].status = status
      /\ tx'[s].snapshot = tx[s].snapshot
  BY <1>1, <1>2 DEF Shaped, Only, TxFields
<1>4. Backed(s)'
  BY <1>1, <1>3 DEF Sound, Backed
<1>5. Sound(s)'
  BY <1>1, <1>3, <1>4 DEF Sound, Working, Waits, Erred
<1>6. Told(s)'
  BY <1>1, <1>3 DEF Told
<1>7. QED
  BY <1>3, <1>5, <1>6, OneSession

-----------------------------------------------------------------------------
(* The actions. *)

LEMMA AskStep == ASSUME LedgerInv, NEW s \in Sessions, Ask(s) PROVE LedgerInv'
<1>1. Sound(s) /\ Shaped
  BY DEF LedgerInv
<1>2. PICK amount \in Amounts :
         SetCall(s, [at |-> "lookup", req |-> Assembly(connected[s], amount)])
  BY DEF Ask
<1>3. /\ Only(s)
      /\ call'[s].at = "lookup" /\ call'[s].req.assemble
      /\ console'[s] = [at |-> "asking"]
      /\ UNCHANGED <<tx, receipts>>
  BY <1>1, <1>2 DEF Ask, Shaped, Only, SetCall, Assembly
<1>4. Sound(s)' /\ Told(s)'
  BY <1>1, <1>3 DEF Ask, Sound, Told, Working, Waits, Backed, Gated
<1>5. QED
  BY <1>1, <1>3, <1>4, OneSession DEF Shaped

LEMMA FoundStep ==
    ASSUME LedgerInv, NEW s \in Sessions, NEW row, NEW event, Found(s, row, event),
           call[s].at \in Gated, UNCHANGED <<tx, receipts>>
    PROVE  LedgerInv'
<1>1. CASE event = NoAsset
  BY <1>1, EndStep DEF Found
<1>2. CASE event # NoAsset
  <2>1. /\ SetCall(s, [at |-> "baseline", req |-> call[s].req, row |-> row, event |-> event])
        /\ UNCHANGED console
    BY <1>2 DEF Found
  <2>2. QED
    BY <2>1, GateStep DEF Gated
<1>3. QED
  BY <1>1, <1>2

LEMMA LookUpStep == ASSUME LedgerInv, NEW s \in Sessions, LookUp(s) PROVE LedgerInv'
<1>1. call[s].at \in Gated /\ UNCHANGED <<tx, receipts>>
  BY DEF LookUp, At, Gated
<1>2. PICK row \in {feedRow, NoRow} :
         \/ Found(s, row, catalog.event)
         \/ /\ SetCall(s, [at |-> "fetch", req |-> call[s].req, row |-> row, asOf |-> clock])
            /\ UNCHANGED console
  BY DEF LookUp
<1>3. CASE Found(s, row, catalog.event)
  BY <1>1, <1>3, FoundStep
<1>4. CASE /\ SetCall(s, [at |-> "fetch", req |-> call[s].req, row |-> row, asOf |-> clock])
           /\ UNCHANGED console
  BY <1>1, <1>4, GateStep DEF Gated
<1>5. QED
  BY <1>2, <1>3, <1>4

LEMMA FetchPageStep == ASSUME LedgerInv, NEW s \in Sessions, FetchPage(s) PROVE LedgerInv'
<1>1. call[s].at \in Gated /\ UNCHANGED <<tx, receipts>>
  BY DEF FetchPage, At, Gated
<1>2. PICK event : Found(s, call[s].row, event)
  BY DEF FetchPage
<1>3. QED
  BY <1>1, <1>2, FoundStep

LEMMA ReadBaselineStep ==
    ASSUME LedgerInv, NEW s \in Sessions, ReadBaseline(s) PROVE LedgerInv'
<1>1. PICK rate : SetCall(s, [at |-> "inspect", req |-> call[s].req, event |-> call[s].event,
                              baseline |-> rate, now |-> clock])
  BY DEF ReadBaseline
<1>2. QED
  BY <1>1, GateStep DEF ReadBaseline, At, Gated

LEMMA InspectStep == ASSUME LedgerInv, NEW s \in Sessions, Inspect(s) PROVE LedgerInv'
<1>1. PICK seen, funded :
         SetCall(s, [at |-> "quote", req |-> call[s].req, event |-> call[s].event,
                     baseline |-> call[s].baseline, now |-> call[s].now,
                     seen |-> seen, funded |-> funded])
  BY DEF Inspect
<1>2. QED
  BY <1>1, GateStep DEF Inspect, At, Gated

LEMMA OfferStep == ASSUME LedgerInv, NEW s \in Sessions, Offer(s) PROVE LedgerInv'
<1>1. Sound(s) /\ Told(s) /\ Shaped
  BY DEF LedgerInv
<1>2. tx[s].status = "unsigned" /\ (Waits(s) \/ Erred(s)) /\ console[s].at # "posted"
  BY <1>1 DEF Offer, At, Sound, Working
<1>3. Only(s) /\ call'[s].at = "none" /\ UNCHANGED <<tx, receipts>>
  BY <1>1 DEF Offer, Shaped, Only, SetCall, NoCall
<1>4. CASE Waits(s)
  <2>1. console[s].at = "asking" /\ console'[s].at = "signing"
    BY <1>1, <1>2, <1>4 DEF Offer, Waits, Shaped
  <2>2. Sound(s)' /\ Told(s)'
    BY <1>1, <1>2, <1>3, <2>1 DEF Sound, Told, Working, Backed
  <2>3. QED
    BY <1>1, <1>3, <2>2, OneSession DEF Shaped
<1>5. CASE ~Waits(s)
  <2>1. UNCHANGED console /\ Erred(s)
    BY <1>2, <1>5 DEF Offer
  <2>2. Sound(s)' /\ Told(s)'
    BY <1>1, <1>2, <1>3, <2>1 DEF Sound, Told, Working, Backed, Erred
  <2>3. QED
    BY <1>1, <1>3, <2>2, OneSession DEF Shaped
<1>6. QED
  BY <1>4, <1>5

LEMMA RefuseStep == ASSUME LedgerInv, NEW s \in Sessions, Refuse(s) PROVE LedgerInv'
BY EndStep DEF Refuse, At, Gated

LEMMA SignStep == ASSUME LedgerInv, NEW s \in Sessions, Sign(s) PROVE LedgerInv'
<1>1. Sound(s) /\ Shaped
  BY DEF LedgerInv
<1>2. /\ Only(s)
      /\ tx'[s].status = "signed" /\ DOMAIN tx'[s] = TxFields
      /\ console'[s].at = "signed"
      /\ UNCHANGED <<call, receipts>>
  BY <1>1 DEF Sign, Shaped, Only, TxFields
<1>3. Sound(s)' /\ Told(s)'
  BY <1>1, <1>2 DEF Sign, Sound, Told, Working, Waits, Erred, Backed
<1>4. QED
  BY <1>2, <1>3, OneSession

LEMMA DeclineStep == ASSUME LedgerInv, NEW s \in Sessions, Decline(s) PROVE LedgerInv'
<1>1. Sound(s) /\ Shaped
  BY DEF LedgerInv
<1>2. /\ Only(s)
      /\ console'[s] = [at |-> "told", outcome |-> "refused"]
      /\ UNCHANGED <<call, tx, receipts>>
  BY <1>1 DEF Decline, Shaped, Only, Tell
<1>3. Sound(s)' /\ Told(s)'
  BY <1>1, <1>2 DEF Decline, Sound, Told, Working, Waits, Erred, Backed
<1>4. QED
  BY <1>1, <1>2, <1>3, OneSession DEF Shaped

LEMMA PostStep == ASSUME LedgerInv, NEW s \in Sessions, Post(s) PROVE LedgerInv'
<1>1. Sound(s) /\ Shaped
  BY DEF LedgerInv
<1>2. console[s].at = "signed" /\ tx[s].status = "signed" /\ UNCHANGED <<tx, receipts>>
  BY <1>1 DEF Post, Sound
<1>3. CASE Tell(s, "error") /\ UNCHANGED call
  <2>1. Only(s) /\ console'[s] = [at |-> "told", outcome |-> "error"]
    BY <1>1, <1>2, <1>3 DEF Shaped, Only, Tell
  <2>2. Sound(s)' /\ Told(s)'
    BY <1>1, <1>2, <1>3, <2>1 DEF Sound, Told, Working, Waits, Erred, Backed
  <2>3. QED
    BY <1>1, <1>2, <2>1, <2>2, OneSession DEF Shaped
<1>4. CASE /\ SetCall(s, [at  |-> "lookup",
                          req |-> Execution(connected[s], tx[s].snapshot.amount, tx[s].snapshot)])
           /\ console' = [console EXCEPT ![s] = [at |-> "posted"]]
  <2>1. /\ Only(s)
        /\ console'[s].at = "posted"
        /\ call'[s].at = "lookup" /\ ~call'[s].req.assemble
        /\ call'[s].req.bound = tx[s].snapshot
    BY <1>1, <1>2, <1>4 DEF Shaped, Only, SetCall, Execution
  <2>2. Sound(s)' /\ Told(s)'
    BY <1>1, <1>2, <2>1 DEF Sound, Told, Working, Waits, Erred, Backed, Gated
  <2>3. QED
    BY <1>1, <1>2, <2>1, <2>2, OneSession DEF Shaped
<1>5. QED
  BY <1>3, <1>4 DEF Post

(* The connection breaks, and a request that has arrived goes on. *)
LEMMA DisconnectStep == ASSUME LedgerInv, NEW s \in Sessions, Disconnect(s) PROVE LedgerInv'
<1>1. Sound(s) /\ Shaped
  BY DEF LedgerInv
<1>2. /\ Only(s)
      /\ call'[s] = call[s] \/ call'[s].at = "none"
      /\ console'[s] = [at |-> "told", outcome |-> "error"]
      /\ UNCHANGED <<tx, receipts>>
  BY <1>1 DEF Disconnect, Shaped, Only, SetCall, Tell, NoCall
<1>3. Backed(s)'
  BY <1>1, <1>2 DEF Disconnect, Waits, Sound, Backed
<1>4. Sound(s)' /\ Told(s)'
  BY <1>1, <1>2, <1>3 DEF Sound, Told, Working, Erred
<1>5. QED
  BY <1>1, <1>2, <1>4, OneSession DEF Shaped

LEMMA SubmitStep == ASSUME LedgerInv, NEW s \in Sessions, Submit(s) PROVE LedgerInv'
<1>1. Sound(s) /\ Told(s) /\ Shaped
  BY DEF LedgerInv
<1>2. /\ Waits(s) \/ Erred(s)
      /\ tx[s].status = "signed"
      /\ call[s].req.bound = tx[s].snapshot
  BY <1>1 DEF Submit, At, Sound, Working, Beyond
<1>3. DOMAIN tx[s] = TxFields
  BY <1>1, <1>2 DEF Shaped
<1>4. /\ call[s].req.taker = tx[s].snapshot.taker
      /\ call[s].req.amount = tx[s].snapshot.amount
  BY <1>2 DEF Submit, SameSnapshot, Snapshot
<1>5. /\ Only(s)
      /\ tx'[s].status = "submitted" /\ tx'[s].snapshot = tx[s].snapshot
      /\ DOMAIN tx'[s] = TxFields
      /\ call'[s].at = "jupiter" /\ call'[s].req = call[s].req
      /\ UNCHANGED <<console, receipts>>
  BY <1>1, <1>3 DEF Submit, Shaped, Only, SetCall, TxFields
<1>6. Backed(s)'
  BY <1>1, <1>5 DEF Submit, At, Sound, Working, Backed
<1>7. Sound(s)'
  BY <1>1, <1>2, <1>4, <1>5, <1>6 DEF Submit, At, Sound, Working, Waits, Erred, Gated, Beyond
<1>8. Told(s)'
  BY <1>2, <1>5 DEF Told, Waits, Erred
<1>9. QED
  BY <1>5, <1>7, <1>8, OneSession

(* A request goes on beyond Jupiter. *)
LEMMA BeyondStep ==
    ASSUME LedgerInv, NEW s \in Sessions, NEW at \in Beyond,
           SetCall(s, [at |-> at, req |-> call[s].req]), call[s].at \in Beyond,
           at = "store" => tx[s].status = "landed",
           UNCHANGED <<console, tx, receipts>>
    PROVE  LedgerInv'
<1>1. Sound(s) /\ Told(s) /\ Shaped
  BY DEF LedgerInv
<1>2. Only(s) /\ call'[s].at = at /\ call'[s].req = call[s].req
  BY <1>1 DEF Shaped, Only, SetCall
<1>3. Sound(s)' /\ Told(s)'
  BY <1>1, <1>2 DEF Sound, Told, Working, Waits, Erred, Backed, Gated, Beyond
<1>4. QED
  BY <1>1, <1>2, <1>3, OneSession DEF Shaped

LEMMA AnswerStep == ASSUME LedgerInv, NEW s \in Sessions, Answer(s) PROVE LedgerInv'
<1>1. CASE SetCall(s, [at |-> "confirm", req |-> call[s].req]) /\ UNCHANGED console
  BY <1>1, BeyondStep DEF Answer, At, Beyond
<1>2. CASE SetCall(s, NoCall) /\ Reply(s, "error")
  BY <1>2, EndStep DEF Answer, At, Beyond
<1>3. QED
  BY <1>1, <1>2 DEF Answer

LEMMA ConfirmStep == ASSUME LedgerInv, NEW s \in Sessions, Confirm(s) PROVE LedgerInv'
<1>1. CASE Confirmed(s) /\ SetCall(s, [at |-> "store", req |-> call[s].req]) /\ UNCHANGED console
  BY <1>1, BeyondStep DEF Confirm, Confirmed, At, Beyond
<1>2. CASE SetCall(s, NoCall) /\ Reply(s, "submitted")
  BY <1>2, EndStep DEF Confirm, At, Beyond
<1>3. CASE SetCall(s, NoCall) /\ Reply(s, "error")
  BY <1>3, EndStep DEF Confirm, At, Beyond
<1>4. QED
  BY <1>1, <1>2, <1>3 DEF Confirm

(* The one step that writes a receipt: the session had none, and what it
   writes is of its transaction. *)
LEMMA StoreStep == ASSUME LedgerInv, NEW s \in Sessions, Store(s) PROVE LedgerInv'
<1>1. Sound(s) /\ Shaped
  BY DEF LedgerInv
<1>2. /\ Waits(s) \/ Erred(s)
      /\ tx[s].status = "landed"
      /\ call[s].req.taker = tx[s].snapshot.taker
      /\ call[s].req.amount = tx[s].snapshot.amount
      /\ \A r \in receipts : r.sig # s
      /\ UNCHANGED tx
  BY <1>1 DEF Store, At, Sound, Working, Gated
<1>3. CASE Reply(s, "error") /\ UNCHANGED receipts
  BY <1>3, EndStep DEF Store, At, Beyond
<1>4. CASE /\ receipts' = receipts \union
                {[sig |-> s, taker |-> call[s].req.taker, amount |-> call[s].req.amount]}
           /\ Reply(s, "settled")
  <2> DEFINE new == [sig |-> s, taker |-> call[s].req.taker, amount |-> call[s].req.amount]
  <2>1. /\ Only(s)
        /\ call'[s].at = "none"
        /\ \/ console'[s] = [at |-> "told", outcome |-> "settled"]
           \/ console'[s] = [at |-> "told", outcome |-> "error"]
    BY <1>1, <1>2, <1>4 DEF Store, Shaped, Only, SetCall, NoCall, Reply, Tell, Erred
  <2>2. \A r \in receipts : r.sig # s
    BY <1>2
  <2>3. receipts' = receipts \union {new} /\ new.sig = s
    BY <1>4
  <2>4. new.taker = tx[s].snapshot.taker /\ new.amount = tx[s].snapshot.amount
    BY <1>2
  <2> HIDE DEF new
  <2>5. Backed(s)'
    BY <1>2, <2>1, <2>2, <2>3, <2>4 DEF Backed
  <2>6. Sound(s)' /\ Told(s)'
    BY <1>2, <2>1, <2>3, <2>5 DEF Sound, Told, Working
  <2>7. \A u \in Sessions \ {s} : Sound(u)' /\ Told(u)'
    <3>1. SUFFICES ASSUME NEW u \in Sessions \ {s} PROVE Sound(u)' /\ Told(u)'
      OBVIOUS
    <3>2. Sound(u) /\ Told(u)
      BY DEF LedgerInv
    <3>3. call'[u] = call[u] /\ console'[u] = console[u] /\ tx'[u] = tx[u]
      BY <2>1 DEF Only
    <3>4. QED
      BY <2>3, <3>2, <3>3 DEF Sound, Told, Working, Waits, Erred, Backed
  <2>8. \A r, q \in receipts' : r.sig = q.sig => r = q
    BY <2>2, <2>3 DEF LedgerInv
  <2>9. Shaped' /\ \A r \in receipts' : r.sig \in Sessions
    BY <1>1, <1>2, <2>1, <2>3 DEF LedgerInv, Shaped, Only
  <2>10. QED
    BY <2>6, <2>7, <2>8, <2>9 DEF LedgerInv
<1>5. QED
  BY <1>3, <1>4 DEF Store

LEMMA RestartStep == ASSUME LedgerInv, Restart PROVE LedgerInv'
<1>1. Shaped'
  BY DEF LedgerInv, Shaped, Restart
<1>2. \A s \in Sessions : Sound(s)' /\ Told(s)'
  <2>1. SUFFICES ASSUME NEW s \in Sessions PROVE Sound(s)' /\ Told(s)'
    OBVIOUS
  <2>2. Sound(s) /\ Told(s)
    BY DEF LedgerInv
  <2>3. call'[s].at = "none" /\ UNCHANGED <<tx, receipts>>
    BY DEF Restart, NoCall
  <2>4. CASE ~Waits(s)
    <3>1. console'[s] = console[s]
      BY <2>4 DEF Restart
    <3>2. QED
      BY <2>2, <2>3, <2>4, <3>1 DEF Sound, Told, Working, Waits, Backed
  <2>5. CASE Waits(s)
    <3>1. console'[s] = [at |-> "told", outcome |-> "error"]
      BY <2>5 DEF Restart
    <3>2. Backed(s)'
      BY <2>2, <2>3, <2>5 DEF Sound, Backed, Waits
    <3>3. QED
      BY <2>3, <3>1, <3>2 DEF Sound, Told, Working
  <2>6. QED
    BY <2>4, <2>5
<1>3. QED
  BY <1>1, <1>2 DEF LedgerInv, Restart

LEMMA LedgerFrame ==
    ASSUME LedgerInv, UNCHANGED <<call, console, tx, receipts>> PROVE LedgerInv'
BY DEF LedgerInv, Shaped, Sound, Told, Working, Waits, Erred, Backed

LEMMA LedgerNext == LedgerInv /\ [Next]_vars => LedgerInv'
<1>1. SUFFICES ASSUME LedgerInv, [Next]_vars PROVE LedgerInv'
  OBVIOUS
<1>2. ASSUME NEW s \in Sessions,
             \/ Ask(s) \/ LookUp(s) \/ FetchPage(s) \/ ReadBaseline(s) \/ Inspect(s)
             \/ Offer(s) \/ Refuse(s) \/ Sign(s) \/ Decline(s) \/ Post(s) \/ Disconnect(s)
             \/ Submit(s) \/ Answer(s) \/ Confirm(s) \/ Store(s)
      PROVE  LedgerInv'
  BY <1>1, <1>2, AskStep, LookUpStep, FetchPageStep, ReadBaselineStep, InspectStep, OfferStep,
     RefuseStep, SignStep, DeclineStep, PostStep, DisconnectStep, SubmitStep, AnswerStep, ConfirmStep, StoreStep
<1>3. ASSUME NEW s \in Sessions, Broadcast(s) \/ Land(s) \/ Fall(s) PROVE LedgerInv'
  <2>1. PICK status \in {"sent", "landed", "failed", "dropped"} :
           tx' = [tx EXCEPT ![s].status = status]
    BY <1>3 DEF Broadcast, Land, Fall
  <2>2. QED
    BY <1>1, <1>3, <2>1, TxStep DEF Broadcast, Land, Fall
<1>4. CASE \E s \in Sessions : SwitchWallet(s)
  BY <1>1, <1>4, LedgerFrame DEF SwitchWallet
<1>5. CASE Restart
  BY <1>1, <1>5, RestartStep
<1>6. CASE RefreshFeed \/ IssuerWrites \/ IssuerActs \/ Tick \/ UNCHANGED vars
  BY <1>1, <1>6, LedgerFrame DEF RefreshFeed, IssuerWrites, IssuerActs, Tick, vars
<1>7. QED
  BY <1>1, <1>2, <1>3, <1>4, <1>5, <1>6 DEF Next

(* Whatever is lost, late or restarted, a receipt is of a conversion that
   landed, for the wallet that signed it and the amount it took, and of no
   conversion are there two (executable.ts: executeSignedConversion). *)
THEOREM ReceiptsOnlyConfirmed == Spec => []ReceiptsConfirmed
<1>1. LedgerInv => ReceiptsConfirmed
  BY DEF LedgerInv, Sound, Backed, ReceiptsConfirmed
<1>2. QED
  BY <1>1, LedgerInit, LedgerNext, PTL DEF Spec

(* The holder is told that a conversion settled only with its receipt stored,
   and that it was refused only if nothing went to Jupiter or ever will
   (backendSource.ts: requestConversion). *)
THEOREM HolderToldTheTruth == Spec => []ToldTheTruth
<1>1. LedgerInv => ToldTheTruth
  BY DEF LedgerInv, Told, ToldTheTruth
<1>2. QED
  BY <1>1, LedgerInit, LedgerNext, PTL DEF Spec

-----------------------------------------------------------------------------
(* How old what a request goes by may be.  An answer is never older than the
   entry of the cache it came from, nor that than the cache's lifetime when
   the request looked. *)

(* The page names the destination of the event, or stopped naming it at or
   after since; and the same of the controls of the mint. *)
NamedSince(event, since) == (event.read /\ event.dest # page.dest) => pageSince >= since
HeldSince(seen, since) == seen \notin {mint, Unread} => mintSince >= since

EventSound(event) == event.deadline \in Deadlines \union {NoDeadline}

CatalogSound ==
    catalog # NoEntry =>
        /\ catalog.at \in Nat /\ catalog.at <= clock
        /\ catalog.event # NoAsset => EventSound(catalog.event) /\ NamedSince(catalog.event, catalog.at)

MintCacheSound ==
    mintCache # NoEntry =>
        /\ mintCache.at \in Nat /\ mintCache.at <= clock
        /\ HeldSince(mintCache.seen, mintCache.at)

Fresh(c) ==
    /\ c.at \in Gated => c.req.began \in Nat /\ c.req.began <= clock
    /\ c.at = "fetch" =>
          c.asOf \in Nat /\ c.req.began <= c.asOf /\ c.asOf <= clock
    /\ c.at \in {"baseline", "inspect", "quote"} =>
          EventSound(c.event) /\ NamedSince(c.event, c.req.began - CatalogLife + 1)
    /\ c.at \in {"inspect", "quote"} => c.now \in Nat /\ c.req.began <= c.now
    /\ c.at = "quote" => HeldSince(c.seen, c.req.began - MintLife + 1)

Dated == clock \in Nat /\ pageSince \in Nat /\ mintSince \in Nat

FreshInv ==
    /\ Dated
    /\ CatalogSound
    /\ MintCacheSound
    /\ \A s \in Sessions : Fresh(call[s])

LEMMA FreshInit == Init => FreshInv
BY DEF Init, FreshInv, Dated, CatalogSound, MintCacheSound, Fresh, NoCall, Gated

(* Time passes, and what the page or the mint says may change now. *)
Passes ==
    /\ clock' \in Nat /\ clock <= clock'
    /\ UNCHANGED <<page, pageSince>> \/ pageSince' = clock
    /\ UNCHANGED <<mint, mintSince>> \/ mintSince' = clock

LEMMA StillNamed ==
    ASSUME Dated, Passes, NEW event, NEW since \in Int, since <= clock, NamedSince(event, since)
    PROVE  NamedSince(event, since)'
BY DEF Dated, Passes, NamedSince

LEMMA StillHeld ==
    ASSUME Dated, Passes, NEW seen, NEW since \in Int, since <= clock, HeldSince(seen, since)
    PROVE  HeldSince(seen, since)'
BY DEF Dated, Passes, HeldSince

LEMMA StillFresh == ASSUME Dated, Passes, NEW c, Fresh(c) PROVE Fresh(c)'
<1>1. clock \in Nat /\ clock' \in Nat /\ clock <= clock'
  BY DEF Dated, Passes
<1>2. CASE c.at \in {"baseline", "inspect", "quote"}
  <2>1. /\ c.req.began \in Nat /\ c.req.began <= clock
        /\ NamedSince(c.event, c.req.began - CatalogLife + 1)
    BY <1>2 DEF Fresh, Gated
  <2>2. /\ c.req.began - CatalogLife + 1 \in Int /\ c.req.began - CatalogLife + 1 <= clock
        /\ c.req.began - MintLife + 1 \in Int /\ c.req.began - MintLife + 1 <= clock
    BY <1>1, <2>1, ConversionAssumption
  <2>3. NamedSince(c.event, c.req.began - CatalogLife + 1)'
    BY <2>1, <2>2, StillNamed
  <2>4. c.at = "quote" => HeldSince(c.seen, c.req.began - MintLife + 1)'
    BY <2>2, StillHeld DEF Fresh
  <2>5. QED
    BY <1>1, <1>2, <2>1, <2>3, <2>4 DEF Fresh, EventSound
<1>3. CASE c.at \notin {"baseline", "inspect", "quote"}
  BY <1>1, <1>3 DEF Fresh, Gated
<1>4. QED
  BY <1>2, <1>3

LEMMA StillCatalog ==
    ASSUME Dated, Passes, CatalogSound, UNCHANGED catalog PROVE CatalogSound'
<1>1. SUFFICES ASSUME catalog # NoEntry
               PROVE  /\ catalog.at \in Nat /\ catalog.at <= clock'
                      /\ catalog.event # NoAsset => /\ EventSound(catalog.event)
                                                    /\ NamedSince(catalog.event, catalog.at)'
  BY DEF CatalogSound, EventSound, NamedSince
<1>2. QED
  BY <1>1, StillNamed DEF Dated, Passes, CatalogSound

LEMMA StillMintCache ==
    ASSUME Dated, Passes, MintCacheSound, UNCHANGED mintCache PROVE MintCacheSound'
<1>1. SUFFICES ASSUME mintCache # NoEntry
               PROVE  /\ mintCache.at \in Nat /\ mintCache.at <= clock'
                      /\ HeldSince(mintCache.seen, mintCache.at)'
  BY DEF MintCacheSound, HeldSince
<1>2. QED
  BY <1>1, StillHeld DEF Dated, Passes, MintCacheSound

(* One request moves, and the others wait. *)
LEMMA OneCall ==
    ASSUME FreshInv, NEW s \in Sessions, \A u \in Sessions \ {s} : call'[u] = call[u],
           Fresh(call[s])', Passes, Dated', CatalogSound', MintCacheSound'
    PROVE  FreshInv'
<1>1. ASSUME NEW u \in Sessions \ {s} PROVE Fresh(call[u])'
  <2>1. PICK c : c = call[u]
    OBVIOUS
  <2>2. Fresh(c)' /\ call'[u] = c
    BY <2>1, StillFresh DEF FreshInv
  <2>3. QED
    BY <2>2 DEF Fresh, EventSound, NamedSince, HeldSince
<1>2. QED
  BY <1>1 DEF FreshInv

LEMMA Moves ==
    ASSUME LedgerInv, NEW s \in Sessions, NEW c, SetCall(s, c)
    PROVE  call'[s] = c /\ \A u \in Sessions \ {s} : call'[u] = call[u]
BY DEF LedgerInv, Shaped, SetCall

(* Only the requests move, or a thing the caches and the world are not. *)
LEMMA Quiet ==
    ASSUME FreshInv, UNCHANGED <<clock, page, pageSince, mint, mintSince, feedRow, catalog, mintCache>>
    PROVE  Passes /\ Dated' /\ CatalogSound' /\ MintCacheSound'
BY DEF FreshInv, Passes, Dated, CatalogSound, EventSound, NamedSince,
       MintCacheSound, HeldSince

LEMMA CallsStay ==
    ASSUME FreshInv, Passes, UNCHANGED call, Dated', CatalogSound', MintCacheSound'
    PROVE  FreshInv'
<1>1. ASSUME NEW s \in Sessions PROVE Fresh(call[s])'
  <2>1. PICK c : c = call[s]
    OBVIOUS
  <2>2. Fresh(c)'
    BY <2>1, StillFresh DEF FreshInv
  <2>3. QED
    BY <2>1, <2>2 DEF Fresh, EventSound, NamedSince, HeldSince
<1>2. QED
  BY <1>1 DEF FreshInv

LEMMA Ends ==
    ASSUME LedgerInv, FreshInv, NEW s \in Sessions, NEW c, SetCall(s, c), c.at \notin Gated,
           Passes, Dated', CatalogSound', MintCacheSound'
    PROVE  FreshInv'
BY Moves, OneCall DEF Fresh, Gated

(* The steps by which a request goes through its gate. *)
LEMMA AskFresh == ASSUME LedgerInv, FreshInv, NEW s \in Sessions, Ask(s) PROVE FreshInv'
<1>1. PICK amount : SetCall(s, [at |-> "lookup", req |-> Assembly(connected[s], amount)])
  BY DEF Ask
<1>2. Passes /\ Dated' /\ CatalogSound' /\ MintCacheSound'
  BY Quiet DEF Ask, caches, issuer, chain
<1>3. call'[s].at = "lookup" /\ call'[s].req.began = clock
  BY <1>1, Moves DEF Assembly
<1>4. Fresh(call[s])'
  BY <1>3 DEF Ask, FreshInv, Dated, Fresh
<1>5. QED
  BY <1>1, <1>2, <1>4, Moves, OneCall

LEMMA PostFresh == ASSUME LedgerInv, FreshInv, NEW s \in Sessions, Post(s) PROVE FreshInv'
<1>1. Passes /\ Dated' /\ CatalogSound' /\ MintCacheSound'
  BY Quiet DEF Post, caches, issuer, chain
<1>2. CASE UNCHANGED call
  BY <1>1, <1>2, CallsStay
<1>3. CASE \E taker, amount, bound :
              SetCall(s, [at |-> "lookup", req |-> Execution(taker, amount, bound)])
  <2>1. PICK taker, amount, bound :
           SetCall(s, [at |-> "lookup", req |-> Execution(taker, amount, bound)])
    BY <1>3
  <2>2. call'[s].at = "lookup" /\ call'[s].req.began = clock
    BY <2>1, Moves DEF Execution
  <2>3. Fresh(call[s])'
    BY <2>2 DEF Post, FreshInv, Dated, Fresh
  <2>4. QED
    BY <1>1, <2>1, <2>3, Moves, OneCall
<1>4. QED
  BY <1>2, <1>3 DEF Post

(* What the catalog or the pages gave is passed on, or the request ends. *)
LEMMA FoundFresh ==
    ASSUME LedgerInv, FreshInv, NEW s \in Sessions, NEW row, NEW event, Found(s, row, event),
           call[s].at \in Gated, UNCHANGED <<clock, page, pageSince>>,
           event # NoAsset => /\ EventSound(event)
                              /\ NamedSince(event, call[s].req.began - CatalogLife + 1),
           Passes, Dated', CatalogSound', MintCacheSound'
    PROVE  FreshInv'
<1>1. CASE event = NoAsset
  BY <1>1, Ends DEF Found, NoCall, Gated
<1>2. CASE event # NoAsset
  <2>1. SetCall(s, [at |-> "baseline", req |-> call[s].req, row |-> row, event |-> event])
    BY <1>2 DEF Found
  <2>2. call'[s].at = "baseline" /\ call'[s].req = call[s].req /\ call'[s].event = event
    BY <2>1, Moves
  <2>3. Fresh(call[s])'
    BY <1>2, <2>2 DEF FreshInv, Fresh, EventSound, NamedSince
  <2>4. QED
    BY <2>1, <2>3, Moves, OneCall
<1>3. QED
  BY <1>1, <1>2

LEMMA LookUpFresh == ASSUME LedgerInv, FreshInv, NEW s \in Sessions, LookUp(s) PROVE FreshInv'
<1>1. Passes /\ Dated' /\ CatalogSound' /\ MintCacheSound' /\ UNCHANGED <<clock, page, pageSince>>
  BY Quiet DEF LookUp, caches, issuer, chain
<1>2. /\ call[s].at = "lookup" /\ call[s].at \in Gated
      /\ call[s].req.began \in Nat /\ call[s].req.began <= clock
      /\ clock \in Nat
  BY DEF LookUp, At, FreshInv, Dated, Fresh, Gated
<1>3. PICK row \in {feedRow, NoRow} :
         IF Young(catalog, CatalogLife)
         THEN Found(s, row, catalog.event)
         ELSE SetCall(s, [at |-> "fetch", req |-> call[s].req, row |-> row, asOf |-> clock])
  BY DEF LookUp
<1>4. CASE Young(catalog, CatalogLife)
  <2>1. /\ catalog.event # NoAsset => EventSound(catalog.event) /\ NamedSince(catalog.event, catalog.at)
        /\ catalog.at \in Nat /\ clock - catalog.at < CatalogLife
    BY <1>4 DEF Young, FreshInv, CatalogSound
  <2>2. catalog.event # NoAsset => NamedSince(catalog.event, call[s].req.began - CatalogLife + 1)
    BY <1>2, <2>1, ConversionAssumption DEF NamedSince, FreshInv, Dated
  <2>3. QED
    BY <1>1, <1>2, <1>3, <1>4, <2>1, <2>2, FoundFresh
<1>5. CASE ~Young(catalog, CatalogLife)
  <2>1. SetCall(s, [at |-> "fetch", req |-> call[s].req, row |-> row, asOf |-> clock])
    BY <1>3, <1>5
  <2>2. /\ call'[s].at = "fetch" /\ call'[s].req = call[s].req
        /\ call'[s].row = row /\ call'[s].asOf = clock
    BY <2>1, Moves
  <2>3. Fresh(call[s])'
    BY <1>1, <1>2, <2>2 DEF Fresh, FreshInv, Dated
  <2>4. QED
    BY <1>1, <2>1, <2>3, Moves, OneCall
<1>6. QED
  BY <1>4, <1>5

LEMMA EventOfSound ==
    ASSUME NEW row, NEW text, NEW read \in BOOLEAN, NEW time, NEW since, read => text = page
    PROVE  EventSound(EventOf(row, text, read, time)) /\ NamedSince(EventOf(row, text, read, time), since)
BY DEF EventSound, NamedSince, EventOf, DeadlineOf, DateIn

LEMMA FetchPageFresh ==
    ASSUME LedgerInv, FreshInv, NEW s \in Sessions, FetchPage(s) PROVE FreshInv'
<1>1. /\ Passes /\ Dated'
      /\ MintCacheSound'
      /\ UNCHANGED <<clock, page, pageSince>>
  BY DEF FetchPage, issuer, chain, FreshInv, Passes, Dated, MintCacheSound, HeldSince
<1>2. PICK c : c = call[s]
  OBVIOUS
<1>3. /\ c.at = "fetch" /\ c.at \in Gated
      /\ c.req.began \in Nat /\ c.asOf \in Nat /\ c.req.began <= c.asOf /\ c.asOf <= clock
  BY <1>2 DEF FetchPage, At, FreshInv, Fresh, Gated
<1>4. PICK event \in {EventOf(c.row, page, TRUE, c.asOf), NoAsset}
                       \union {EventOf(c.row, text, FALSE, c.asOf) : text \in FailedTexts} :
         catalog' = [at |-> c.asOf, event |-> event] /\ Found(s, c.row, event)
  BY <1>2 DEF FetchPage
<1>5. event # NoAsset =>
         /\ EventSound(event)
         /\ NamedSince(event, c.asOf)
         /\ NamedSince(event, c.req.began - CatalogLife + 1)
  BY <1>4, EventOfSound
<1>6. CatalogSound'
  BY <1>1, <1>3, <1>4, <1>5 DEF CatalogSound, EventSound, NamedSince
<1>7. QED
  BY <1>1, <1>2, <1>3, <1>4, <1>5, <1>6, FoundFresh

(* The mint as the cache has it is no older than the cache's lifetime. *)
LEMMA ReadMintHeld ==
    ASSUME FreshInv, NEW seen, ReadMint(seen), NEW began \in Nat, began <= clock
    PROVE  HeldSince(seen, began - MintLife + 1)
<1>1. CASE Young(mintCache, MintLife)
  <2>1. /\ seen = mintCache.seen /\ mintCache.at \in Nat /\ clock - mintCache.at < MintLife
        /\ HeldSince(seen, mintCache.at)
    BY <1>1 DEF ReadMint, Young, FreshInv, MintCacheSound
  <2>2. began - MintLife + 1 <= mintCache.at
    BY <2>1, ConversionAssumption DEF FreshInv, Dated
  <2>3. QED
    BY <2>1, <2>2, ConversionAssumption DEF HeldSince, FreshInv, Dated
<1>2. CASE ~Young(mintCache, MintLife)
  BY <1>2 DEF ReadMint, HeldSince
<1>3. QED
  BY <1>1, <1>2

LEMMA ReadMintSound ==
    ASSUME FreshInv, NEW seen, ReadMint(seen), UNCHANGED <<clock, mint, mintSince>>
    PROVE  MintCacheSound'
<1>1. CASE UNCHANGED mintCache
  BY <1>1 DEF FreshInv, MintCacheSound, HeldSince
<1>2. CASE mintCache' = [at |-> clock, seen |-> seen] /\ seen \in {mint, Unread}
  BY <1>2 DEF FreshInv, Dated, MintCacheSound, HeldSince
<1>3. QED
  BY <1>1, <1>2 DEF ReadMint


LEMMA ReadBaselineFresh ==
    ASSUME LedgerInv, FreshInv, NEW s \in Sessions, ReadBaseline(s) PROVE FreshInv'
<1>1. /\ Passes /\ Dated' /\ CatalogSound'
      /\ UNCHANGED <<clock, page, pageSince, mint, mintSince>>
  BY DEF ReadBaseline, issuer, chain, FreshInv, Passes, Dated, CatalogSound,
         EventSound, NamedSince
<1>2. MintCacheSound'
  <2>1. CASE UNCHANGED mintCache
    BY <1>1, <2>1 DEF FreshInv, MintCacheSound, HeldSince
  <2>2. CASE \E seen : ReadMint(seen)
    BY <1>1, <2>2, ReadMintSound
  <2>3. QED
    BY <2>1, <2>2 DEF ReadBaseline
<1>3. PICK rate : SetCall(s, [at |-> "inspect", req |-> call[s].req, event |-> call[s].event,
                              baseline |-> rate, now |-> clock])
  BY DEF ReadBaseline
<1>4. /\ call'[s].at = "inspect" /\ call'[s].req = call[s].req
      /\ call'[s].event = call[s].event /\ call'[s].now = clock
  BY <1>3, Moves
<1>5. call[s].at = "baseline" /\ Fresh(call[s]) /\ clock \in Nat
  BY DEF ReadBaseline, At, FreshInv, Dated
<1>6. Fresh(call[s])'
  BY <1>1, <1>4, <1>5 DEF Fresh, Gated, EventSound, NamedSince
<1>7. QED
  BY <1>1, <1>2, <1>3, <1>6, Moves, OneCall

LEMMA InspectFresh == ASSUME LedgerInv, FreshInv, NEW s \in Sessions, Inspect(s) PROVE FreshInv'
<1>1. /\ Passes /\ Dated' /\ CatalogSound'
      /\ UNCHANGED <<clock, page, pageSince, mint, mintSince>>
  BY DEF Inspect, issuer, chain, FreshInv, Passes, Dated, CatalogSound,
         EventSound, NamedSince
<1>2. PICK seen, funded :
         /\ ReadMint(seen) \/ (seen = Unread /\ UNCHANGED mintCache)
         /\ SetCall(s, [at |-> "quote", req |-> call[s].req, event |-> call[s].event,
                        baseline |-> call[s].baseline, now |-> call[s].now,
                        seen |-> seen, funded |-> funded])
  BY DEF Inspect
<1>3. MintCacheSound'
  BY <1>1, <1>2, ReadMintSound DEF FreshInv, MintCacheSound, HeldSince
<1>4. /\ call'[s].at = "quote" /\ call'[s].req = call[s].req
      /\ call'[s].event = call[s].event /\ call'[s].now = call[s].now
      /\ call'[s].seen = seen
  BY <1>2, Moves
<1>5. /\ call[s].at = "inspect" /\ Fresh(call[s])
      /\ call[s].req.began \in Nat /\ call[s].req.began <= clock
  BY DEF Inspect, At, FreshInv, Fresh, Gated
<1>6. HeldSince(seen, call[s].req.began - MintLife + 1)
  BY <1>2, <1>5, ReadMintHeld DEF HeldSince
<1>7. Fresh(call[s])'
  BY <1>1, <1>4, <1>5, <1>6 DEF Fresh, Gated, EventSound, NamedSince, HeldSince
<1>8. QED
  BY <1>1, <1>2, <1>3, <1>7, Moves, OneCall

(* The steps that end a request or follow Jupiter. *)
LEMMA LaterFresh ==
    ASSUME LedgerInv, FreshInv, NEW s \in Sessions,
           Offer(s) \/ Refuse(s) \/ Submit(s) \/ Answer(s) \/ Confirm(s) \/ Store(s)
    PROVE  FreshInv'
<1>1. Passes /\ Dated' /\ CatalogSound' /\ MintCacheSound'
  BY Quiet DEF Offer, Refuse, Submit, Answer, Confirm, Store, caches, issuer, chain
<1>2. \/ SetCall(s, NoCall)
      \/ \E at \in Beyond : SetCall(s, [at |-> at, req |-> call[s].req])
  BY DEF Offer, Refuse, Submit, Answer, Confirm, Store, Beyond
<1>3. call'[s].at \notin Gated /\ \A u \in Sessions \ {s} : call'[u] = call[u]
  BY <1>2, Moves DEF NoCall, Gated, Beyond
<1>4. Fresh(call[s])'
  BY <1>3 DEF Fresh, Gated
<1>5. QED
  BY <1>1, <1>3, <1>4, OneCall

LEMMA DisconnectFresh ==
    ASSUME LedgerInv, FreshInv, NEW s \in Sessions, Disconnect(s) PROVE FreshInv'
<1>1. Passes /\ Dated' /\ CatalogSound' /\ MintCacheSound'
  BY Quiet DEF Disconnect, caches, issuer, chain
<1>2. CASE UNCHANGED call
  BY <1>1, <1>2, CallsStay
<1>3. CASE SetCall(s, NoCall)
  BY <1>1, <1>3, Ends DEF NoCall, Gated
<1>4. QED
  BY <1>2, <1>3 DEF Disconnect

LEMMA WorldFresh ==
    ASSUME LedgerInv, FreshInv, RefreshFeed \/ IssuerWrites \/ IssuerActs \/ Tick PROVE FreshInv'
<1>1. Passes /\ UNCHANGED <<call, catalog, mintCache>>
  BY DEF RefreshFeed, IssuerWrites, IssuerActs, Tick, issuer, chain, caches, Passes, FreshInv, Dated
<1>2. Dated'
  <2>1. CASE RefreshFeed
    BY <2>1 DEF RefreshFeed, issuer, chain, FreshInv, Dated
  <2>2. CASE IssuerWrites \/ IssuerActs \/ Tick
    BY <2>2 DEF IssuerWrites, IssuerActs, Tick, issuer, chain, FreshInv, Dated
  <2>3. QED
    BY <2>1, <2>2
<1>3. CatalogSound' /\ MintCacheSound'
  BY <1>1, StillCatalog, StillMintCache DEF FreshInv
<1>4. QED
  BY <1>1, <1>2, <1>3, CallsStay

LEMMA RestartFresh == ASSUME FreshInv, Restart PROVE FreshInv'
BY DEF Restart, issuer, chain, FreshInv, Dated, CatalogSound, MintCacheSound,
       Fresh, NoCall, Gated

LEMMA FreshFrame ==
    ASSUME FreshInv, UNCHANGED <<clock, page, pageSince, mint, mintSince, feedRow, caches, call>>
    PROVE  FreshInv'
BY Quiet, CallsStay DEF caches

LEMMA FreshNext == LedgerInv /\ FreshInv /\ [Next]_vars => FreshInv'
<1>1. SUFFICES ASSUME LedgerInv, FreshInv, [Next]_vars PROVE FreshInv'
  OBVIOUS
<1>2. ASSUME NEW s \in Sessions,
             \/ Ask(s) \/ LookUp(s) \/ FetchPage(s) \/ ReadBaseline(s) \/ Inspect(s) \/ Post(s)
             \/ Offer(s) \/ Refuse(s) \/ Submit(s) \/ Answer(s) \/ Confirm(s) \/ Store(s)
             \/ Disconnect(s)
      PROVE  FreshInv'
  BY <1>1, <1>2, AskFresh, LookUpFresh, FetchPageFresh, ReadBaselineFresh, InspectFresh,
     PostFresh, LaterFresh, DisconnectFresh
<1>3. ASSUME NEW s \in Sessions,
             Sign(s) \/ Decline(s) \/ Broadcast(s) \/ Land(s) \/ Fall(s) \/ SwitchWallet(s)
      PROVE  FreshInv'
  <2>1. UNCHANGED <<clock, page, pageSince, mint, mintSince, feedRow, caches, call>>
    BY <1>3 DEF Sign, Decline, Broadcast, Land, Fall, SwitchWallet, issuer, chain
  <2>2. QED
    BY <1>1, <2>1, FreshFrame
<1>4. CASE Restart
  BY <1>1, <1>4, RestartFresh
<1>5. CASE RefreshFeed \/ IssuerWrites \/ IssuerActs \/ Tick
  BY <1>1, <1>5, WorldFresh
<1>6. CASE UNCHANGED vars
  BY <1>1, <1>6, FreshFrame DEF vars, caches
<1>7. QED
  BY <1>1, <1>2, <1>3, <1>4, <1>5, <1>6 DEF Next

(* Only Submit hands a transaction to Jupiter, and what it goes by is what was
   signed. *)
LEMMA SubmitsOnlySo ==
    ASSUME LedgerInv, [Next]_vars, NEW s \in Sessions, Submits(s)
    PROVE  Submit(s) /\ tx[s].snapshot = Snapshot(call[s])
<1>1. Shaped /\ Sound(s)
  BY DEF LedgerInv
<1>2. \E u \in Sessions : Submit(u) /\ tx' = [tx EXCEPT ![u].status = "submitted"]
  <2>1. ASSUME NEW u \in Sessions,
               \/ Ask(u) \/ LookUp(u) \/ FetchPage(u) \/ ReadBaseline(u) \/ Inspect(u)
               \/ Offer(u) \/ Refuse(u) \/ Decline(u) \/ Post(u) \/ Disconnect(u)
               \/ Answer(u) \/ Confirm(u) \/ Store(u) \/ SwitchWallet(u)
        PROVE  FALSE
    BY <2>1 DEF Submits, Ask, LookUp, FetchPage, ReadBaseline, Inspect, Offer, Refuse, Decline,
                Post, Disconnect, Answer, Confirm, Store, SwitchWallet
  <2>2. ASSUME NEW u \in Sessions, Sign(u) PROVE FALSE
    BY <1>1, <2>2 DEF Submits, Sign, Shaped
  <2>3. ASSUME NEW u \in Sessions, Broadcast(u) \/ Land(u) \/ Fall(u) PROVE FALSE
    BY <1>1, <2>3 DEF Submits, Broadcast, Land, Fall, Shaped
  <2>4. ASSUME Restart \/ RefreshFeed \/ IssuerWrites \/ IssuerActs \/ Tick \/ UNCHANGED vars
        PROVE  FALSE
    BY <2>4 DEF Submits, Restart, RefreshFeed, IssuerWrites, IssuerActs, Tick, vars
  <2>5. QED
    BY <2>1, <2>2, <2>3, <2>4 DEF Next, Submit
<1>3. Submit(s)
  BY <1>1, <1>2 DEF Submits, Shaped
<1>4. tx[s].snapshot = Snapshot(call[s])
  BY <1>1, <1>3 DEF Submit, At, SameSnapshot, Sound, Working, Gated, Beyond
<1>5. QED
  BY <1>3, <1>4

(* Whatever two requests share, and whichever fills a cache, nothing is
   submitted on a mint that has not been as it was signed for longer than an
   answer may be kept (onchain-mint.ts: readMintState; executable.ts). *)
THEOREM MintAlwaysHeeded == Spec => MintHeeded
<1>1. LedgerInv /\ FreshInv /\ [Next]_vars => [\A s \in Sessions : HeedsMint(s)]_vars
  <2>1. SUFFICES ASSUME LedgerInv, FreshInv, [Next]_vars, NEW s \in Sessions, Submits(s),
                        mint # tx[s].snapshot.mint \/ mint.paused \/ mint.hooked
                 PROVE  mintSince > call[s].req.began - MintLife
    BY DEF HeedsMint
  <2>2. Submit(s) /\ tx[s].snapshot = Snapshot(call[s])
    BY <2>1, SubmitsOnlySo
  <2>3. /\ call[s].at = "quote"
        /\ call[s].seen # Unread /\ ~call[s].seen.paused /\ ~call[s].seen.hooked
        /\ tx[s].snapshot.mint = call[s].seen
    BY <2>2 DEF Submit, At, Allowed, Snapshot
  <2>4. /\ call[s].req.began \in Nat /\ mintSince \in Nat
        /\ HeldSince(call[s].seen, call[s].req.began - MintLife + 1)
    BY <2>1, <2>3 DEF FreshInv, Dated, Fresh, Gated
  <2>5. QED
    BY <2>1, <2>3, <2>4, ConversionAssumption DEF HeldSince
<1>2. QED
  BY <1>1, LedgerInit, LedgerNext, FreshInit, FreshNext, PTL DEF Spec, MintHeeded

(* Nothing is submitted for a destination that was read from the page and that
   the issuer took back before the catalog could have been built, nor by a
   request that began at or after the deadline signed, if there was one:
   whatever errors carry, and whether a date can be read or not
   (prestocks-catalog.ts: buildPrestocksCatalog; safety-gate.ts). *)
THEOREM PageAlwaysHeeded == Spec => PageHeeded
<1>1. LedgerInv /\ FreshInv /\ [Next]_vars => [\A s \in Sessions : HeedsPage(s)]_vars
  <2>1. SUFFICES ASSUME LedgerInv, FreshInv, [Next]_vars, NEW s \in Sessions, Submits(s)
                 PROVE  HeedsPage(s)
    BY DEF HeedsPage
  <2>2. Submit(s) /\ tx[s].snapshot = Snapshot(call[s])
    BY <2>1, SubmitsOnlySo
  <2>3. /\ call[s].at = "quote"
        /\ call[s].event.deadline # NoDeadline => call[s].now < call[s].event.deadline
        /\ tx[s].snapshot.event = call[s].event
    BY <2>2 DEF Submit, At, Allowed, Snapshot
  <2>4. /\ call[s].req.began \in Nat /\ pageSince \in Nat
        /\ call[s].now \in Nat /\ call[s].req.began <= call[s].now
        /\ NamedSince(call[s].event, call[s].req.began - CatalogLife + 1)
        /\ call[s].event.deadline # NoDeadline => call[s].event.deadline \in Nat
    BY <2>1, <2>3, ConversionAssumption DEF FreshInv, Dated, Fresh, Gated, EventSound
  <2>5. QED
    BY <2>3, <2>4, ConversionAssumption DEF HeedsPage, NamedSince
<1>2. QED
  BY <1>1, LedgerInit, LedgerNext, FreshInit, FreshNext, PTL DEF Spec, PageHeeded

-----------------------------------------------------------------------------
(* The types, with those of what a request has read so far.  Whatever was
   signed was allowed on an open window. *)

Texts == [terms : Deadlines \union {Undated, NoDeadline}, dest : Destinations]

Rows == {NoRow} \union [terms : Deadlines \union {Undated, NoDeadline}, rate : Nat]

Signable == {q \in Snapshots : q.event.stage = "CONVERSION_WINDOW"}

LEMMA TextsTyped == Pages \subseteq Texts /\ FailedTexts \subseteq Texts
BY ConversionAssumption DEF Texts, FailedTexts, Blank

WorldTyped ==
    /\ clock \in 0 .. MaxTime
    /\ page \in Pages
    /\ mint \in MintStates
    /\ feedRow \in Rows
    /\ connected \in [Sessions -> Wallets \union {NoWallet}]
    /\ balance \in [Wallets -> 0 .. Supply]

CachesTyped ==
    /\ catalog \in {NoEntry} \union [at : 0 .. clock, event : Events \union {NoAsset}]
    /\ mintCache \in {NoEntry} \union [at : 0 .. clock, seen : MintStates \union {Unread}]

CallTyped(c) ==
    /\ c.at # "none" => c.req.taker \in Wallets /\ c.req.amount \in Amounts
    /\ c.at = "fetch" => c.asOf \in 0 .. clock
    /\ c.at \in {"fetch", "baseline"} => c.row \in Rows
    /\ c.at \in {"baseline", "inspect", "quote"} => c.event \in Events
    /\ c.at = "quote" => c.seen \in MintStates \union {Unread}

HolderTyped(s) ==
    /\ console[s].at = "signing" => console[s].snapshot \in Signable
    /\ console[s].at = "told" => console[s].outcome \in Outcomes
    /\ tx[s].status # "unsigned" =>
          /\ tx[s].status \in {"signed", "submitted", "sent", "landed", "failed", "dropped"}
          /\ tx[s].snapshot \in Signable

TypeInv ==
    /\ WorldTyped
    /\ CachesTyped
    /\ \A s \in Sessions : CallTyped(call[s]) /\ HolderTyped(s)

LEMMA TypeInit == Init => TypeInv
BY ConversionAssumption
   DEF Init, TypeInv, WorldTyped, CachesTyped, CallTyped, HolderTyped, Rows, NoCall, Unsigned

LEMMA WorldStays ==
    ASSUME TypeInv, UNCHANGED <<clock, page, mint, feedRow, connected, balance>> PROVE WorldTyped'
BY DEF TypeInv, WorldTyped

LEMMA CachesStay ==
    ASSUME TypeInv, UNCHANGED <<clock, catalog, mintCache>> PROVE CachesTyped'
BY DEF TypeInv, CachesTyped

(* One session moves, and time stands still. *)
LEMMA OneTyped ==
    ASSUME TypeInv, NEW s \in Sessions, Only(s), UNCHANGED clock,
           WorldTyped', CachesTyped', CallTyped(call[s])', HolderTyped(s)'
    PROVE  TypeInv'
<1>1. ASSUME NEW u \in Sessions \ {s} PROVE CallTyped(call[u])' /\ HolderTyped(u)'
  <2>1. call'[u] = call[u] /\ console'[u] = console[u] /\ tx'[u] = tx[u]
    BY DEF Only
  <2>2. CallTyped(call[u]) /\ HolderTyped(u)
    BY DEF TypeInv
  <2>3. QED
    BY <2>1, <2>2 DEF CallTyped, HolderTyped
<1>2. QED
  BY <1>1 DEF TypeInv

(* A request goes on: the holder and the transaction wait. *)
LEMMA CallMoves ==
    ASSUME LedgerInv, TypeInv, NEW s \in Sessions, NEW c, SetCall(s, c), CallTyped(c),
           UNCHANGED <<clock, console, tx>>, WorldTyped', CachesTyped'
    PROVE  TypeInv'
<1>1. Only(s) /\ call'[s] = c
  BY DEF LedgerInv, Shaped, Only, SetCall
<1>2. CallTyped(call[s])'
  BY <1>1 DEF CallTyped
<1>3. HolderTyped(s)'
  BY DEF TypeInv, HolderTyped
<1>4. QED
  BY <1>1, <1>2, <1>3, OneTyped

LEMMA CallEnds ==
    ASSUME LedgerInv, TypeInv, NEW s \in Sessions, NEW outcome \in Outcomes,
           SetCall(s, NoCall), Reply(s, outcome), UNCHANGED <<clock, tx>>, WorldTyped', CachesTyped'
    PROVE  TypeInv'
<1>1. /\ Only(s)
      /\ call'[s] = NoCall
      /\ console'[s] = console[s] \/ console'[s] = [at |-> "told", outcome |-> outcome]
  BY DEF LedgerInv, Shaped, Only, SetCall, Reply, Tell
<1>2. CallTyped(call[s])'
  BY <1>1 DEF CallTyped, NoCall
<1>3. HolderTyped(s)'
  BY <1>1 DEF TypeInv, HolderTyped
<1>4. QED
  BY <1>1, <1>2, <1>3, OneTyped

LEMMA FoundTyped ==
    ASSUME LedgerInv, TypeInv, NEW s \in Sessions, NEW row \in Rows,
           NEW event \in Events \union {NoAsset}, Found(s, row, event),
           call[s].at # "none", UNCHANGED <<clock, tx>>, WorldTyped', CachesTyped'
    PROVE  TypeInv'
<1>1. CASE event = NoAsset
  BY <1>1, CallEnds DEF Found, Outcomes
<1>2. CASE event # NoAsset
  <2> DEFINE c == [at |-> "baseline", req |-> call[s].req, row |-> row, event |-> event]
  <2>1. SetCall(s, c) /\ UNCHANGED console
    BY <1>2 DEF Found
  <2>2. CallTyped(c)
    BY <1>2 DEF TypeInv, CallTyped
  <2>3. QED
    BY <2>1, <2>2, CallMoves
<1>3. QED
  BY <1>1, <1>2

LEMMA AskTyped == ASSUME LedgerInv, TypeInv, NEW s \in Sessions, Ask(s) PROVE TypeInv'
<1>1. PICK amount \in Amounts :
         SetCall(s, [at |-> "lookup", req |-> Assembly(connected[s], amount)])
  BY DEF Ask
<1>2. connected[s] \in Wallets
  BY DEF Ask, TypeInv, WorldTyped
<1>3. /\ Only(s) /\ UNCHANGED tx
      /\ call'[s].at = "lookup"
      /\ call'[s].req.taker = connected[s] /\ call'[s].req.amount = amount
      /\ console'[s] = [at |-> "asking"]
  BY <1>1 DEF Ask, LedgerInv, Shaped, Only, SetCall, Assembly
<1>4. CallTyped(call[s])' /\ HolderTyped(s)'
  BY <1>2, <1>3 DEF TypeInv, CallTyped, HolderTyped
<1>5. UNCHANGED clock /\ WorldTyped' /\ CachesTyped'
  BY WorldStays, CachesStay DEF Ask, chain, caches, issuer
<1>6. QED
  BY <1>3, <1>4, <1>5, OneTyped

LEMMA LookUpTyped == ASSUME LedgerInv, TypeInv, NEW s \in Sessions, LookUp(s) PROVE TypeInv'
<1>1. /\ UNCHANGED <<clock, tx>> /\ WorldTyped' /\ CachesTyped'
      /\ call[s].at = "lookup" /\ CallTyped(call[s]) /\ clock \in 0 .. clock
  BY WorldStays, CachesStay, ConversionAssumption
     DEF LookUp, At, chain, caches, issuer, TypeInv, WorldTyped
<1>2. PICK row \in {feedRow, NoRow} :
         IF Young(catalog, CatalogLife)
         THEN Found(s, row, catalog.event)
         ELSE /\ SetCall(s, [at |-> "fetch", req |-> call[s].req, row |-> row, asOf |-> clock])
              /\ UNCHANGED console
  BY DEF LookUp
<1>3. row \in Rows
  BY DEF TypeInv, WorldTyped, Rows
<1>4. CASE Young(catalog, CatalogLife)
  <2>1. catalog.event \in Events \union {NoAsset}
    BY <1>4 DEF Young, TypeInv, CachesTyped
  <2>2. QED
    BY <1>1, <1>2, <1>3, <1>4, <2>1, FoundTyped
<1>5. CASE ~Young(catalog, CatalogLife)
  <2> DEFINE c == [at |-> "fetch", req |-> call[s].req, row |-> row, asOf |-> clock]
  <2>1. CallTyped(c)
    BY <1>1, <1>3 DEF CallTyped
  <2>2. QED
    BY <1>1, <1>2, <1>5, <2>1, CallMoves
<1>6. QED
  BY <1>4, <1>5

LEMMA EventOfTyped ==
    ASSUME NEW row, NEW text \in Texts, NEW read \in BOOLEAN, NEW time
    PROVE  EventOf(row, text, read, time) \in Events
<1>1. DeadlineOf(row, text) \in Deadlines \union {NoDeadline}
  BY DEF DeadlineOf, DateIn
<1>2. \A deadline, warned :
         Stage(deadline, warned, time) \in {"TERMS_PENDING", "EXPIRED", "CONVERSION_WINDOW"}
  BY DEF Stage
<1>3. QED
  BY <1>1, <1>2 DEF EventOf, Events, Texts

LEMMA FetchPageTyped ==
    ASSUME LedgerInv, TypeInv, NEW s \in Sessions, FetchPage(s) PROVE TypeInv'
<1>1. /\ UNCHANGED <<clock, mintCache, tx>> /\ WorldTyped'
      /\ call[s].at = "fetch" /\ call[s].row \in Rows /\ call[s].asOf \in 0 .. clock
  BY WorldStays DEF FetchPage, At, chain, issuer, TypeInv, CallTyped
<1>2. PICK event \in {EventOf(call[s].row, page, TRUE, call[s].asOf), NoAsset}
                       \union {EventOf(call[s].row, text, FALSE, call[s].asOf) : text \in FailedTexts} :
         catalog' = [at |-> call[s].asOf, event |-> event] /\ Found(s, call[s].row, event)
  BY DEF FetchPage
<1>3. event \in Events \union {NoAsset}
  <2>1. page \in Texts /\ FailedTexts \subseteq Texts
    BY TextsTyped DEF TypeInv, WorldTyped
  <2>2. QED
    BY <1>2, <2>1, EventOfTyped
<1>4. CachesTyped'
  BY <1>1, <1>2, <1>3 DEF TypeInv, CachesTyped
<1>5. QED
  BY <1>1, <1>2, <1>3, <1>4, FoundTyped

LEMMA ReadMintTyped ==
    ASSUME TypeInv, NEW seen, ReadMint(seen), UNCHANGED <<clock, catalog>>
    PROVE  CachesTyped'
BY ConversionAssumption DEF TypeInv, WorldTyped, CachesTyped, ReadMint, Young

LEMMA ReadBaselineTyped ==
    ASSUME LedgerInv, TypeInv, NEW s \in Sessions, ReadBaseline(s) PROVE TypeInv'
<1>1. /\ UNCHANGED <<clock, catalog, console, tx>> /\ WorldTyped'
      /\ call[s].at = "baseline" /\ CallTyped(call[s])
  BY WorldStays DEF ReadBaseline, At, chain, issuer, TypeInv
<1>2. CachesTyped'
  <2>1. CASE UNCHANGED mintCache
    BY <1>1, <2>1, CachesStay
  <2>2. CASE \E seen : ReadMint(seen)
    BY <1>1, <2>2, ReadMintTyped
  <2>3. QED
    BY <2>1, <2>2 DEF ReadBaseline
<1>3. PICK rate : SetCall(s, [at |-> "inspect", req |-> call[s].req, event |-> call[s].event,
                              baseline |-> rate, now |-> clock])
  BY DEF ReadBaseline
<1>4. CallTyped([at |-> "inspect", req |-> call[s].req, event |-> call[s].event,
                 baseline |-> rate, now |-> clock])
  BY <1>1 DEF CallTyped
<1>5. QED
  BY <1>1, <1>2, <1>3, <1>4, CallMoves

LEMMA InspectTyped == ASSUME LedgerInv, TypeInv, NEW s \in Sessions, Inspect(s) PROVE TypeInv'
<1>1. /\ UNCHANGED <<clock, catalog, console, tx>> /\ WorldTyped'
      /\ call[s].at = "inspect" /\ CallTyped(call[s])
  BY WorldStays DEF Inspect, At, chain, issuer, TypeInv
<1>2. PICK seen \in MintStates \union {Unread},
           funded \in {balance[call[s].req.taker] >= call[s].req.amount, TRUE} :
         /\ ReadMint(seen) \/ UNCHANGED mintCache
         /\ SetCall(s, [at |-> "quote", req |-> call[s].req, event |-> call[s].event,
                        baseline |-> call[s].baseline, now |-> call[s].now,
                        seen |-> seen, funded |-> funded])
  BY DEF Inspect
<1>3. CachesTyped'
  BY <1>1, <1>2, CachesStay, ReadMintTyped
<1>4. CallTyped([at |-> "quote", req |-> call[s].req, event |-> call[s].event,
                 baseline |-> call[s].baseline, now |-> call[s].now,
                 seen |-> seen, funded |-> funded])
  BY <1>1 DEF CallTyped
<1>5. QED
  BY <1>1, <1>2, <1>3, <1>4, CallMoves

(* What is offered for signing was allowed, so its window is open. *)
LEMMA OfferTyped ==
    ASSUME LedgerInv, TypeInv, NEW s \in Sessions, Offer(s) PROVE TypeInv'
<1>1. /\ UNCHANGED <<clock, tx>> /\ WorldTyped' /\ CachesTyped'
      /\ call[s].at = "quote" /\ CallTyped(call[s])
  BY WorldStays, CachesStay DEF Offer, At, chain, caches, issuer, TypeInv
<1>2. /\ call[s].event.stage = "CONVERSION_WINDOW"
      /\ call[s].seen \in MintStates
  BY <1>1 DEF Offer, Allowed, CallTyped
<1>3. Snapshot(call[s]) \in Signable
  BY <1>1, <1>2 DEF CallTyped, Snapshot, Signable, Snapshots
<1>4. /\ Only(s)
      /\ call'[s] = NoCall
      /\ \/ console'[s] = console[s]
         \/ console'[s].at = "signing" /\ console'[s].snapshot = Snapshot(call[s])
  BY DEF Offer, LedgerInv, Shaped, Only, SetCall
<1>5. CallTyped(call[s])' /\ HolderTyped(s)'
  BY <1>1, <1>3, <1>4 DEF TypeInv, CallTyped, HolderTyped, NoCall
<1>6. QED
  BY <1>1, <1>4, <1>5, OneTyped

LEMMA SignTyped == ASSUME LedgerInv, TypeInv, NEW s \in Sessions, Sign(s) PROVE TypeInv'
<1>1. UNCHANGED <<clock, call>> /\ WorldTyped' /\ CachesTyped'
  BY WorldStays, CachesStay DEF Sign, chain, caches, issuer
<1>2. /\ Only(s)
      /\ tx'[s].status = "signed" /\ tx'[s].snapshot = console[s].snapshot
      /\ console'[s] = [at |-> "signed"]
  BY DEF Sign, LedgerInv, Shaped, Only
<1>3. CallTyped(call[s])' /\ HolderTyped(s)'
  BY <1>1, <1>2 DEF Sign, TypeInv, CallTyped, HolderTyped
<1>4. QED
  BY <1>1, <1>2, <1>3, OneTyped

LEMMA DeclineTyped == ASSUME LedgerInv, TypeInv, NEW s \in Sessions, Decline(s) PROVE TypeInv'
<1>1. UNCHANGED <<clock, call, tx>> /\ WorldTyped' /\ CachesTyped'
  BY WorldStays, CachesStay DEF Decline, chain, caches, issuer
<1>2. Only(s) /\ console'[s] = [at |-> "told", outcome |-> "refused"]
  BY DEF Decline, Tell, LedgerInv, Shaped, Only
<1>3. CallTyped(call[s])' /\ HolderTyped(s)'
  BY <1>1, <1>2 DEF TypeInv, CallTyped, HolderTyped, Outcomes
<1>4. QED
  BY <1>1, <1>2, <1>3, OneTyped

LEMMA PostTyped == ASSUME LedgerInv, TypeInv, NEW s \in Sessions, Post(s) PROVE TypeInv'
<1>1. /\ UNCHANGED <<clock, tx>> /\ WorldTyped' /\ CachesTyped'
      /\ tx[s].status = "signed" /\ Shaped
  BY WorldStays, CachesStay DEF Post, chain, caches, issuer, LedgerInv, Sound
<1>2. CASE Tell(s, "error") /\ UNCHANGED call
  <2>1. Only(s) /\ console'[s] = [at |-> "told", outcome |-> "error"]
    BY <1>1, <1>2 DEF Tell, Shaped, Only
  <2>2. CallTyped(call[s])' /\ HolderTyped(s)'
    BY <1>1, <1>2, <2>1 DEF TypeInv, CallTyped, HolderTyped, Outcomes
  <2>3. QED
    BY <1>1, <2>1, <2>2, OneTyped
<1>3. CASE /\ connected[s] # NoWallet
           /\ SetCall(s, [at  |-> "lookup",
                          req |-> Execution(connected[s], tx[s].snapshot.amount, tx[s].snapshot)])
           /\ console' = [console EXCEPT ![s] = [at |-> "posted"]]
  <2>1. /\ Only(s)
        /\ call'[s].at = "lookup"
        /\ call'[s].req.taker = connected[s] /\ call'[s].req.amount = tx[s].snapshot.amount
        /\ console'[s] = [at |-> "posted"]
    BY <1>1, <1>3 DEF Shaped, Only, SetCall, Execution
  <2>2. connected[s] \in Wallets /\ tx[s].snapshot.amount \in Amounts
    BY <1>1, <1>3 DEF TypeInv, WorldTyped, HolderTyped, Signable, Snapshots
  <2>3. CallTyped(call[s])' /\ HolderTyped(s)'
    BY <1>1, <2>1, <2>2 DEF TypeInv, CallTyped, HolderTyped
  <2>4. QED
    BY <1>1, <2>1, <2>3, OneTyped
<1>4. QED
  BY <1>2, <1>3 DEF Post

(* A transaction moves on, with what was signed. *)
LEMMA TxMoves ==
    ASSUME LedgerInv, TypeInv, NEW s \in Sessions, tx[s].status # "unsigned",
           NEW status \in {"submitted", "sent", "landed", "failed", "dropped"},
           tx' = [tx EXCEPT ![s].status = status]
    PROVE  /\ tx'[s].status = status /\ tx'[s].snapshot = tx[s].snapshot
           /\ \A u \in Sessions \ {s} : tx'[u] = tx[u]
           /\ DOMAIN tx' = Sessions
BY DEF LedgerInv, Shaped, TxFields

LEMMA SubmitTyped == ASSUME LedgerInv, TypeInv, NEW s \in Sessions, Submit(s) PROVE TypeInv'
<1>1. /\ UNCHANGED <<clock, console>> /\ WorldTyped' /\ CachesTyped'
      /\ call[s].at = "quote" /\ CallTyped(call[s]) /\ Shaped
  BY WorldStays, CachesStay DEF Submit, At, chain, caches, issuer, TypeInv, LedgerInv
<1>2. tx[s].status = "signed"
  BY <1>1 DEF Submit, LedgerInv, Sound, Working, Beyond
<1>3. /\ Only(s)
      /\ call'[s] = [at |-> "jupiter", req |-> call[s].req]
      /\ tx'[s].status = "submitted" /\ tx'[s].snapshot = tx[s].snapshot
  BY <1>1, <1>2, TxMoves DEF Submit, Shaped, Only, SetCall
<1>4. CallTyped(call[s])' /\ HolderTyped(s)'
  BY <1>1, <1>2, <1>3 DEF TypeInv, CallTyped, HolderTyped
<1>5. QED
  BY <1>1, <1>3, <1>4, OneTyped

LEMMA LaterTyped ==
    ASSUME LedgerInv, TypeInv, NEW s \in Sessions,
           Refuse(s) \/ Answer(s) \/ Confirm(s) \/ Store(s)
    PROVE  TypeInv'
<1>1. /\ UNCHANGED <<clock, tx>> /\ WorldTyped' /\ CachesTyped'
      /\ call[s].at # "none" /\ CallTyped(call[s])
  BY WorldStays, CachesStay
     DEF Refuse, Answer, Confirm, Store, At, chain, caches, issuer, TypeInv
<1>2. CASE \E outcome \in Outcomes : SetCall(s, NoCall) /\ Reply(s, outcome)
  BY <1>1, <1>2, CallEnds
<1>3. CASE \E at \in {"confirm", "store"} :
              SetCall(s, [at |-> at, req |-> call[s].req]) /\ UNCHANGED console
  <2>1. PICK at \in {"confirm", "store"} :
           SetCall(s, [at |-> at, req |-> call[s].req]) /\ UNCHANGED console
    BY <1>3
  <2>2. CallTyped([at |-> at, req |-> call[s].req])
    BY <1>1 DEF CallTyped
  <2>3. QED
    BY <1>1, <2>1, <2>2, CallMoves
<1>4. QED
  BY <1>2, <1>3 DEF Refuse, Answer, Confirm, Store, Outcomes

LEMMA DisconnectTyped ==
    ASSUME LedgerInv, TypeInv, NEW s \in Sessions, Disconnect(s) PROVE TypeInv'
<1>1. UNCHANGED <<clock, tx>> /\ WorldTyped' /\ CachesTyped'
  BY WorldStays, CachesStay DEF Disconnect, chain, caches, issuer
<1>2. /\ Only(s)
      /\ call'[s] = call[s] \/ call'[s] = NoCall
      /\ console'[s] = [at |-> "told", outcome |-> "error"]
  BY DEF Disconnect, Tell, SetCall, LedgerInv, Shaped, Only
<1>3. CallTyped(call[s])' /\ HolderTyped(s)'
  BY <1>1, <1>2 DEF TypeInv, CallTyped, HolderTyped, NoCall, Outcomes
<1>4. QED
  BY <1>1, <1>2, <1>3, OneTyped

LEMMA TxTyped ==
    ASSUME LedgerInv, TypeInv, NEW s \in Sessions, Broadcast(s) \/ Land(s) \/ Fall(s)
    PROVE  TypeInv'
<1>1. PICK status \in {"sent", "landed", "failed", "dropped"} :
         tx' = [tx EXCEPT ![s].status = status]
  BY DEF Broadcast, Land, Fall
<1>2. /\ UNCHANGED <<clock, console, call>> /\ CachesTyped' /\ Shaped
      /\ tx[s].status \in {"submitted", "sent"}
  BY CachesStay DEF Broadcast, Land, Fall, chain, caches, LedgerInv
<1>3. /\ Only(s)
      /\ tx'[s].status = status /\ tx'[s].snapshot = tx[s].snapshot
  BY <1>1, <1>2, TxMoves DEF Shaped, Only
<1>4. CallTyped(call[s])' /\ HolderTyped(s)'
  BY <1>2, <1>3 DEF TypeInv, CallTyped, HolderTyped
<1>5. WorldTyped'
  <2>1. CASE Broadcast(s) \/ Fall(s)
    BY <2>1, WorldStays DEF Broadcast, Fall, chain, issuer
  <2>2. CASE Land(s)
    <3> DEFINE taker == tx[s].snapshot.taker
               amount == tx[s].snapshot.amount
    <3>1. taker \in Wallets /\ amount \in Nat
      BY <1>2, ConversionAssumption DEF TypeInv, HolderTyped, Signable, Snapshots
    <3>2. /\ balance[taker] >= amount
          /\ balance' = [balance EXCEPT ![taker] = @ - amount]
          /\ UNCHANGED <<clock, page, mint, feedRow, connected>>
      BY <2>2 DEF Land, issuer
    <3> HIDE DEF taker, amount
    <3>3. balance[taker] - amount \in 0 .. Supply
      BY <3>1, <3>2, ConversionAssumption DEF TypeInv, WorldTyped
    <3>4. QED
      BY <3>1, <3>2, <3>3 DEF TypeInv, WorldTyped
  <2>3. QED
    BY <2>1, <2>2
<1>6. QED
  BY <1>2, <1>3, <1>4, <1>5, OneTyped

LEMMA RestartTyped == ASSUME LedgerInv, TypeInv, Restart PROVE TypeInv'
<1>1. WorldTyped'
  BY WorldStays DEF Restart, chain, issuer
<1>2. CachesTyped'
  BY DEF Restart, CachesTyped
<1>3. ASSUME NEW s \in Sessions PROVE CallTyped(call[s])' /\ HolderTyped(s)'
  <2>1. /\ call'[s] = NoCall /\ UNCHANGED tx
        /\ \/ console'[s] = console[s]
           \/ console'[s] = [at |-> "told", outcome |-> "error"]
    BY DEF Restart
  <2>2. QED
    BY <2>1 DEF TypeInv, CallTyped, HolderTyped, NoCall, Outcomes
<1>4. QED
  BY <1>1, <1>2, <1>3 DEF TypeInv

(* The world moves, and what is cached or read only gets older. *)
LEMMA WorldMoves ==
    ASSUME TypeInv, UNCHANGED <<caches, call, console, tx>>,
           WorldTyped', clock <= clock'
    PROVE  TypeInv'
<1>1. clock \in Nat /\ clock' \in Nat /\ 0 .. clock \subseteq 0 .. clock'
  BY ConversionAssumption DEF TypeInv, WorldTyped
<1>2. CachesTyped'
  BY <1>1 DEF TypeInv, CachesTyped, caches
<1>3. ASSUME NEW s \in Sessions PROVE CallTyped(call[s])' /\ HolderTyped(s)'
  BY <1>1 DEF TypeInv, CallTyped, HolderTyped
<1>4. QED
  BY <1>2, <1>3 DEF TypeInv

LEMMA WorldTypes ==
    ASSUME TypeInv,
           \/ \E s \in Sessions : SwitchWallet(s)
           \/ RefreshFeed \/ IssuerWrites \/ IssuerActs \/ Tick \/ UNCHANGED vars
    PROVE  TypeInv'
<1>1. UNCHANGED <<caches, call, console, tx>>
  BY DEF SwitchWallet, RefreshFeed, IssuerWrites, IssuerActs, Tick, vars, caches
<1>2. clock \in 0 .. MaxTime /\ clock <= clock
  BY ConversionAssumption DEF TypeInv, WorldTyped
<1>3. CASE \E s \in Sessions : SwitchWallet(s)
  BY <1>1, <1>2, <1>3, WorldMoves DEF SwitchWallet, chain, issuer, TypeInv, WorldTyped
<1>4. CASE RefreshFeed
  <2>1. feedRow' \in Rows
    BY <1>4, TextsTyped, ConversionAssumption DEF RefreshFeed, TypeInv, WorldTyped, Texts, Rows
  <2>2. QED
    BY <1>1, <1>2, <1>4, <2>1, WorldMoves DEF RefreshFeed, chain, issuer, TypeInv, WorldTyped
<1>5. CASE IssuerWrites \/ IssuerActs \/ UNCHANGED vars
  BY <1>1, <1>2, <1>5, WorldMoves
     DEF IssuerWrites, IssuerActs, vars, chain, issuer, TypeInv, WorldTyped
<1>6. CASE Tick
  <2>1. clock' \in 0 .. MaxTime /\ clock <= clock'
    BY <1>2, <1>6, ConversionAssumption DEF Tick
  <2>2. QED
    BY <1>1, <1>6, <2>1, WorldMoves DEF Tick, chain, issuer, TypeInv, WorldTyped
<1>7. QED
  BY <1>3, <1>4, <1>5, <1>6

LEMMA TypeNext == LedgerInv /\ TypeInv /\ [Next]_vars => TypeInv'
<1>1. SUFFICES ASSUME LedgerInv, TypeInv, [Next]_vars PROVE TypeInv'
  OBVIOUS
<1>2. ASSUME NEW s \in Sessions,
             \/ Ask(s) \/ LookUp(s) \/ FetchPage(s) \/ ReadBaseline(s) \/ Inspect(s)
             \/ Offer(s) \/ Refuse(s) \/ Sign(s) \/ Decline(s) \/ Post(s) \/ Disconnect(s)
             \/ Submit(s) \/ Answer(s) \/ Confirm(s) \/ Store(s)
             \/ Broadcast(s) \/ Land(s) \/ Fall(s)
      PROVE  TypeInv'
  BY <1>1, <1>2, AskTyped, LookUpTyped, FetchPageTyped, ReadBaselineTyped, InspectTyped,
     OfferTyped, SignTyped, DeclineTyped, PostTyped, DisconnectTyped, SubmitTyped, LaterTyped, TxTyped
<1>3. CASE Restart
  BY <1>1, <1>3, RestartTyped
<1>4. QED
  BY <1>1, <1>2, <1>3, WorldTypes DEF Next

(* What a holder signs was allowed on an open window, the API is at work only
   for a holder who waits or was told an error, and no balance runs below
   nothing, whatever the requests, the caches and the issuer do
   (executable.ts: buildExecutable). *)
THEOREM ConversionTyped == Spec => []TypeOK
<1>1. LedgerInv /\ TypeInv => TypeOK
  BY DEF LedgerInv, Sound, Working, Erred, TypeInv, WorldTyped, CachesTyped, CallTyped, HolderTyped,
         Rows, Signable, TypeOK
<1>2. QED
  BY <1>1, LedgerInit, LedgerNext, TypeInit, TypeNext, PTL DEF Spec

-----------------------------------------------------------------------------
(* What the API would see if the feed had stored nothing.  A page that was read
   is then taken at its word when the catalog is built; and a window is open by
   one that was not read only if the error sent for it warns of an expiry. *)

ErrorsSilent == \A text \in ErrorPages : text.terms = NoDeadline

Owned(event, since) ==
    event.stage = "CONVERSION_WINDOW" =>
        /\ (event.read /\ event.deadline # DateIn(page.terms)) => pageSince >= since
        /\ ErrorsSilent => event.read

OwnCatalog == (catalog # NoEntry /\ catalog.event # NoAsset) => Owned(catalog.event, catalog.at)

OwnCall(c) ==
    /\ c.at = "fetch" => c.row = NoRow
    /\ c.at \in {"baseline", "inspect", "quote"} => Owned(c.event, c.req.began - CatalogLife + 1)

OwnInv == OwnCatalog /\ \A s \in Sessions : OwnCall(call[s])

LEMMA OwnInit == Init => OwnInv
BY DEF Init, OwnInv, OwnCatalog, OwnCall, NoCall

LEMMA TimePasses == ASSUME Dated, [Next]_vars PROVE Passes
<1>1. ASSUME NEW s \in Sessions,
             \/ Ask(s) \/ LookUp(s) \/ FetchPage(s) \/ ReadBaseline(s) \/ Inspect(s)
             \/ Offer(s) \/ Refuse(s) \/ Sign(s) \/ Decline(s) \/ Post(s) \/ Disconnect(s)
             \/ Submit(s) \/ Answer(s) \/ Confirm(s) \/ Store(s)
             \/ Broadcast(s) \/ Land(s) \/ Fall(s) \/ SwitchWallet(s)
      PROVE  UNCHANGED <<clock, page, pageSince, mint, mintSince>>
  BY <1>1 DEF Ask, LookUp, FetchPage, ReadBaseline, Inspect, Offer, Refuse, Sign, Decline, Post,
              Disconnect, Submit, Answer, Confirm, Store, Broadcast, Land, Fall, SwitchWallet, issuer, chain
<1>2. CASE Restart \/ RefreshFeed \/ UNCHANGED vars
  BY <1>2 DEF Restart, RefreshFeed, vars, issuer, chain, Dated, Passes
<1>3. CASE IssuerWrites \/ IssuerActs \/ Tick
  BY <1>3 DEF IssuerWrites, IssuerActs, Tick, issuer, chain, Dated, Passes
<1>4. QED
  BY <1>1, <1>2, <1>3 DEF Next, Dated, Passes

LEMMA StillOwned ==
    ASSUME Dated, Passes, NEW event, NEW since \in Int, since <= clock, Owned(event, since)
    PROVE  Owned(event, since)'
BY DEF Dated, Passes, Owned

LEMMA OwnCallStays ==
    ASSUME FreshInv, OwnInv, Passes, NEW s \in Sessions, UNCHANGED call[s] PROVE OwnCall(call[s])'
<1>1. PICK c : c = call[s]
  OBVIOUS
<1>2. CASE c.at \in {"baseline", "inspect", "quote"}
  <2>1. c.req.began \in Nat /\ c.req.began <= clock /\ clock \in Nat
    BY <1>1, <1>2 DEF FreshInv, Dated, Fresh, Gated
  <2>2. c.req.began - CatalogLife + 1 \in Int /\ c.req.began - CatalogLife + 1 <= clock
    BY <2>1, ConversionAssumption
  <2>3. Owned(c.event, c.req.began - CatalogLife + 1)'
    BY <1>1, <1>2, <2>2, StillOwned DEF FreshInv, OwnInv, OwnCall
  <2>4. QED
    BY <1>1, <1>2, <2>3 DEF OwnCall, Owned
<1>3. CASE c.at \notin {"baseline", "inspect", "quote"}
  BY <1>1, <1>3 DEF OwnInv, OwnCall
<1>4. QED
  BY <1>2, <1>3

LEMMA OwnCatalogStays ==
    ASSUME FreshInv, OwnInv, Passes, UNCHANGED catalog PROVE OwnCatalog'
<1>1. SUFFICES ASSUME catalog # NoEntry, catalog.event # NoAsset
               PROVE  Owned(catalog.event, catalog.at)'
  BY DEF OwnCatalog, Owned
<1>2. catalog.at \in Nat /\ catalog.at <= clock /\ Owned(catalog.event, catalog.at)
  BY <1>1 DEF FreshInv, CatalogSound, OwnInv, OwnCatalog
<1>3. PICK event, since : event = catalog.event /\ since = catalog.at
  OBVIOUS
<1>4. Owned(event, since)'
  BY <1>2, <1>3, StillOwned DEF FreshInv
<1>5. QED
  BY <1>3, <1>4 DEF Owned

LEMMA OneOwn ==
    ASSUME FreshInv, OwnInv, Passes, NEW s \in Sessions,
           \A u \in Sessions \ {s} : call'[u] = call[u], OwnCall(call[s])', OwnCatalog'
    PROVE  OwnInv'
BY OwnCallStays DEF OwnInv

(* A request moves on with the event it has, or ends. *)
LEMMA SameEvent ==
    ASSUME LedgerInv, FreshInv, OwnInv, Passes, NEW s \in Sessions, NEW c, SetCall(s, c),
           c.at # "fetch",
           c.at \in {"baseline", "inspect", "quote"} =>
               /\ call[s].at \in {"baseline", "inspect", "quote"}
               /\ c.event = call[s].event /\ c.req = call[s].req,
           UNCHANGED <<catalog, page, pageSince>>
    PROVE  OwnInv'
<1>1. call'[s] = c
  BY Moves
<1>2. OwnCall(call[s])'
  BY <1>1 DEF OwnInv, OwnCall, Owned
<1>3. QED
  BY <1>2, Moves, OneOwn, OwnCatalogStays

LEMMA FoundOwn ==
    ASSUME LedgerInv, FreshInv, OwnInv, Passes, NEW s \in Sessions, NEW row, NEW event,
           Found(s, row, event), UNCHANGED <<page, pageSince>>, OwnCatalog',
           event # NoAsset => Owned(event, call[s].req.began - CatalogLife + 1)
    PROVE  OwnInv'
<1>1. CASE event = NoAsset
  <2>1. call'[s] = NoCall
    BY <1>1, Moves DEF Found
  <2>2. OwnCall(call[s])'
    BY <2>1 DEF OwnCall, NoCall
  <2>3. QED
    BY <1>1, <2>2, Moves, OneOwn DEF Found
<1>2. CASE event # NoAsset
  <2>1. SetCall(s, [at |-> "baseline", req |-> call[s].req, row |-> row, event |-> event])
    BY <1>2 DEF Found
  <2>2. call'[s].at = "baseline" /\ call'[s].req = call[s].req /\ call'[s].event = event
    BY <2>1, Moves
  <2>3. OwnCall(call[s])'
    BY <1>2, <2>2 DEF OwnCall, Owned
  <2>4. QED
    BY <2>1, <2>3, Moves, OneOwn
<1>3. QED
  BY <1>1, <1>2

LEMMA LookUpOwn ==
    ASSUME LedgerInv, FreshInv, OwnInv, Passes, feedRow = NoRow, NEW s \in Sessions, LookUp(s)
    PROVE  OwnInv'
<1>1. /\ UNCHANGED <<catalog, page, pageSince>> /\ OwnCatalog'
      /\ call[s].req.began \in Nat /\ call[s].req.began <= clock /\ clock \in Nat
  BY OwnCatalogStays DEF LookUp, At, caches, issuer, FreshInv, Dated, Fresh, Gated
<1>2. IF Young(catalog, CatalogLife)
      THEN Found(s, NoRow, catalog.event)
      ELSE SetCall(s, [at |-> "fetch", req |-> call[s].req, row |-> NoRow, asOf |-> clock])
  BY DEF LookUp
<1>3. CASE Young(catalog, CatalogLife)
  <2>1. /\ catalog # NoEntry /\ catalog.at \in Nat /\ clock - catalog.at < CatalogLife
        /\ catalog.event # NoAsset => Owned(catalog.event, catalog.at)
    BY <1>3 DEF Young, FreshInv, CatalogSound, OwnInv, OwnCatalog
  <2>2. catalog.event # NoAsset => Owned(catalog.event, call[s].req.began - CatalogLife + 1)
    BY <1>1, <2>1, ConversionAssumption DEF Owned, FreshInv, Dated
  <2>3. QED
    BY <1>1, <1>2, <1>3, <2>2, FoundOwn
<1>4. CASE ~Young(catalog, CatalogLife)
  <2>1. call'[s].at = "fetch" /\ call'[s].row = NoRow
    BY <1>2, <1>4, Moves
  <2>2. OwnCall(call[s])'
    BY <2>1 DEF OwnCall
  <2>3. QED
    BY <1>1, <1>2, <1>4, <2>2, Moves, OneOwn
<1>5. QED
  BY <1>3, <1>4

(* Without a row the deadline is the text's, and so is the warning. *)
LEMMA FetchPageOwn ==
    ASSUME LedgerInv, FreshInv, OwnInv, Passes, NEW s \in Sessions, FetchPage(s)
    PROVE  OwnInv'
<1>1. UNCHANGED <<page, pageSince>> /\ call[s].row = NoRow
  BY DEF FetchPage, At, issuer, OwnInv, OwnCall
<1>2. PICK event \in {EventOf(NoRow, page, TRUE, call[s].asOf), NoAsset}
                       \union {EventOf(NoRow, text, FALSE, call[s].asOf) : text \in FailedTexts} :
         catalog' = [at |-> call[s].asOf, event |-> event] /\ Found(s, NoRow, event)
  BY <1>1 DEF FetchPage
<1>3. event # NoAsset => \A since : Owned(event, since)
  <2>1. CASE event = EventOf(NoRow, page, TRUE, call[s].asOf)
    BY <2>1 DEF EventOf, DeadlineOf, Owned
  <2>2. ASSUME NEW text \in FailedTexts, event = EventOf(NoRow, text, FALSE, call[s].asOf)
        PROVE  \A since : Owned(event, since)
    <3>1. ErrorsSilent => text.terms = NoDeadline
      BY DEF ErrorsSilent, FailedTexts, Blank
    <3>2. NoDeadline \notin Deadlines
      BY ConversionAssumption
    <3>3. QED
      BY <2>2, <3>1, <3>2 DEF EventOf, DeadlineOf, DateIn, Warned, Stage, Owned
  <2>3. QED
    BY <1>2, <2>1, <2>2
<1>4. OwnCatalog'
  BY <1>1, <1>2, <1>3 DEF OwnCatalog, Owned
<1>5. QED
  BY <1>1, <1>2, <1>3, <1>4, FoundOwn

LEMMA RequestOwn ==
    ASSUME LedgerInv, FreshInv, OwnInv, Passes, NEW s \in Sessions,
           \/ Ask(s) \/ ReadBaseline(s) \/ Inspect(s) \/ Post(s) \/ Disconnect(s)
           \/ Offer(s) \/ Refuse(s) \/ Submit(s) \/ Answer(s) \/ Confirm(s) \/ Store(s)
    PROVE  OwnInv'
<1>1. UNCHANGED <<catalog, page, pageSince>>
  BY DEF Ask, ReadBaseline, Inspect, Post, Disconnect, Offer, Refuse, Submit, Answer, Confirm, Store,
         caches, issuer
<1>2. CASE ReadBaseline(s)
  <2>1. PICK rate : SetCall(s, [at |-> "inspect", req |-> call[s].req, event |-> call[s].event,
                                baseline |-> rate, now |-> clock])
    BY <1>2 DEF ReadBaseline
  <2>2. QED
    BY <1>1, <1>2, <2>1, SameEvent DEF ReadBaseline, At
<1>3. CASE Inspect(s)
  <2>1. PICK seen, funded :
           SetCall(s, [at |-> "quote", req |-> call[s].req, event |-> call[s].event,
                       baseline |-> call[s].baseline, now |-> call[s].now,
                       seen |-> seen, funded |-> funded])
    BY <1>3 DEF Inspect
  <2>2. QED
    BY <1>1, <1>3, <2>1, SameEvent DEF Inspect, At
<1>4. ASSUME NEW c, SetCall(s, c), c.at \in Beyond \union {"none", "lookup"} PROVE OwnInv'
  BY <1>1, <1>4, SameEvent DEF Beyond
<1>5. CASE Ask(s)
  <2>1. PICK amount : SetCall(s, [at |-> "lookup", req |-> Assembly(connected[s], amount)])
    BY <1>5 DEF Ask
  <2>2. QED
    BY <1>4, <2>1
<1>6. CASE Post(s)
  <2>1. CASE UNCHANGED call
    BY <1>1, <2>1, OwnCallStays, OwnCatalogStays DEF OwnInv
  <2>2. CASE \E req : SetCall(s, [at |-> "lookup", req |-> req])
    BY <1>4, <2>2
  <2>3. QED
    BY <1>6, <2>1, <2>2 DEF Post
<1>7. CASE Offer(s) \/ Refuse(s) \/ Submit(s) \/ Answer(s) \/ Confirm(s) \/ Store(s)
  <2>1. \/ SetCall(s, NoCall)
        \/ \E at \in Beyond : SetCall(s, [at |-> at, req |-> call[s].req])
    BY <1>7 DEF Offer, Refuse, Submit, Answer, Confirm, Store, Beyond
  <2>2. CASE SetCall(s, NoCall)
    <3>1. NoCall.at \in Beyond \union {"none", "lookup"}
      BY DEF NoCall
    <3>2. QED
      BY <1>4, <2>2, <3>1
  <2>3. CASE \E at \in Beyond : SetCall(s, [at |-> at, req |-> call[s].req])
    BY <1>4, <2>3
  <2>4. QED
    BY <2>1, <2>2, <2>3
<1>8. CASE Disconnect(s)
  <2>1. CASE UNCHANGED call
    BY <1>1, <2>1, OwnCallStays, OwnCatalogStays DEF OwnInv
  <2>2. CASE SetCall(s, NoCall)
    <3>1. NoCall.at = "none"
      BY DEF NoCall
    <3>2. QED
      BY <1>4, <2>2, <3>1
  <2>3. QED
    BY <1>8, <2>1, <2>2 DEF Disconnect
<1>9. QED
  BY <1>2, <1>3, <1>5, <1>6, <1>7, <1>8

LEMMA OwnNext ==
    LedgerInv /\ FreshInv /\ OwnInv /\ feedRow = NoRow /\ [Next]_vars => OwnInv'
<1>1. SUFFICES ASSUME LedgerInv, FreshInv, OwnInv, feedRow = NoRow, [Next]_vars PROVE OwnInv'
  OBVIOUS
<1>2. Passes
  BY <1>1, TimePasses DEF FreshInv
<1>3. ASSUME NEW s \in Sessions,
             \/ Ask(s) \/ LookUp(s) \/ FetchPage(s) \/ ReadBaseline(s) \/ Inspect(s) \/ Post(s)
             \/ Offer(s) \/ Refuse(s) \/ Submit(s) \/ Answer(s) \/ Confirm(s) \/ Store(s)
             \/ Disconnect(s)
      PROVE  OwnInv'
  BY <1>1, <1>2, <1>3, LookUpOwn, FetchPageOwn, RequestOwn
<1>4. CASE Restart
  BY <1>4 DEF Restart, OwnInv, OwnCatalog, OwnCall, NoCall
<1>5. CASE UNCHANGED <<catalog, call>>
  BY <1>1, <1>2, <1>5, OwnCallStays, OwnCatalogStays DEF OwnInv
<1>6. ASSUME NEW s \in Sessions,
             Sign(s) \/ Decline(s) \/ Broadcast(s) \/ Land(s) \/ Fall(s) \/ SwitchWallet(s)
      PROVE  UNCHANGED <<catalog, call>>
  BY <1>6 DEF Sign, Decline, Broadcast, Land, Fall, SwitchWallet, caches
<1>7. CASE RefreshFeed \/ IssuerWrites \/ IssuerActs \/ Tick \/ UNCHANGED vars
  BY <1>5, <1>7 DEF RefreshFeed, IssuerWrites, IssuerActs, Tick, vars, caches
<1>8. QED
  BY <1>1, <1>3, <1>4, <1>5, <1>6, <1>7 DEF Next

(* The rows of feed_snapshots are the one way to an outdated deadline: as long
   as there is none, whatever was signed from a page that was read was signed
   under the date it had stated since the catalog could have been built.  And
   they and the text of an error are the only two ways to a signature without
   the page: if no error warns of an expiry either, everything submitted was
   signed from a page that was read (prestocks-catalog.ts). *)
THEOREM HeededWithoutFeed ==
    Spec /\ [](feedRow = NoRow) => DeadlineHeeded /\ (ErrorsSilent => SourceRequired)
<1> DEFINE Timely(s) == Submits(s) =>
               LET signed == tx[s].snapshot.event
               IN  (signed.read /\ signed.deadline # DateIn(page.terms))
                      => pageSince > call[s].req.began - CatalogLife
           Sourced(s) == Submits(s) => tx[s].snapshot.event.read
<1>1. LedgerInv /\ FreshInv /\ OwnInv /\ [Next]_vars =>
         /\ [\A s \in Sessions : Timely(s)]_vars
         /\ ErrorsSilent => [\A s \in Sessions : Sourced(s)]_vars
  <2>1. SUFFICES ASSUME LedgerInv, FreshInv, OwnInv, [Next]_vars, NEW s \in Sessions, Submits(s)
                 PROVE  Timely(s) /\ (ErrorsSilent => Sourced(s))
    OBVIOUS
  <2>2. Submit(s) /\ tx[s].snapshot = Snapshot(call[s])
    BY <2>1, SubmitsOnlySo
  <2>3. /\ call[s].at = "quote"
        /\ call[s].event.stage = "CONVERSION_WINDOW"
        /\ tx[s].snapshot.event = call[s].event
    BY <2>2 DEF Submit, At, Allowed, Snapshot
  <2>4. /\ call[s].req.began \in Nat /\ pageSince \in Nat
        /\ Owned(call[s].event, call[s].req.began - CatalogLife + 1)
    BY <2>1, <2>3 DEF FreshInv, Dated, Fresh, Gated, OwnInv, OwnCall
  <2>5. Timely(s)
    BY <2>3, <2>4, ConversionAssumption DEF Owned
  <2>6. ErrorsSilent => Sourced(s)
    BY <2>3, <2>4 DEF Owned
  <2>7. QED
    BY <2>5, <2>6
<1>2. CASE ErrorsSilent
  BY <1>1, <1>2, LedgerInit, LedgerNext, FreshInit, FreshNext, OwnInit, OwnNext, PTL
     DEF Spec, SourceRequired, DeadlineHeeded
<1>3. CASE ~ErrorsSilent
  BY <1>1, <1>3, LedgerInit, LedgerNext, FreshInit, FreshNext, OwnInit, OwnNext, PTL
     DEF Spec, DeadlineHeeded
<1>4. QED
  BY <1>2, <1>3

-----------------------------------------------------------------------------
(* That the conversions implement the ledger.  A holder hears once, a paper
   moves as its transaction does, and all else is hidden from the ledger: the
   answers to a browser that is gone too. *)

Papers == [s \in Sessions |-> PaperOf(s)]
Heard  == [s \in Sessions |-> ToldOf(s)]

(* A step of one session is a step of its paper and of what was heard of it. *)
LEMMA OneSeen ==
    ASSUME NEW s \in Sessions, Only(s)
    PROVE  /\ Papers' = [Papers EXCEPT ![s] = PaperOf(s)']
           /\ Heard' = [Heard EXCEPT ![s] = ToldOf(s)']
<1>1. ASSUME NEW u \in Sessions \ {s} PROVE PaperOf(u)' = PaperOf(u) /\ ToldOf(u)' = ToldOf(u)
  BY DEF Only, PaperOf, ToldOf
<1>2. QED
  BY <1>1 DEF Papers, Heard

LEMMA HiddenStep ==
    ASSUME NEW s \in Sessions, Only(s), PaperOf(s)' = PaperOf(s), ToldOf(s)' = ToldOf(s),
           UNCHANGED <<balance, receipts>>
    PROVE  UNCHANGED Ledger!ledger
<1>1. Papers' = Papers /\ Heard' = Heard
  BY OneSeen DEF Papers, Heard
<1>2. QED
  BY <1>1 DEF Ledger!ledger, Papers, Heard

LEMMA Unseen ==
    ASSUME UNCHANGED <<tx, console, balance, receipts>> PROVE UNCHANGED Ledger!ledger
BY DEF Ledger!ledger, PaperOf, ToldOf

(* The holder is told something for the first time. *)
LEMMA SaysStep ==
    ASSUME LedgerInv, NEW s \in Sessions, NEW outcome, Tell(s, outcome),
           console[s].at # "told", SetCall(s, NoCall) \/ UNCHANGED call, UNCHANGED <<tx, balance>>
    PROVE  /\ Ledger!Says(s, outcome)
           /\ Papers' = Papers
           /\ Heard[s] = "nothing" /\ Heard' = [Heard EXCEPT ![s] = outcome]
<1>1. Only(s) /\ console'[s] = [at |-> "told", outcome |-> outcome]
  BY DEF Tell, SetCall, LedgerInv, Shaped, Only
<1>2. PaperOf(s)' = PaperOf(s) /\ ToldOf(s) = "nothing" /\ ToldOf(s)' = outcome
  BY <1>1 DEF PaperOf, ToldOf
<1>3. Papers' = Papers /\ Heard[s] = "nothing" /\ Heard' = [Heard EXCEPT ![s] = outcome]
  BY <1>1, <1>2, OneSeen DEF Papers, Heard
<1>4. QED
  BY <1>3 DEF Ledger!Says, Heard

LEMMA HandedInSeen ==
    ASSUME NEW s \in Sessions
    PROVE  Ledger!HandedIn(s) <=> tx[s].status \notin {"unsigned", "signed"}
BY DEF Ledger!HandedIn, PaperOf

(* The gate and the holder refuse what is not handed in. *)
LEMMA RefusedStep ==
    ASSUME LedgerInv, NEW s \in Sessions, Tell(s, "refused"), console[s].at # "told",
           tx[s].status \in {"unsigned", "signed"},
           SetCall(s, NoCall) \/ UNCHANGED call, UNCHANGED <<tx, balance, receipts>>
    PROVE  Ledger!LedgerNext
<1>1. Ledger!Says(s, "refused") /\ Papers' = Papers
  BY SaysStep
<1>2. Ledger!Refuse(s)
  BY <1>1, HandedInSeen DEF Ledger!Refuse, Papers
<1>3. QED
  BY <1>2 DEF Ledger!LedgerNext

LEMMA ErrorStep ==
    ASSUME LedgerInv, NEW s \in Sessions, Tell(s, "error"), console[s].at # "told",
           SetCall(s, NoCall) \/ UNCHANGED call, UNCHANGED <<tx, balance, receipts>>
    PROVE  Ledger!LedgerNext
<1>1. /\ Papers' = Papers
      /\ Heard[s] = "nothing" /\ Heard' = [Heard EXCEPT ![s] = "error"]
  BY SaysStep
<1>2. Heard' = [u \in Sessions |-> IF u \in {s} THEN "error" ELSE Heard[u]]
  BY <1>1 DEF Heard
<1>3. Ledger!Break({s})
  BY <1>1, <1>2 DEF Ledger!Break, Papers, Heard
<1>4. QED
  BY <1>3 DEF Ledger!LedgerNext

LEMMA ErrorReply ==
    ASSUME LedgerInv, NEW s \in Sessions, Reply(s, "error"), SetCall(s, NoCall),
           UNCHANGED <<tx, balance, receipts>>
    PROVE  [Ledger!LedgerNext]_(Ledger!ledger)
<1>1. CASE Waits(s)
  BY <1>1, ErrorStep DEF Reply, Waits
<1>2. CASE ~Waits(s)
  BY <1>2, Unseen DEF Reply
<1>3. QED
  BY <1>1, <1>2

LEMMA FoundKeeps ==
    ASSUME LedgerInv, NEW s \in Sessions, NEW row, NEW event, Found(s, row, event),
           UNCHANGED <<tx, balance, receipts>>
    PROVE  [Ledger!LedgerNext]_(Ledger!ledger)
<1>1. CASE event = NoAsset
  BY <1>1, ErrorReply DEF Found
<1>2. CASE event # NoAsset
  BY <1>2, Unseen DEF Found
<1>3. QED
  BY <1>1, <1>2

(* Requests on their way to the holder's signature. *)
LEMMA GateKeeps ==
    ASSUME LedgerInv, NEW s \in Sessions,
           \/ Ask(s) \/ LookUp(s) \/ FetchPage(s) \/ ReadBaseline(s) \/ Inspect(s)
           \/ Offer(s) \/ Refuse(s) \/ Decline(s)
    PROVE  [Ledger!LedgerNext]_(Ledger!ledger)
<1>1. UNCHANGED <<tx, balance, receipts>> /\ Shaped /\ Sound(s)
  BY DEF Ask, LookUp, FetchPage, ReadBaseline, Inspect, Offer, Refuse, Decline, chain, LedgerInv
<1>2. CASE Ask(s) \/ (Offer(s) /\ Waits(s))
  <2>1. Only(s) /\ console[s].at # "told" /\ console'[s].at # "told"
    BY <1>1, <1>2 DEF Ask, Offer, Waits, SetCall, Shaped, Only
  <2>2. QED
    BY <1>1, <2>1, HiddenStep DEF PaperOf, ToldOf
<1>3. CASE LookUp(s)
  <2>1. \/ \E row : Found(s, row, catalog.event)
        \/ UNCHANGED console
    BY <1>3 DEF LookUp
  <2>2. QED
    BY <1>1, <2>1, FoundKeeps, Unseen
<1>4. CASE FetchPage(s)
  <2>1. PICK event : Found(s, call[s].row, event)
    BY <1>4 DEF FetchPage
  <2>2. QED
    BY <1>1, <2>1, FoundKeeps
<1>5. CASE ReadBaseline(s) \/ Inspect(s) \/ ((Offer(s) \/ Refuse(s)) /\ ~Waits(s))
  <2>1. UNCHANGED console
    BY <1>5 DEF ReadBaseline, Inspect, Offer, Refuse, Reply
  <2>2. QED
    BY <1>1, <2>1, Unseen
<1>6. CASE Refuse(s) /\ Waits(s)
  <2>1. tx[s].status \in {"unsigned", "signed"} /\ console[s].at # "told"
    BY <1>1, <1>6 DEF Refuse, At, Waits, Sound, Working, Beyond
  <2>2. QED
    BY <1>1, <1>6, <2>1, RefusedStep DEF Refuse, Reply
<1>7. CASE Decline(s)
  BY <1>1, <1>7, RefusedStep DEF Decline, Sound
<1>8. QED
  BY <1>2, <1>3, <1>4, <1>5, <1>6, <1>7

(* What was offered is what is entered. *)
LEMMA SignKeeps ==
    ASSUME LedgerInv, TypeInv, NEW s \in Sessions, Sign(s)
    PROVE  Ledger!LedgerNext
<1> DEFINE wallet == console[s].snapshot.taker
           amount == console[s].snapshot.amount
<1>1. /\ Only(s) /\ UNCHANGED <<balance, receipts>>
      /\ tx'[s].status = "signed" /\ tx'[s].snapshot = console[s].snapshot
      /\ console[s].at = "signing" /\ console'[s].at = "signed"
      /\ tx[s].status = "unsigned"
  BY DEF Sign, chain, LedgerInv, Shaped, Sound, Only
<1>2. wallet \in Wallets /\ amount \in Amounts
  BY <1>1 DEF TypeInv, HolderTyped, Signable, Snapshots
<1>3. /\ PaperOf(s) = Ledger!Blank
      /\ PaperOf(s)' = [fate |-> "signed", taker |-> wallet, amount |-> amount]
      /\ ToldOf(s) = "nothing" /\ ToldOf(s)' = "nothing"
  BY <1>1 DEF PaperOf, ToldOf, Ledger!Blank
<1> HIDE DEF wallet, amount
<1>4. /\ Papers[s] = Ledger!Blank /\ Heard[s] = "nothing" /\ Heard' = Heard
      /\ Papers' = [Papers EXCEPT ![s] = [fate |-> "signed", taker |-> wallet, amount |-> amount]]
  BY <1>1, <1>3, OneSeen DEF Papers, Heard
<1>5. Ledger!Enter(s, wallet, amount)
  BY <1>1, <1>4 DEF Ledger!Enter, Papers, Heard
<1>6. QED
  BY <1>2, <1>5 DEF Ledger!LedgerNext

(* A transaction moves on, and its paper with it. *)
LEMMA Befalls ==
    ASSUME LedgerInv, NEW s \in Sessions, tx[s].status # "unsigned",
           NEW status \in {"submitted", "landed", "failed", "dropped"},
           tx' = [tx EXCEPT ![s].status = status], UNCHANGED console,
           UNCHANGED call \/ \E c : SetCall(s, c)
    PROVE  /\ Papers' = [Papers EXCEPT ![s].fate = status]
           /\ Heard' = Heard
           /\ Papers[s].taker = tx[s].snapshot.taker
           /\ Papers[s].amount = tx[s].snapshot.amount
           /\ Papers[s].fate = IF tx[s].status = "sent" THEN "submitted" ELSE tx[s].status
<1>1. DOMAIN tx[s] = TxFields /\ Shaped
  BY DEF LedgerInv, Shaped
<1>2. /\ Only(s)
      /\ tx'[s].status = status /\ tx'[s].snapshot = tx[s].snapshot
  BY <1>1 DEF SetCall, Shaped, Only, TxFields
<1>3. PaperOf(s)' = [PaperOf(s) EXCEPT !.fate = status] /\ ToldOf(s)' = ToldOf(s)
  BY <1>2 DEF PaperOf, ToldOf
<1>4. Papers' = [Papers EXCEPT ![s].fate = status] /\ Heard' = Heard
  BY <1>2, <1>3, OneSeen DEF Papers, Heard
<1>5. QED
  BY <1>4 DEF Papers, PaperOf

LEMMA SubmitKeeps ==
    ASSUME LedgerInv, NEW s \in Sessions, Submit(s)
    PROVE  Ledger!LedgerNext
<1>1. (Waits(s) \/ Erred(s)) /\ tx[s].status = "signed"
  BY DEF Submit, At, LedgerInv, Sound, Working, Beyond
<1>2. /\ Papers' = [Papers EXCEPT ![s].fate = "submitted"] /\ Heard' = Heard
      /\ Papers[s].fate = "signed" /\ UNCHANGED <<balance, receipts>>
  BY <1>1, Befalls DEF Submit, chain
<1>3. Heard[s] \in {"nothing", "error"}
  BY <1>1 DEF Waits, Erred, Heard, ToldOf
<1>4. Ledger!HandIn(s)
  BY <1>2, <1>3 DEF Ledger!HandIn, Ledger!Open, Ledger!Befalls, Papers, Heard
<1>5. QED
  BY <1>4 DEF Ledger!LedgerNext

(* The chain takes from the wallet that signed, and no more than it has. *)
LEMMA ChainKeeps ==
    ASSUME LedgerInv, NEW s \in Sessions, Broadcast(s) \/ Land(s) \/ Fall(s)
    PROVE  [Ledger!LedgerNext]_(Ledger!ledger)
<1>1. UNCHANGED <<call, console, receipts>> /\ Shaped
  BY DEF Broadcast, Land, Fall, LedgerInv
<1>2. CASE Broadcast(s)
  <2>1. DOMAIN tx[s] = TxFields /\ tx[s].status = "submitted"
    BY <1>1, <1>2 DEF Broadcast, Shaped
  <2>2. /\ Only(s) /\ UNCHANGED balance
        /\ tx'[s].status = "sent" /\ tx'[s].snapshot = tx[s].snapshot
    BY <1>1, <1>2, <2>1 DEF Broadcast, chain, Shaped, Only, TxFields
  <2>3. QED
    BY <1>1, <2>1, <2>2, HiddenStep DEF PaperOf, ToldOf
<1>3. CASE Land(s)
  <2>1. /\ Papers' = [Papers EXCEPT ![s].fate = "landed"] /\ Heard' = Heard
        /\ Papers[s].fate = "submitted"
        /\ Papers[s].taker = tx[s].snapshot.taker /\ Papers[s].amount = tx[s].snapshot.amount
    BY <1>1, <1>3, Befalls DEF Land
  <2>2. /\ balance[Papers[s].taker] >= Papers[s].amount
        /\ balance' = [balance EXCEPT ![Papers[s].taker] = @ - Papers[s].amount]
    BY <1>3, <2>1 DEF Land
  <2>3. Ledger!Execute(s)
    BY <1>1, <2>1, <2>2 DEF Ledger!Execute, Ledger!Befalls, Papers, Heard
  <2>4. QED
    BY <2>3 DEF Ledger!LedgerNext
<1>4. CASE Fall(s)
  <2>1. PICK status \in {"failed", "dropped"} : tx' = [tx EXCEPT ![s].status = status]
    BY <1>4 DEF Fall
  <2>2. /\ Papers' = [Papers EXCEPT ![s].fate = status] /\ Heard' = Heard
        /\ Papers[s].fate = "submitted" /\ UNCHANGED balance
    BY <1>1, <1>4, <2>1, Befalls DEF Fall, chain
  <2>3. Ledger!Befalls(s, "submitted", status)
    BY <2>2 DEF Ledger!Befalls, Papers
  <2>4. Ledger!Lapse(s)
    BY <1>1, <2>2, <2>3 DEF Ledger!Lapse, Heard
  <2>5. QED
    BY <2>4 DEF Ledger!LedgerNext
<1>5. QED
  BY <1>2, <1>3, <1>4

(* The receipt is of what landed; the holder hears of it, or has heard of an
   error. *)
LEMMA StoreKeeps ==
    ASSUME LedgerInv, NEW s \in Sessions, Store(s)
    PROVE  [Ledger!LedgerNext]_(Ledger!ledger)
<1>1. /\ UNCHANGED <<tx, balance>> /\ SetCall(s, NoCall)
      /\ tx[s].status = "landed" /\ \A r \in receipts : r.sig # s
      /\ call[s].req.taker = tx[s].snapshot.taker
      /\ call[s].req.amount = tx[s].snapshot.amount
      /\ Waits(s) \/ Erred(s)
  BY DEF Store, At, chain, LedgerInv, Sound, Working, Gated
<1>2. CASE Reply(s, "error") /\ UNCHANGED receipts
  BY <1>1, <1>2, ErrorReply
<1>3. CASE /\ Reply(s, "settled")
           /\ receipts' = receipts \union
                {[sig |-> s, taker |-> call[s].req.taker, amount |-> call[s].req.amount]}
  <2>1. /\ Papers' = Papers
        /\ \/ Ledger!Says(s, "settled") /\ Heard[s] = "nothing"
           \/ Heard[s] = "error" /\ Heard' = Heard
    <3>1. CASE Waits(s)
      BY <1>1, <1>3, <3>1, SaysStep DEF Reply, Waits
    <3>2. CASE ~Waits(s)
      BY <1>1, <1>3, <3>2 DEF Reply, Erred, Papers, Heard, PaperOf, ToldOf
    <3>3. QED
      BY <3>1, <3>2
  <2>2. /\ Papers[s].fate = "landed"
        /\ Papers[s].taker = call[s].req.taker /\ Papers[s].amount = call[s].req.amount
    BY <1>1 DEF Papers, PaperOf
  <2>3. Ledger!Settle(s)
    BY <1>1, <1>3, <2>1, <2>2 DEF Ledger!Settle, Ledger!Open, Papers, Heard
  <2>4. QED
    BY <2>3 DEF Ledger!LedgerNext
<1>4. QED
  BY <1>2, <1>3 DEF Store

(* A post, a connection that breaks, and what is told after Jupiter: that it
   was handed in, or an error. *)
LEMMA LaterKeeps ==
    ASSUME LedgerInv, NEW s \in Sessions, Post(s) \/ Disconnect(s) \/ Answer(s) \/ Confirm(s)
    PROVE  [Ledger!LedgerNext]_(Ledger!ledger)
<1>1. UNCHANGED <<tx, balance, receipts>> /\ Shaped /\ Sound(s)
  BY DEF Post, Disconnect, Answer, Confirm, chain, LedgerInv
<1>2. CASE Tell(s, "error") /\ (SetCall(s, NoCall) \/ UNCHANGED call) /\ console[s].at # "told"
  BY <1>1, <1>2, ErrorStep
<1>3. CASE Reply(s, "error") /\ SetCall(s, NoCall)
  BY <1>1, <1>3, ErrorReply
<1>4. CASE UNCHANGED console
  BY <1>1, <1>4, Unseen
<1>5. CASE Post(s) /\ console' = [console EXCEPT ![s] = [at |-> "posted"]]
  <2>1. Only(s) /\ console[s].at # "told" /\ console'[s].at # "told"
    BY <1>1, <1>5 DEF Post, SetCall, Shaped, Only, Tell
  <2>2. QED
    BY <1>1, <2>1, HiddenStep DEF PaperOf, ToldOf
<1>6. CASE Confirm(s) /\ SetCall(s, NoCall) /\ Reply(s, "submitted") /\ Waits(s)
  <2>1. console[s].at # "told" /\ tx[s].status \notin {"unsigned", "signed"}
    BY <1>1, <1>6 DEF Confirm, At, Waits, Sound, Working, Gated
  <2>2. Ledger!Says(s, "submitted") /\ Papers' = Papers
    BY <1>1, <1>6, <2>1, SaysStep DEF Reply
  <2>3. Ledger!Defer(s)
    BY <1>1, <2>1, <2>2, HandedInSeen DEF Ledger!Defer, Papers
  <2>4. QED
    BY <2>3 DEF Ledger!LedgerNext
<1>7. CASE Post(s)
  BY <1>2, <1>5, <1>7 DEF Post
<1>8. CASE Disconnect(s)
  BY <1>2, <1>8 DEF Disconnect, Waits
<1>9. CASE Answer(s)
  BY <1>3, <1>4, <1>9 DEF Answer
<1>10. CASE Confirm(s)
  BY <1>3, <1>4, <1>6, <1>10 DEF Confirm, Reply
<1>11. QED
  BY <1>7, <1>8, <1>9, <1>10

(* A restart breaks every conversion whose holder waits. *)
LEMMA RestartKeeps == ASSUME LedgerInv, Restart PROVE Ledger!LedgerNext
<1> DEFINE S == {s \in Sessions : Waits(s)}
<1>1. ASSUME NEW s \in S PROVE Heard[s] = "nothing"
  BY DEF Waits, Heard, ToldOf
<1>2. ASSUME NEW s \in Sessions
      PROVE  PaperOf(s)' = PaperOf(s) /\ ToldOf(s)' = IF s \in S THEN "error" ELSE ToldOf(s)
  BY DEF Restart, PaperOf, ToldOf
<1> HIDE DEF S
<1>3. Papers' = Papers /\ Heard' = [s \in Sessions |-> IF s \in S THEN "error" ELSE Heard[s]]
  BY <1>2 DEF Papers, Heard
<1>4. Ledger!Break(S)
  BY <1>1, <1>3 DEF Ledger!Break, Papers, Heard, Restart, chain
<1>5. S \in SUBSET Sessions
  BY DEF S
<1>6. QED
  BY <1>4, <1>5 DEF Ledger!LedgerNext

LEMMA StepKeepsLedger ==
    LedgerInv /\ TypeInv /\ [Next]_vars => [Ledger!LedgerNext]_(Ledger!ledger)
<1>1. SUFFICES ASSUME LedgerInv, TypeInv, [Next]_vars
               PROVE  [Ledger!LedgerNext]_(Ledger!ledger)
  OBVIOUS
<1>2. CASE UNCHANGED <<tx, console, balance, receipts>>
  BY <1>2, Unseen
<1>3. ASSUME NEW s \in Sessions,
             \/ Ask(s) \/ LookUp(s) \/ FetchPage(s) \/ ReadBaseline(s) \/ Inspect(s)
             \/ Offer(s) \/ Refuse(s) \/ Sign(s) \/ Decline(s) \/ Post(s) \/ Disconnect(s)
             \/ Submit(s) \/ Answer(s) \/ Confirm(s) \/ Store(s)
             \/ Broadcast(s) \/ Land(s) \/ Fall(s)
      PROVE  [Ledger!LedgerNext]_(Ledger!ledger)
  BY <1>1, <1>3, GateKeeps, SignKeeps, SubmitKeeps, ChainKeeps, LaterKeeps, StoreKeeps
<1>4. CASE Restart
  BY <1>1, <1>4, RestartKeeps
<1>5. CASE \/ \E s \in Sessions : SwitchWallet(s)
           \/ RefreshFeed \/ IssuerWrites \/ IssuerActs \/ Tick \/ UNCHANGED vars
  <2>1. UNCHANGED <<tx, console, balance, receipts>>
    BY <1>5 DEF SwitchWallet, RefreshFeed, IssuerWrites, IssuerActs, Tick, vars, chain
  <2>2. QED
    BY <1>2, <2>1
<1>6. QED
  BY <1>1, <1>3, <1>4, <1>5 DEF Next

(* The conversions implement the ledger: whatever the caches, the gate,
   Jupiter, restarts and broken connections do, a paper is handed in at most
   once, and never once it was refused; it takes its amount at most once from
   the wallet that signed it; and its holder hears once, and truly, an error
   leaving all of it open (executable.ts: executeSignedConversion;
   backendSource.ts: requestConversion; api.ts: apiPost). *)
THEOREM ConversionKeepsLedger == Spec => KeepsLedger
<1>1. Init => Ledger!LedgerInit
  BY DEF Init, Unsigned, PaperOf, ToldOf, Ledger!LedgerInit, Ledger!Blank
<1>2. QED
  BY <1>1, LedgerInit, LedgerNext, FreshInit, FreshNext, TypeInit, TypeNext, StepKeepsLedger, PTL
     DEF Spec, KeepsLedger, Ledger!LedgerSpec

=============================================================================
