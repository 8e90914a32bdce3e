-------------------------- MODULE ConversionLedger --------------------------
(***************************************************************************)
(* What conversions come to, without the API, its caches, its gate or the  *)
(* issuer.  A holder signs a paper for one amount of one wallet.  It is    *)
(* handed in at most once, takes that amount at most once, and has one     *)
(* receipt at most, of what was executed.  What the holder is told of it   *)
(* is told once: settled, only with the receipt; refused, only of a paper  *)
(* that is never handed in; submitted, only of one that was; error, of     *)
(* anything, and it may still be handed in, executed and receipted.        *)
(***************************************************************************)
EXTENDS Integers

CONSTANTS
    Sessions,  \* presses of the button
    Wallets,   \* the holders' addresses
    Amounts,   \* amounts they may sign for
    Supply     \* what each wallet holds

VARIABLES
    paper,   \* paper[s]: what was signed in s and its fate
    funds,   \* funds[w]: what wallet w has left to convert
    book,    \* the receipts
    told     \* told[s]: the outcome the holder knows, or "nothing"

ledger == <<paper, funds, book, told>>

Blank == [fate |-> "unsigned"]

LedgerInit ==
    /\ paper = [s \in Sessions |-> Blank]
    /\ funds = [w \in Wallets |-> Supply]
    /\ book = {}
    /\ told = [s \in Sessions |-> "nothing"]

Befalls(s, from, to) ==
    /\ paper[s].fate = from
    /\ paper' = [paper EXCEPT ![s].fate = to]

Enter(s, wallet, amount) ==
    /\ paper[s] = Blank
    /\ told[s] = "nothing"
    /\ paper' = [paper EXCEPT ![s] = [fate |-> "signed", taker |-> wallet, amount |-> amount]]
    /\ UNCHANGED <<funds, book, told>>

(* Nothing has been said of the paper, or nothing that settles its fate. *)
Open(s) == told[s] \in {"nothing", "error"}

(* What was refused never is. *)
HandIn(s) ==
    /\ Open(s)
    /\ Befalls(s, "signed", "submitted")
    /\ UNCHANGED <<funds, book, told>>

Execute(s) ==
    /\ Befalls(s, "submitted", "landed")
    /\ funds[paper[s].taker] >= paper[s].amount
    /\ funds' = [funds EXCEPT ![paper[s].taker] = @ - paper[s].amount]
    /\ UNCHANGED <<book, told>>

Lapse(s) ==
    /\ \E fate \in {"failed", "dropped"} : Befalls(s, "submitted", fate)
    /\ UNCHANGED <<funds, book, told>>

Says(s, outcome) ==
    /\ told[s] = "nothing"
    /\ told' = [told EXCEPT ![s] = outcome]

(* The holder is told, unless an error was told before. *)
Settle(s) ==
    /\ Open(s)
    /\ paper[s].fate = "landed"
    /\ \A r \in book : r.sig # s
    /\ book' = book \union {[sig |-> s, taker |-> paper[s].taker, amount |-> paper[s].amount]}
    /\ Says(s, "settled") \/ (told[s] = "error" /\ UNCHANGED told)
    /\ UNCHANGED <<paper, funds>>

HandedIn(s) == paper[s].fate \notin {"unsigned", "signed"}

Refuse(s) ==
    /\ ~HandedIn(s)
    /\ Says(s, "refused")
    /\ UNCHANGED <<paper, funds, book>>

Defer(s) ==
    /\ HandedIn(s)
    /\ Says(s, "submitted")
    /\ UNCHANGED <<paper, funds, book>>

(* One conversion, or all that are under way at once. *)
Break(S) ==
    /\ \A s \in S : told[s] = "nothing"
    /\ told' = [s \in Sessions |-> IF s \in S THEN "error" ELSE told[s]]
    /\ UNCHANGED <<paper, funds, book>>

LedgerNext ==
    \/ \E s \in Sessions :
          \/ \E wallet \in Wallets, amount \in Amounts : Enter(s, wallet, amount)
          \/ HandIn(s) \/ Execute(s) \/ Lapse(s)
          \/ Settle(s) \/ Refuse(s) \/ Defer(s)
    \/ \E S \in SUBSET Sessions : Break(S)

LedgerSpec == LedgerInit /\ [][LedgerNext]_ledger

=============================================================================
