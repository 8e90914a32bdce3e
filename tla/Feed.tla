-------------------------------- MODULE Feed --------------------------------
(***************************************************************************)
(* The feed of SPACEX (apps/api/src/feed.ts): every refresh notes the time *)
(* and then fetches the issuer's page, its metrics and the mint together,  *)
(* without a timeout, and stores a row once all three have answered.       *)
(* GET /v1/feed answers with the row of the latest date, called stale when *)
(* the date is old, and refreshes when there is no row or the read fails;  *)
(* /v1/feed/refresh, and the API when it starts, refresh at once.  Nothing *)
(* keeps refreshes from overlapping.                                       *)
(*                                                                         *)
(* The keeper halts by the date of the same row (loop.ts: latestFeed), so  *)
(* what matters of it is what its date says about its contents.  Only the  *)
(* row of the latest date is ever read, and only it is kept.               *)
(***************************************************************************)
EXTENDS Integers

CONSTANTS
    Calls,       \* refreshes and requests that may be under way
    Deadlines,   \* deadlines the page may state
    Unstated,    \* the page states none, or was not had
    NoSnapshot,  \* no row in feed_snapshots, or the read failed
    FeedLife,    \* FEED_STALE_MS
    LastTime     \* bound of the clock

ASSUME FeedAssumption ==
    /\ Unstated \notin Deadlines
    /\ NoSnapshot \notin [deadline : Deadlines \union {Unstated}, state : STRING, date : Nat]
    /\ FeedLife \in Nat
    /\ LastTime \in Nat

VARIABLES
    time,      \* the clock
    stating,   \* the deadline on the page, or Unstated
    snapshot,  \* the row of feed_snapshots with the latest date: a Record
    call,      \* call[c]: where the request is and what it knows
    lastly     \* history: lastly[d]: when the page last stated d, or Never

feedVars == <<time, stating, snapshot, call, lastly>>

Free == [at |-> "free"]

\* Too long ago for any answer.
Never == -FeedLife - 1

(* The page states nothing yet; the issuer may edit it at once. *)
FeedInit ==
    /\ time = 0
    /\ stating = Unstated
    /\ snapshot = NoSnapshot
    /\ call = [c \in Calls |-> Free]
    /\ lastly = [d \in Deadlines |-> Never]

Moves(c, state) == call' = [call EXCEPT ![c] = state]

Tell(c, row) == Moves(c, [at |-> "told", deadline |-> row.deadline, state |-> row.state])

World == <<time, stating, lastly>>

-----------------------------------------------------------------------------
(* refreshFeed. *)

DateWhenDone(began) == time  \* mutant: dated when the answers are there

DateOf(began) == began

Record(deadline, state, date) == [deadline |-> deadline, state |-> state, date |-> date]

(* A page that answers with an error is parsed like any other, but its
   deadline is not taken for verified. *)
UnlessMissing(deadline, ok) == deadline # Unstated  \* mutant: pageRes.ok not looked at

IsVerified(deadline, ok) == ok /\ deadline # Unstated

Refresh(c) == Moves(c, [at |-> "fetch", since |-> time])

(* The page answers, while the metrics or the mint may not have. *)
PageAnswers(c) ==
    /\ call[c].at = "fetch"
    /\ \E ok \in BOOLEAN, deadline \in Deadlines \union {Unstated} :
         /\ ok => deadline = stating
         /\ Moves(c, [at |-> "rest", since |-> call[c].since,
                      deadline |-> deadline, ok |-> ok])
    /\ UNCHANGED <<World, snapshot>>

(* The rest has answered, and the row is inserted and returned as it is. *)
Stores(c) ==
    /\ call[c].at = "rest"
    /\ LET verified == IsVerified(call[c].deadline, call[c].ok)
           row == Record(call[c].deadline, IF verified THEN "verified" ELSE "unverified",
                         DateOf(call[c].since))
       IN  /\ \/ snapshot = NoSnapshot /\ snapshot' = row
              \/ snapshot # NoSnapshot /\ row.date >= snapshot.date /\ snapshot' = row
              \/ snapshot # NoSnapshot /\ row.date <= snapshot.date /\ UNCHANGED snapshot
           /\ Tell(c, row)
    /\ UNCHANGED World

(* Metrics with an error status, metrics that do not parse, a mint that is
   missing, any of the three not reached, or the insert failing. *)
RefreshThrows(c) ==
    /\ call[c].at \in {"fetch", "rest"}
    /\ Moves(c, Free)
    /\ UNCHANGED <<World, snapshot>>

-----------------------------------------------------------------------------
(* The requests. *)

AskToRefresh(c) ==
    /\ call[c].at = "free"
    /\ Refresh(c)
    /\ UNCHANGED <<World, snapshot>>

NeverStale(row) == row  \* mutant: the age not looked at

LatestFeed(row) ==
    IF time - row.date > FeedLife THEN [row EXCEPT !.state = "stale"] ELSE row

(* latestFeed may fail, and then there is no row. *)
AskForFeed(c) ==
    /\ call[c].at = "free"
    /\ \/ /\ snapshot # NoSnapshot
          /\ Tell(c, LatestFeed(snapshot))
       \/ Refresh(c)
    /\ UNCHANGED <<World, snapshot>>

Answered(c) ==
    /\ call[c].at = "told"
    /\ Moves(c, Free)
    /\ UNCHANGED <<World, snapshot>>

(* The API restarts; its first refresh is a request like any other. *)
ApiRestarts ==
    /\ call' = [c \in Calls |-> Free]
    /\ UNCHANGED <<World, snapshot>>

IssuerEdits ==
    /\ stating' \in (Deadlines \union {Unstated}) \ {stating}
    /\ lastly' = [d \in Deadlines |-> IF d = stating' THEN time ELSE lastly[d]]
    /\ UNCHANGED <<time, snapshot, call>>

Passes ==
    /\ time < LastTime
    /\ time' = time + 1
    /\ lastly' = [d \in Deadlines |-> IF d = stating THEN time + 1 ELSE lastly[d]]
    /\ UNCHANGED <<stating, snapshot, call>>

FeedNext ==
    \/ \E c \in Calls :
         \/ AskToRefresh(c) \/ AskForFeed(c)
         \/ PageAnswers(c) \/ Stores(c) \/ RefreshThrows(c) \/ Answered(c)
    \/ ApiRestarts \/ IssuerEdits \/ Passes

FeedSpec == FeedInit /\ [][FeedNext]_feedVars

-----------------------------------------------------------------------------
(* Properties. *)

(* What a request is told is a verified deadline the issuer's page did state
   within FEED_STALE_MS of the answer or, where the refresh itself took
   longer, since the request began: however slowly the page, the metrics and
   the mint answered, and whichever refresh ended last. *)
FeedIsDated ==
    [][ \A c \in Calls :
          (call'[c] # call[c] /\ call'[c].at = "told" /\ call'[c].state = "verified") =>
              \/ lastly[call'[c].deadline] >= time - FeedLife
              \/ call[c].at = "rest" /\ lastly[call'[c].deadline] >= call[c].since ]_feedVars

=============================================================================
