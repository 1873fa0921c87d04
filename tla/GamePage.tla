------------------------------ MODULE GamePage ------------------------------
(***************************************************************************)
(* The game page (public/app.js): it follows the game by polling, lets the *)
(* player reveal or take his unmatched stake back, and forgets the secret  *)
(* when the game is over.  Answers are read by the server in one step and  *)
(* arrive in another; only the answer to the last request sent counts      *)
(* (createLatestRequestGate).                                              *)
(***************************************************************************)
EXTENDS PlayedMatch, FiniteSets, Naturals

CONSTANTS
    Handlers,       \* reveal buttons that may be pressed at the same time
    MaxRequests     \* status requests in flight at once

ASSUME GamePageAssumption == MaxRequests \in Nat

VARIABLES
    view,           \* the page: what it shows and the variables behind it
    requests,       \* status requests in flight
    reveal,         \* the step of each pressed reveal button, or "idle"
    refund          \* the step of the creator's refund, or "idle"

gameVars == <<view, requests, reveal, refund>>

\* `shown` is what is painted, `signature` what was painted last as far as the
\* next refresh knows (window.__gameStatus), None when it is to paint anyway.
Closed == [open |-> FALSE, shown |-> "loading", signature |-> None, inFlight |-> FALSE,
           polling |-> FALSE, running |-> FALSE, at |-> 0]

NoReveal == [h \in Handlers |-> "idle"]

GameInit ==
    /\ view = Closed /\ requests = {}
    /\ reveal = NoReveal /\ refund = "idle"

\* How far the game is.
Progress == [none |-> 0, open |-> 1, joined |-> 2, rival |-> 3, mine |-> 4, over |-> 5, gone |-> 6]

-----------------------------------------------------------------------------
(***************************************************************************)
(* refreshGame                                                             *)
(***************************************************************************)
\* gate.next: whatever was still on its way is stale; only the interval's
\* requests leave a trace when they end.  The mutant lets them count.
StillCurrent(R) == {r \in R : r.by = "tick"}
Stale(R) == {[r EXCEPT !.current = FALSE, !.answer = None] : r \in StillCurrent(R)}
Ask(by) == Stale(requests) \cup {[by |-> by, current |-> TRUE, answer |-> None]}

\* stopGameRefresh
Quiet(v) == [v EXCEPT !.polling = FALSE, !.running = FALSE]

\* The tick that sent r is over, whichever interval it belonged to; the first
\* request of the page starts the interval (scheduleGameRefresh).
Done(r, v) ==
    IF r.by = "tick" THEN [v EXCEPT !.running = FALSE]
    ELSE IF r.by = "first" THEN [v EXCEPT !.polling = TRUE, !.running = FALSE, !.signature = None]
    ELSE v

\* A reveal in flight owns the screen until the game is over.  The mutant
\* repaints.
NotSuppressed(g) == FALSE
Suppressed(g) == view.inFlight /\ g # "over"

\* renderGame
OpenPage ==
    /\ route = "game"
    /\ ~view.open
    /\ view' = [Closed EXCEPT !.open = TRUE]
    /\ requests' = Ask("first")
    /\ UNCHANGED <<serverVars, secretVars, reveal, refund>>

\* The interval, every 3.5 seconds; a clock on the page that reaches zero asks
\* too.
PollTick ==
    /\ view.polling /\ ~view.running
    /\ Cardinality(requests) < MaxRequests
    /\ view' = [view EXCEPT !.running = TRUE]
    /\ requests' = Ask("tick")
    /\ UNCHANGED <<serverVars, secretVars, reveal, refund>>

ServerReads(r) ==
    /\ r \in requests /\ r.current /\ r.answer = None
    /\ requests' = (requests \ {r}) \cup {[r EXCEPT !.answer = game]}
    /\ UNCHANGED <<serverVars, secretVars, view, reveal, refund>>

\* An answer that is not to be painted: suppressed, or no news.
IsIgnored(r) == r.answer # "gone" /\ (Suppressed(r.answer) \/ view.signature = r.answer)

Ignore(r) ==
    /\ r \in requests /\ r.answer # None
    /\ IsIgnored(r)
    /\ view' = Done(r, view)
    /\ requests' = requests \ {r}
    /\ UNCHANGED <<serverVars, secretVars, reveal, refund>>

\* paintGame.  A game that is over stops the polling - until the first request
\* of the page starts it - and its secret is forgotten.  The mutant forgets it
\* with the player's own reveal.
EndsSecretAtReveal(g) == g \in {"mine", "over"}
EndsSecret(g) == g = "over"

Paint(r) ==
    LET painted == [view EXCEPT !.signature = r.answer, !.shown = r.answer, !.at = Progress[r.answer]] IN
    /\ r \in requests /\ r.answer \notin {None, "gone"}
    /\ ~IsIgnored(r)
    /\ view' = Done(r, IF r.answer = "over" THEN Quiet(painted) ELSE painted)
    /\ requests' = IF r.answer = "over" THEN Stale(requests \ {r}) ELSE requests \ {r}
    /\ IF EndsSecret(r.answer) /\ link # None THEN Forget ELSE UNCHANGED secretVars
    /\ UNCHANGED <<serverVars, reveal, refund>>

\* renderGameEnded: the game is served no longer, and not asked for again.
PaintEnded(r) ==
    /\ r \in requests /\ r.answer = "gone"
    /\ view' = [Quiet(view) EXCEPT !.shown = "ended", !.at = Progress["gone"]]
    /\ requests' = Stale(requests \ {r})
    /\ UNCHANGED <<serverVars, secretVars, reveal, refund>>

\* A request fails, or comes back stale: the next tick tries again, but a page
\* that fails to open shows an error and stays there.
RequestFails(r) ==
    /\ r \in requests /\ r.answer = None
    /\ view' = IF r.by = "first" THEN [view EXCEPT !.shown = "error"] ELSE Done(r, view)
    /\ requests' = requests \ {r}
    /\ UNCHANGED <<serverVars, secretVars, reveal, refund>>

-----------------------------------------------------------------------------
(***************************************************************************)
(* Revealing                                                               *)
(***************************************************************************)
\* The button is on the screen while it is the player's turn: gameStage of a
\* player who has not revealed in a game that can be revealed.
RevealOffered == committed # None /\ view.shown \in {"joined", "rival"}

PressReveal(h) ==
    /\ reveal[h] = "idle" /\ RevealOffered
    /\ reveal' = [reveal EXCEPT ![h] = "prepare"]
    /\ view' = [view EXCEPT !.inFlight = TRUE, !.shown = "revealing"]
    /\ UNCHANGED <<serverVars, secretVars, requests, refund>>

At(h, step) == reveal' = [reveal EXCEPT ![h] = step]

\* The number is read and the reveal prepared for it, with retries while the
\* chain is not ready; then the wallet is asked to sign.
PrepareReveal(h) ==
    /\ reveal[h] = "prepare"
    /\ SecretForGame # None
    /\ At(h, IF game \in {"joined", "rival"} THEN "submit" ELSE "failed")
    /\ UNCHANGED <<serverVars, secretVars, view, requests, refund>>

\* "This browser does not have the unrevealed number for this game"
SecretMissing(h) ==
    /\ reveal[h] = "prepare"
    /\ SecretForGame = None
    /\ At(h, "failed")
    /\ UNCHANGED <<serverVars, secretVars, view, requests, refund>>

SubmitReveal(h) ==
    /\ reveal[h] = "submit"
    /\ RevealLands
    /\ \E step \in {"sent", "failed"} : At(h, step)
    /\ UNCHANGED <<secretVars, view, requests, refund>>

\* By the player's wallet or the server.
RevealRefused(h) ==
    /\ reveal[h] = "submit"
    /\ At(h, "failed")
    /\ UNCHANGED <<serverVars, secretVars, view, requests, refund>>

\* The end of the handler: the screen is the poller's again, and is refreshed;
\* after a failure (renderRevealFailure) it is painted whatever it was before.
\* The mutant trusts the signature.
SignatureKept(h) == view.signature
SignatureAfter(h) == IF reveal[h] = "sent" THEN view.signature ELSE None

EndReveal(h) ==
    /\ reveal[h] \in {"sent", "failed"}
    /\ At(h, "idle")
    /\ view' = [view EXCEPT !.inFlight = FALSE, !.signature = SignatureAfter(h)]
    /\ requests' = Ask("reveal")
    /\ UNCHANGED <<serverVars, secretVars, refund>>

-----------------------------------------------------------------------------
(***************************************************************************)
(* Taking back an unmatched stake: the exit link                           *)
(***************************************************************************)
PressExit ==
    /\ committed # None /\ role = "creator"
    /\ view.shown = "open" /\ refund = "idle"
    /\ refund' = "asked"
    /\ UNCHANGED <<serverVars, secretVars, view, requests, reveal>>

\* creator_refund: the escrow goes back while nobody joined.  The page goes
\* home - unless the answer is lost - and its copy of the secret stays.
RefundLands ==
    /\ refund = "asked" /\ game = "open"
    /\ game' = "over"
    /\ seat' = IF seat \in {"started", "left"} THEN "gone" ELSE seat
    /\ \E step \in {"done", "asked"} : refund' = step
    /\ UNCHANGED <<mode, role, committed, secretVars, view, requests, reveal>>

\* renderSafetyFailure: the screen is painted anew.
RefundFails ==
    /\ refund = "asked"
    /\ refund' = "idle"
    /\ view' = [view EXCEPT !.signature = None]
    /\ requests' = Ask("refund")
    /\ UNCHANGED <<serverVars, secretVars, reveal>>

GameStep ==
    \/ OpenPage \/ PollTick
    \/ \E r \in requests :
          ServerReads(r) \/ Ignore(r) \/ Paint(r) \/ PaintEnded(r) \/ RequestFails(r)
    \/ \E h \in Handlers :
          PressReveal(h) \/ PrepareReveal(h) \/ SecretMissing(h)
             \/ SubmitReveal(h) \/ RevealRefused(h) \/ EndReveal(h)
    \/ PressExit \/ RefundLands \/ RefundFails
=============================================================================
