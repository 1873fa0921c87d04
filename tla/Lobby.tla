------------------------------- MODULE Lobby -------------------------------
(***************************************************************************)
(* The lobby page (public/lobby-controller.js): connect, wait for an       *)
(* opponent, pick a number, then create or join the game.                  *)
(*                                                                         *)
(* A request is answered by the server in one step and its answer arrives  *)
(* in a later one, so that answers may overtake each other; a request may  *)
(* also fail.  What the page shows and remembers is the record `page`; it  *)
(* is gone when the tab is.  `match` in it is the page's copy of `seat`;   *)
(* `misled` is not in the code: it says that an answer overtaken by a      *)
(* newer one was taken for the truth.                                      *)
(***************************************************************************)
EXTENDS PlayedMatch, FiniteSets, Naturals

CONSTANTS
    Modes,          \* how the player may have come: of "public", "host", "guest"
    MaxAttempts,    \* runs of startCreation or startJoin at the same time
    MaxPolls,       \* requests for the match in flight at once
    MaxFaults       \* reloads of the page, and lost answers to a submission

ASSUME LobbyAssumption ==
    /\ Modes \subseteq {"public", "host", "guest"}
    /\ MaxAttempts \in Nat /\ MaxPolls \in Nat /\ MaxFaults \in Nat

Attempts == 1..MaxAttempts

VARIABLES
    page,           \* the lobby controller's variables
    polls,          \* status requests in flight
    call,           \* the bot offer in flight: "none", "sent", "claimed", "refused"
    flow,           \* for each attempt, the step it is at, or "idle", and the
                    \* number it is going to draw a secret for
    faults          \* how many of the bounded events happened

lobbyVars == <<page, polls, call, flow>>

Entry == [phase |-> "entry", match |-> "none", busy |-> FALSE, started |-> FALSE,
          picking |-> FALSE, number |-> None, offer |-> FALSE, polling |-> FALSE, running |-> FALSE,
          misled |-> FALSE]

NoAttempt == [a \in Attempts |-> [step |-> "idle", number |-> None]]

LobbyInit ==
    /\ mode \in Modes
    /\ seat = "none" /\ role = None /\ game = "none" /\ committed = None
    /\ route = "lobby"
    /\ page = Entry /\ polls = {} /\ call = "none" /\ flow = NoAttempt
    /\ faults = 0

-----------------------------------------------------------------------------
(***************************************************************************)
(* Showing a match                                                         *)
(***************************************************************************)
\* resolveMatchView.  A search that waits has one player.
View(m) ==
    IF m = "waiting" THEN "finding"
    ELSE IF m \in {"cancelled", "left"} THEN "abandoned"
    ELSE IF m = "started" /\ role = "creator" THEN "reopen"
    ELSE "play"

\* shouldRerenderMatch: who is picking is disturbed only when the opponent is
\* gone (or, by a late answer, not there yet).
Rerender(old, new, picking) ==
    \/ new \in {"waiting", "cancelled", "left"}
    \/ ~picking /\ old # new

PhaseOf(view) ==
    IF view = "finding" THEN "waiting" ELSE IF view = "abandoned" THEN "abandoned" ELSE "pick"

\* transitionForMatch, but for the navigation of a match to reopen.
Stopped(p) == [p EXCEPT !.polling = FALSE, !.running = FALSE]
Shown(p) ==
    LET view == View(p.match)
        q == [p EXCEPT !.picking = (view = "play"), !.phase = PhaseOf(view),
                       !.offer = (@ /\ view = "finding")]
    IN IF view \in {"abandoned", "reopen"} THEN Stopped(q) ELSE q

\* The page becomes p, with the requests Q in flight.
Continue(p, Q) ==
    /\ page' = p
    /\ polls' = Q
    /\ UNCHANGED <<route, call, flow>>

\* navigate: what the page knew is gone.
ToGame ==
    /\ route' = "game"
    /\ page' = Entry /\ polls' = {} /\ call' = "none" /\ flow' = NoAttempt

\* A status request sent now; `tick` when the interval sent it.
Poll(tick) == [current |-> TRUE, tick |-> tick, old |-> page.match, answer |-> None]

\* poller.start and the extra refreshMatch next to it: two requests at once.
Polling(p) == [p EXCEPT !.polling = TRUE, !.running = TRUE]
Restarted(match) == {[Poll(TRUE) EXCEPT !.old = match], [Poll(FALSE) EXCEPT !.old = match]}

\* enterMatch with the match m.
Enter(m) ==
    LET p == Shown([page EXCEPT !.match = m, !.busy = FALSE]) IN
    IF View(m) = "reopen" THEN ToGame
    ELSE Continue(Polling(p), polls \cup Restarted(m))

-----------------------------------------------------------------------------
(***************************************************************************)
(* Getting a match                                                         *)
(***************************************************************************)
\* begin: one attempt at a time.
Connect ==
    /\ route = "lobby" /\ page.phase = "entry" /\ ~page.busy
    /\ page' = [page EXCEPT !.busy = TRUE]
    /\ UNCHANGED <<serverVars, secretVars, route, polls, call, flow, faults>>

\* The wallet is connected and the server gives the player a match: a search
\* waits or is paired, a room waits, a guest completes one.
GetsMatch ==
    /\ page.busy /\ call = "none" /\ seat = "none"
    /\ seat' \in CASE mode = "public" -> {"waiting", "matched"}
                   [] mode = "host"   -> {"waiting"}
                   [] mode = "guest"  -> {"matched"}
    /\ role' \in IF seat' = "waiting" THEN {None} ELSE RolesOf(mode)
    /\ Enter(seat')
    /\ UNCHANGED <<mode, game, committed, secretVars, faults>>

\* resume of a host, or a guest who follows his link again: the seat is as it
\* was.  A guest is refused once the match is no longer live.
Returns ==
    /\ page.busy /\ call = "none" /\ seat \notin {"none", "gone"}
    /\ mode = "host" \/ (mode = "guest" /\ seat = "matched")
    /\ Enter(seat)
    /\ UNCHANGED <<serverVars, secretVars, faults>>

\* The wallet or the server says no: handleLobbyError.
ConnectFails ==
    /\ page.busy /\ call = "none"
    /\ page' = [page EXCEPT !.busy = FALSE, !.phase = "error"]
    /\ UNCHANGED <<serverVars, secretVars, route, polls, call, flow, faults>>

\* retry, offered when the search itself failed; the poller and the match of
\* the page are left as they are.  A new public search retires the old match
\* and is a new behaviour: it is followed only as long as there was no match.
Retry ==
    /\ route = "lobby" /\ page.phase = "error"
    /\ mode = "public" => seat = "none"
    /\ page' = [page EXCEPT !.phase = "entry", !.picking = FALSE, !.offer = FALSE]
    /\ UNCHANGED <<serverVars, secretVars, route, polls, call, flow, faults>>

-----------------------------------------------------------------------------
(***************************************************************************)
(* Polling the match                                                       *)
(***************************************************************************)
\* The interval: one request of its own at a time, none once the player pressed
\* Play.
Tick ==
    /\ route = "lobby" /\ page.polling /\ ~page.running /\ ~page.started
    /\ page.match # "none"
    /\ Cardinality(polls) < MaxPolls
    /\ page' = [page EXCEPT !.running = TRUE]
    /\ polls' = polls \cup {Poll(TRUE)}
    /\ UNCHANGED <<serverVars, secretVars, route, call, flow, faults>>

\* status: the server reads the match.
Answer(p) ==
    /\ p \in polls /\ p.answer = None /\ p.current
    /\ polls' = (polls \ {p}) \cup {[p EXCEPT !.answer = seat]}
    /\ UNCHANGED <<serverVars, secretVars, route, page, call, flow, faults>>

\* An answer read before the newest one the page took.
Order == [none |-> 0, waiting |-> 1, matched |-> 2, started |-> 3, left |-> 4, cancelled |-> 4, gone |-> 5]

\* The tick of p is over, whichever interval it belonged to.  The mutant
\* forgets to say so when the answer brings no news.
EndedLoudly(p) == IF p.tick /\ p.answer # page.match THEN [page EXCEPT !.running = FALSE] ELSE page
Ended(p) == IF p.tick THEN [page EXCEPT !.running = FALSE] ELSE page

\* botOfferReady: after five seconds of a public search that still waits.
Offering(p) == {[p EXCEPT !.offer = o] : o \in {FALSE, mode = "public" /\ p.phase = "waiting"}}

\* refreshMatch, once the answer is there.  Whether the player has pressed
\* Play since is not asked again.
Arrives(p) ==
    /\ p \in polls /\ p.answer \notin {None, "gone"} /\ p.current
    /\ LET q == [Ended(p) EXCEPT !.match = p.answer, !.misled = @ \/ Order[p.answer] < Order[page.match]]
       IN
       IF ~Rerender(p.old, p.answer, page.picking)
       THEN Continue([q EXCEPT !.offer = FALSE], polls \ {p})
       ELSE IF View(p.answer) = "reopen" THEN ToGame
       ELSE \E shown \in Offering(Shown(q)) : Continue(shown, polls \ {p})
    /\ UNCHANGED <<serverVars, secretVars, faults>>

\* The match is gone: its game ended, and the player had no part in it.
ArrivesGone(p) ==
    /\ p \in polls /\ p.answer = "gone" /\ p.current
    /\ page' = [Stopped(page) EXCEPT
                   !.phase = IF page.match \in {"started", "left"} THEN "abandoned" ELSE "dead"]
    /\ polls' = polls \ {p}
    /\ UNCHANGED <<serverVars, secretVars, route, call, flow, faults>>

\* A failed request, or one superseded by a bot offer, changes nothing.
Vanishes(p) ==
    /\ p \in polls
    /\ p.answer = None \/ ~p.current
    /\ page' = Ended(p)
    /\ polls' = polls \ {p}
    /\ UNCHANGED <<serverVars, secretVars, route, call, flow, faults>>

-----------------------------------------------------------------------------
(***************************************************************************)
(* The bot                                                                 *)
(***************************************************************************)
\* offerBot, before its request: the polls in flight are superseded, and only
\* the interval's leave a trace.
Superseded ==
    {[p EXCEPT !.current = FALSE, !.answer = None, !.old = "none"] : p \in {q \in polls : q.tick}}

OfferBot ==
    /\ page.offer /\ page.phase = "waiting" /\ ~page.busy
    /\ page' = [page EXCEPT !.busy = TRUE]
    /\ polls' = Superseded
    /\ call' = "sent"
    /\ UNCHANGED <<serverVars, secretVars, route, flow, faults>>

\* The server gives the bot the second seat of a search that still waits, or
\* refuses: it is busy, or the match is another by now.
BotIsCalled ==
    /\ call = "sent"
    /\ \/ /\ seat = "waiting"
          /\ seat' = "matched" /\ role' = "creator" /\ call' = "claimed"
       \/ call' = "refused" /\ UNCHANGED <<seat, role>>
    /\ UNCHANGED <<mode, game, committed, secretVars, route, page, polls, flow, faults>>

BotAnswers ==
    /\ \/ /\ call = "claimed"
          /\ page' = Polling(Shown([page EXCEPT !.match = "matched", !.busy = FALSE, !.offer = FALSE]))
          /\ polls' = polls \cup Restarted("matched")
       \/ /\ call = "refused"
          /\ page' = [page EXCEPT !.busy = FALSE, !.offer = FALSE]
          /\ UNCHANGED polls
    /\ call' = "none"
    /\ UNCHANGED <<serverVars, secretVars, route, flow, faults>>

\* The answer is lost: an error page, behind which the poller goes on.
BotCallFails ==
    /\ call # "none"
    /\ call' = "none"
    /\ page' = [page EXCEPT !.busy = FALSE, !.phase = "error"]
    /\ UNCHANGED <<serverVars, secretVars, route, polls, flow, faults>>

-----------------------------------------------------------------------------
(***************************************************************************)
(* Play: lock the number                                                   *)
(***************************************************************************)
Operation == IF role = "creator" THEN "creation" ELSE "join"

\* Attempt a goes on with `step`, and is to draw a secret for the number c; the
\* joiner looks the number up once the game has an id.  A new attempt gets the
\* first name that is free.
Goes(a, step, c) == flow' = [flow EXCEPT ![a] = [step |-> step, number |-> c]]
Begins(a, c) ==
    /\ flow[a].step = "idle" /\ \A b \in Attempts : b < a => flow[b].step # "idle"
    /\ IF role = "creator" /\ page.match # "waiting" THEN Goes(a, "draw", c) ELSE Goes(a, "await", None)

\* play, on the screen with the numbers.  A late answer, or that of the bot, may
\* bring this screen back while a number is being locked; nothing keeps the
\* player from pressing Play again then.
Play(a, c) ==
    /\ page.phase = "pick" /\ page.picking
    /\ page' = [Stopped(page) EXCEPT !.started = TRUE, !.number = c, !.phase = "locking"]
    /\ Begins(a, c)
    /\ UNCHANGED <<serverVars, secretVars, route, polls, call, faults>>

\* retryStart: the number of the last Play again.
RetryStart(a) ==
    /\ page.phase = "failed"
    /\ page' = [page EXCEPT !.started = TRUE, !.phase = "locking"]
    /\ Begins(a, page.number)
    /\ UNCHANGED <<serverVars, secretVars, route, polls, call, faults>>

\* handleStartError, whatever step failed; the poller stays stopped.
Stops(a, phase) ==
    /\ page' = [page EXCEPT !.started = FALSE, !.phase = phase]
    /\ Goes(a, "idle", None)

AttemptFails(a) ==
    /\ flow[a].step \in {"await", "draw", "prepare", "submit", "refused"}
    /\ Stops(a, "failed")
    /\ UNCHANGED <<serverVars, secretVars, route, polls, call, faults>>

\* waitForMatchGameId: the joiner asks until the game has an id.  A creator
\* whose page forgot its role over a late answer waits here in vain.
AwaitGame(a) ==
    /\ flow[a].step = "await"
    /\ \/ /\ page.match \in {"started", "left"} /\ role = "joiner"
          /\ Goes(a, "draw", page.number)
          /\ UNCHANGED page
       \/ /\ page.match \in {"waiting", "cancelled"} \/ (page.match = "matched" /\ seat = "gone")
          /\ Stops(a, "abandoned")
       \/ /\ page.match = "matched" /\ seat \notin {"matched", "gone"}
          /\ page' = [page EXCEPT !.match = seat]
          /\ UNCHANGED flow
    /\ UNCHANGED <<serverVars, secretVars, route, polls, call, faults>>

\* createRevealSecret; the joiner knows the game and links it at once.  With
\* another number than an earlier attempt it is refused: AttemptFails.
\* The mutant leaves the link to the end, as the creator has to.
LinksNever(r) == FALSE
LinksFirst(r) == r = "joiner"

DrawSecret(a) ==
    /\ flow[a].step = "draw"
    /\ MayDraw(Operation, flow[a].number)
    /\ Draw(Operation, flow[a].number)
    /\ IF LinksFirst(role) THEN Bind("join") ELSE UNCHANGED link
    /\ Goes(a, "prepare", None)
    /\ UNCHANGED <<serverVars, route, page, polls, call, faults>>

\* The server prepares the transaction the page's copy of the match asks for,
\* and the page verifies it and asks the wallet to sign.  That the opponent left
\* a match whose game exists does not matter (#validateMatchJoin).
Prepare(a) ==
    /\ flow[a].step = "prepare"
    /\ IF role = "creator"
       THEN seat = "matched" /\ page.match # "waiting"
       ELSE seat \in {"started", "left"} /\ game = "open"
    /\ Goes(a, "submit", None)
    /\ UNCHANGED <<serverVars, secretVars, route, page, polls, call, faults>>

\* The match or the game was cancelled: GAME_CANCELLED.
PrepareRefused(a) ==
    /\ flow[a].step = "prepare" /\ role = "joiner" /\ game \in {"over", "gone"}
    /\ Stops(a, "abandoned")
    /\ UNCHANGED <<serverVars, secretVars, route, polls, call, faults>>

\* The server takes the signed transaction.  A creation whose match ended
\* meanwhile is on the network all the same, and refused to the page.  A second
\* one is refused too: AttemptFails; the stake in it is not followed.
Submit(a) ==
    /\ flow[a].step = "submit"
    /\ IF role = "creator" THEN CreationLands(drafts[Operation]) ELSE JoinLands(drafts[Operation])
    /\ Goes(a, IF role = "joiner" \/ seat' = "started" THEN "accepted" ELSE "refused", None)
    /\ UNCHANGED <<secretVars, route, page, polls, call, faults>>

\* The creator's page links the game it is told about; both go to the game.
Started(a) ==
    /\ flow[a].step = "accepted"
    /\ Bind(Operation)
    /\ ToGame
    /\ UNCHANGED <<serverVars, drafts, faults>>

\* The answer to the submission is lost.
StartIsLost(a) ==
    /\ flow[a].step \in {"accepted", "refused"}
    /\ faults < MaxFaults
    /\ faults' = faults + 1
    /\ Stops(a, "failed")
    /\ UNCHANGED <<serverVars, secretVars, route, polls, call>>

-----------------------------------------------------------------------------
(***************************************************************************)
(* Leaving                                                                 *)
(***************************************************************************)
\* leave: the cancel button of the screen that waits, also when a late answer
\* painted it over an attempt.
Leave ==
    /\ route = "lobby" /\ page.phase = "waiting"
    /\ seat' = IF seat \in {"waiting", "matched"} THEN "cancelled" ELSE seat
    /\ route' = "home"
    /\ page' = Entry /\ polls' = {} /\ call' = "none" /\ flow' = NoAttempt
    /\ UNCHANGED <<mode, role, game, committed, secretVars, faults>>

\* The tab is closed or reloaded.  The address of a room leads back to it,
\* that of a search does not.
ReloadLobby ==
    /\ route = "lobby" /\ seat # "none"
    /\ faults < MaxFaults
    /\ faults' = faults + 1
    /\ route' = IF mode = "public" THEN "home" ELSE "lobby"
    /\ page' = Entry /\ polls' = {} /\ call' = "none" /\ flow' = NoAttempt
    /\ UNCHANGED <<serverVars, secretVars>>

LobbyStep ==
    \/ Connect \/ GetsMatch \/ Returns \/ ConnectFails \/ Retry
    \/ Tick
    \/ \E p \in polls : Answer(p) \/ Arrives(p) \/ ArrivesGone(p) \/ Vanishes(p)
    \/ OfferBot \/ BotIsCalled \/ BotAnswers \/ BotCallFails
    \/ \E a \in Attempts :
          \/ \E c \in Choices : Play(a, c)
          \/ RetryStart(a) \/ AttemptFails(a) \/ AwaitGame(a) \/ DrawSecret(a)
          \/ Prepare(a) \/ PrepareRefused(a) \/ Submit(a) \/ Started(a) \/ StartIsLost(a)
    \/ Leave \/ ReloadLobby
=============================================================================
