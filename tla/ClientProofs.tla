---------------------------- MODULE ClientProofs ----------------------------
(***************************************************************************)
(* The number behind a stake is kept, the joiner can reveal, one reveal is *)
(* under way at a time and no screen goes back, for every number of        *)
(* requests in flight, reloads and reveal buttons.                         *)
(***************************************************************************)
EXTENDS Client, Integers, TLAPS

-----------------------------------------------------------------------------
(***************************************************************************)
(* The inductive invariant                                                 *)
(***************************************************************************)
Pages ==
    [phase : {"entry", "error", "dead", "waiting", "pick", "locking", "failed", "abandoned"},
     match : Seats, busy : BOOLEAN, started : BOOLEAN, picking : BOOLEAN,
     number : Choices \cup {None}, offer : BOOLEAN, polling : BOOLEAN, running : BOOLEAN,
     misled : BOOLEAN]
Requests == [current : BOOLEAN, tick : BOOLEAN, old : Seats, answer : Seats \cup {None}]
Views ==
    [open : BOOLEAN, shown : Games \cup {"loading", "revealing", "error", "ended"},
     signature : Games \cup {None}, inFlight : BOOLEAN, polling : BOOLEAN, running : BOOLEAN, at : 0..6]
Flows == [Attempts -> [step : Steps, number : Choices \cup {None}]]
GameRequests ==
    [by : {"tick", "first", "reveal", "refund"}, current : BOOLEAN, answer : Games \cup {None}]

\* A role comes with an opponent and stays; there is no game before a role,
\* and no stake before a game.
ServerOK ==
    /\ mode \in Modes /\ seat \in Seats /\ role \in {"creator", "joiner", None}
    /\ game \in Games /\ committed \in Choices \cup {None}
    /\ seat \in {"none", "waiting"} => role = None
    /\ seat \in {"none", "waiting", "matched"} => game = "none"
    /\ committed # None => role # None /\ game # "none"

\* A number is picked before a stake is locked, and nothing is being locked
\* on another page.
LobbyOK ==
    /\ route \in {"lobby", "game", "home"}
    /\ page \in Pages
    /\ polls \subseteq Requests
    /\ call \in {"none", "sent", "claimed", "refused"}
    /\ flow \in Flows
    /\ page.phase = "failed" => page.number \in Choices
    /\ \A a \in Attempts :
          /\ flow[a].step # "idle" => page.number \in Choices
          /\ flow[a].step = "draw" => flow[a].number \in Choices
          /\ flow[a].step \notin {"idle", "await"} => role # None
    /\ route # "lobby" => flow = NoAttempt

SecretsOK ==
    /\ drafts \in [Operations -> Choices \cup {None}]
    /\ link \in Operations \cup {None}

\* What is about to be committed to is kept, and linked if it can be.
Committing == \E a \in Attempts : flow[a].step \in {"prepare", "submit"}
DrawnOK ==
    Committing =>
        /\ drafts[Operation] # None
        /\ role = "joiner" => link = "join"

\* While a reveal is under way the button is not on the screen; a page that
\* was not opened has done nothing.
RevealOK ==
    /\ reveal \in [Handlers -> {"idle", "prepare", "submit", "sent", "failed"}]
    /\ \A h \in Handlers : reveal[h] # "idle" => view.inFlight /\ view.shown \notin {"joined", "rival"}
    /\ ~view.open => view = Closed /\ requests = {} /\ reveal = NoReveal /\ refund = "idle"

\* An answer is no older than the screen and no newer than the game; only the
\* newest request may still bring one.
ScreenOK ==
    /\ view \in Views
    /\ requests \subseteq GameRequests
    /\ view.at <= Progress[game]
    /\ \A r \in requests :
          r.answer # None => r.current /\ view.at <= Progress[r.answer] /\ Progress[r.answer] <= Progress[game]
    /\ \A r, s \in requests : r.current /\ s.current => r = s

IInv ==
    /\ ServerOK /\ LobbyOK /\ SecretsOK /\ DrawnOK /\ RevealOK /\ ScreenOK
    /\ SecretBehindStake /\ JoinerCanReveal /\ OneRevealAtATime

LEMMA InitInv == Init => IInv
<1> SUFFICES ASSUME Init PROVE IInv
  OBVIOUS
<1> USE DEF Init, LobbyInit, SecretsInit, GameInit
<1>1. ServerOK
  BY PlayerAssumption, LobbyAssumption DEF ServerOK, Seats, Games
<1>2. LobbyOK
  BY DEF LobbyOK, Pages, Entry, Seats, Flows, NoAttempt, Steps
<1>3. SecretsOK /\ DrawnOK
  BY DEF SecretsOK, DrawnOK, Committing, NoAttempt
<1>4. RevealOK /\ OneRevealAtATime
  BY DEF RevealOK, OneRevealAtATime, NoReveal, Closed
<1>5. ScreenOK
  BY DEF ScreenOK, Views, Closed, Progress
<1> QED
  BY <1>1, <1>2, <1>3, <1>4, <1>5 DEF IInv, SecretBehindStake, JoinerCanReveal, Staked

-----------------------------------------------------------------------------
(***************************************************************************)
(* The server                                                              *)
(***************************************************************************)
\* What the steps of the game and the others may do to it.
LEMMA OthersKeepServer == ServerOK /\ Others => ServerOK'
<1> SUFFICES ASSUME ServerOK, Others PROVE ServerOK'
  OBVIOUS
<1> USE PlayerAssumption DEF ServerOK, Seats, Games
<1>1. CASE OpponentArrives
  BY <1>1 DEF OpponentArrives, RolesOf
<1>2. CASE MatchEnds
  BY <1>2 DEF MatchEnds
<1>3. CASE OpponentPublishes
  BY <1>3 DEF OpponentPublishes
<1>4. CASE OpponentLeaves
  BY <1>4 DEF OpponentLeaves
<1>5. CASE RivalJoins
  BY <1>5 DEF RivalJoins
<1>6. CASE RivalReveals
  BY <1>6 DEF RivalReveals
<1>7. CASE GameEnds
  BY <1>7 DEF GameEnds, Playing
<1>8. CASE GameForgotten
  BY <1>8 DEF GameForgotten
<1> QED
  BY <1>1, <1>2, <1>3, <1>4, <1>5, <1>6, <1>7, <1>8 DEF Others

LEMMA LobbyKeepsServer == IInv /\ LobbyStep => ServerOK'
<1> SUFFICES ASSUME IInv, LobbyStep PROVE ServerOK'
  OBVIOUS
<1>1. CASE UNCHANGED serverVars
  BY <1>1 DEF IInv, ServerOK, serverVars
<1>2. CASE GetsMatch
  <2>1. mode \in {"public", "host", "guest"}
    BY LobbyAssumption DEF IInv, ServerOK
  <2>2. seat' \in {"waiting", "matched"}
    BY <1>2, <2>1 DEF GetsMatch
  <2>3. role' \in IF seat' = "waiting" THEN {None} ELSE {"creator", "joiner"}
    BY <1>2, <2>2 DEF GetsMatch, RolesOf
  <2> QED
    BY <1>2, <2>2, <2>3, PlayerAssumption DEF GetsMatch, IInv, ServerOK, Seats, Games
<1>3. CASE BotIsCalled
  BY <1>3, PlayerAssumption DEF BotIsCalled, IInv, ServerOK, Seats, Games
<1>4. ASSUME NEW a \in Attempts, Submit(a) PROVE ServerOK'
  <2>1. drafts[Operation] \in Choices /\ role # None
    BY <1>4 DEF Submit, IInv, DrawnOK, Committing, LobbyOK, SecretsOK, Operation, Operations
  <2> QED
    BY <1>4, <2>1, PlayerAssumption DEF Submit, CreationLands, JoinLands, IInv, ServerOK, Seats, Games
<1>5. CASE Leave
  BY <1>5, PlayerAssumption DEF Leave, IInv, ServerOK, Seats, Games
<1> QED
  BY <1>1, <1>2, <1>3, <1>4, <1>5 DEF LobbyStep, Connect, Returns, ConnectFails, Retry, Tick, Answer, Arrives,
     ArrivesGone, Vanishes, OfferBot, BotAnswers, BotCallFails, Play, RetryStart, AttemptFails, AwaitGame,
     DrawSecret, Prepare, PrepareRefused, Started, StartIsLost, ReloadLobby, serverVars

LEMMA GameKeepsServer == IInv /\ GameStep => ServerOK'
<1> SUFFICES ASSUME IInv, GameStep PROVE ServerOK'
  OBVIOUS
<1>1. CASE UNCHANGED serverVars
  BY <1>1 DEF IInv, ServerOK, serverVars
<1>2. ASSUME NEW h \in Handlers, SubmitReveal(h) PROVE ServerOK'
  BY <1>2, PlayerAssumption DEF SubmitReveal, RevealLands, IInv, ServerOK, Seats, Games
<1>3. CASE RefundLands
  BY <1>3, PlayerAssumption DEF RefundLands, IInv, ServerOK, Seats, Games
<1> QED
  BY <1>1, <1>2, <1>3 DEF GameStep, OpenPage, PollTick, ServerReads, Ignore, Paint, PaintEnded, RequestFails,
     PressReveal, PrepareReveal, SecretMissing, RevealRefused, EndReveal, PressExit, RefundFails, serverVars

LEMMA ServerKept == IInv /\ [Next]_vars => ServerOK'
<1> SUFFICES ASSUME IInv, [Next]_vars PROVE ServerOK'
  OBVIOUS
<1>1. CASE UNCHANGED serverVars
  BY <1>1 DEF IInv, ServerOK, serverVars
<1> QED
  BY <1>1, OthersKeepServer, LobbyKeepsServer, GameKeepsServer
     DEF Next, ReloadGame, GoHome, vars, IInv

-----------------------------------------------------------------------------
(***************************************************************************)
(* The lobby                                                               *)
(***************************************************************************)
\* Showing a match leaves the number alone and is no failed attempt.
LEMMA PageShown ==
    ASSUME NEW p \in Pages
    PROVE  /\ Shown(p) \in Pages
           /\ Shown(p).number = p.number
           /\ Shown(p).phase # "failed"
           /\ Stopped(p) \in Pages /\ Stopped(p).number = p.number /\ Stopped(p).phase = p.phase
           /\ Polling(p) \in Pages /\ Polling(p).number = p.number /\ Polling(p).phase = p.phase
<1> DEFINE view_ == View(p.match)
           q == [p EXCEPT !.picking = (view_ = "play"), !.phase = PhaseOf(view_),
                          !.offer = (@ /\ view_ = "finding")]
<1>1. PhaseOf(view_) \in {"waiting", "abandoned", "pick"}
  BY DEF PhaseOf
<1>2. q \in Pages /\ q.number = p.number /\ q.phase # "failed"
  <2> HIDE DEF view_
  <2>1. p.offer \in BOOLEAN /\ (p.offer /\ view_ = "finding") \in BOOLEAN /\ (view_ = "play") \in BOOLEAN
    BY DEF Pages
  <2> QED
    BY <1>1, <2>1 DEF Pages
<1> HIDE DEF q
<1>3. \A x \in Pages : /\ Stopped(x) \in Pages /\ Stopped(x).number = x.number /\ Stopped(x).phase = x.phase
                       /\ Polling(x) \in Pages /\ Polling(x).number = x.number /\ Polling(x).phase = x.phase
  BY DEF Stopped, Polling, Pages
<1>4. Shown(p) \in {q, Stopped(q)}
  BY DEF Shown, q, view_
<1> QED
  BY <1>2, <1>3, <1>4

\* An attempt takes a step, the others do not.
LEMMA GoesOn ==
    ASSUME flow \in Flows, NEW a \in Attempts, NEW step \in Steps, NEW c \in Choices \cup {None}, Goes(a, step, c)
    PROVE  /\ flow' \in Flows
           /\ flow'[a] = [step |-> step, number |-> c]
           /\ \A b \in Attempts : b # a => flow'[b] = flow[b]
  BY DEF Goes, Flows

LEMMA NoAttemptIdle == NoAttempt \in Flows /\ \A a \in Attempts : NoAttempt[a].step = "idle"
  BY DEF NoAttempt, Flows, Steps

LEMMA EntryPage == Entry \in Pages /\ Entry.phase # "failed"
  BY DEF Entry, Pages, Seats

LEMMA PollTyped ==
    ASSUME page \in Pages, NEW m \in Seats
    PROVE  Poll(TRUE) \in Requests /\ Restarted(m) \subseteq Requests
  BY DEF Poll, Restarted, Requests, Pages

\* What a step of the lobby has to show of the page and of the flow when it
\* starts nothing new.
Calm ==
    /\ page' \in Pages
    /\ polls' \subseteq Requests
    /\ call' \in {"none", "sent", "claimed", "refused"}
    /\ \/ /\ UNCHANGED <<route, flow>>
          /\ page'.number = page.number
          /\ page'.phase = "failed" => page.phase = "failed"
       \/ /\ UNCHANGED route
          /\ page'.number = page.number
          /\ \E a \in Attempts : flow[a].step # "idle" /\ Goes(a, "idle", None)
       \/ /\ route' \in {"game", "home", "lobby"}
          /\ flow' = NoAttempt
          /\ page'.phase # "failed"

LEMMA CalmKeeps == IInv /\ Calm /\ (role' = role \/ role = None) => LobbyOK'
<1> SUFFICES ASSUME IInv, Calm, role' = role \/ role = None PROVE LobbyOK'
  OBVIOUS
<1> USE PlayerAssumption DEF IInv, LobbyOK
<1>1. CASE UNCHANGED <<route, flow>> /\ page'.number = page.number /\ (page'.phase = "failed" => page.phase = "failed")
  BY <1>1 DEF Calm
<1>2. ASSUME UNCHANGED route, page'.number = page.number,
             NEW a \in Attempts, flow[a].step # "idle", Goes(a, "idle", None)
      PROVE  LobbyOK'
  <2>1. /\ flow' \in Flows /\ flow'[a] = [step |-> "idle", number |-> None]
        /\ \A b \in Attempts : b # a => flow'[b] = flow[b]
    <3> HIDE DEF Goes
    <3>1. "idle" \in Steps
      BY DEF Steps
    <3> QED
      BY <1>2, <3>1, GoesOn
  <2>2. page'.number \in Choices /\ route = "lobby"
    BY <1>2, NoAttemptIdle
  <2> QED
    BY <1>2, <2>1, <2>2 DEF Calm
<1>3. CASE route' \in {"game", "home", "lobby"} /\ flow' = NoAttempt /\ page'.phase # "failed"
  BY <1>3, NoAttemptIdle DEF Calm
<1> QED
  BY <1>1, <1>2, <1>3 DEF Calm

\* An attempt that begins or goes on.
LEMMA GoesKeeps ==
    ASSUME IInv, route = "lobby", UNCHANGED <<route, polls, call, role>>,
           NEW a \in Attempts, NEW step \in Steps, NEW c \in Choices \cup {None}, Goes(a, step, c),
           page' \in Pages, page'.number \in Choices,
           step = "draw" => c \in Choices, step \notin {"idle", "await"} => role # None
    PROVE  LobbyOK'
<1>1. flow' \in Flows /\ flow'[a] = [step |-> step, number |-> c] /\ \A b \in Attempts : b # a => flow'[b] = flow[b]
  BY GoesOn DEF IInv, LobbyOK
<1> QED
  BY <1>1 DEF IInv, LobbyOK

LEMMA ToGameIsCalm == ToGame => Calm
  BY EntryPage DEF ToGame, Calm

LEMMA ContinueIsCalm ==
    ASSUME NEW p \in Pages, NEW Q \in SUBSET Requests, IInv,
           Continue(p, Q), p.number = page.number, p.phase = "failed" => page.phase = "failed"
    PROVE  Calm
  BY DEF Continue, Calm, IInv, LobbyOK

LEMMA EnterIsCalm == ASSUME NEW m \in Seats, IInv, Enter(m) PROVE Calm
<1> DEFINE p == [page EXCEPT !.match = m, !.busy = FALSE]
<1>1. p \in Pages /\ p.number = page.number
  BY DEF Pages, IInv, LobbyOK
<1> HIDE DEF p
<1>2. CASE ToGame
  BY <1>2, ToGameIsCalm
<1>3. CASE Continue(Polling(Shown(p)), polls \cup Restarted(m))
  <2>1. polls \cup Restarted(m) \in SUBSET Requests
    BY PollTyped DEF IInv, LobbyOK
  <2>2. Shown(p) \in Pages /\ Shown(p).number = page.number /\ Shown(p).phase # "failed"
    BY <1>1, PageShown
  <2>3. Polling(Shown(p)) \in Pages /\ Polling(Shown(p)).number = page.number /\ Polling(Shown(p)).phase # "failed"
    BY <2>2, PageShown
  <2> QED
    BY <1>3, <2>1, <2>3, ContinueIsCalm
<1> QED
  BY <1>2, <1>3 DEF Enter, p

LEMMA ArrivesIsCalm == ASSUME IInv, NEW r \in polls, Arrives(r) PROVE Calm
<1> DEFINE q == [Ended(r) EXCEPT !.match = r.answer, !.misled = @ \/ Order[r.answer] < Order[page.match]]
<1>1. page \in Pages /\ r \in Requests /\ r.answer \in Seats /\ polls \ {r} \in SUBSET Requests
  BY DEF IInv, LobbyOK, Arrives, Requests
<1>2. Ended(r) \in Pages /\ Ended(r).number = page.number /\ Ended(r).phase = page.phase
  BY <1>1 DEF Ended, Pages
<1>3. q \in Pages /\ q.number = page.number /\ q.phase = page.phase
  <2> DEFINE b == Ended(r).misled \/ Order[r.answer] < Order[page.match]
  <2>1. b \in BOOLEAN
    BY <1>2 DEF Pages
  <2>2. q = [Ended(r) EXCEPT !.match = r.answer, !.misled = b]
    BY <1>2 DEF Pages
  <2> HIDE DEF b, q
  <2> QED
    BY <1>1, <1>2, <2>1, <2>2 DEF Pages
<1> HIDE DEF q
<1>4. Shown(q) \in Pages /\ Shown(q).number = page.number /\ Shown(q).phase # "failed"
  BY <1>3, PageShown
<1>5. CASE Continue([q EXCEPT !.offer = FALSE], polls \ {r})
  <2>1. [q EXCEPT !.offer = FALSE] \in Pages /\ [q EXCEPT !.offer = FALSE].number = page.number
           /\ [q EXCEPT !.offer = FALSE].phase = page.phase
    BY <1>3 DEF Pages
  <2> QED
    BY <1>1, <1>5, <2>1, ContinueIsCalm
<1>6. CASE ToGame
  BY <1>6, ToGameIsCalm
<1>7. ASSUME NEW shown \in Offering(Shown(q)), Continue(shown, polls \ {r}) PROVE Calm
  <2>1. shown \in Pages /\ shown.number = page.number /\ shown.phase # "failed"
    BY <1>4, <1>7 DEF Offering, Pages
  <2> QED
    BY <1>1, <1>7, <2>1, ContinueIsCalm
<1> QED
  BY <1>5, <1>6, <1>7 DEF Arrives, q

LEMMA CalmLobby ==
    ASSUME IInv, LobbyStep PROVE
        \/ Calm
        \/ \E a \in Attempts :
              \/ \E c \in Choices : Play(a, c)
              \/ RetryStart(a) \/ AwaitGame(a) \/ DrawSecret(a) \/ Prepare(a) \/ Submit(a)
<1> USE DEF IInv, LobbyOK
<1>1. CASE Connect
  <2>1. page' \in Pages /\ page'.number = page.number /\ page'.phase = page.phase
    BY <1>1 DEF Connect, Pages
  <2> QED
    BY <1>1, <2>1 DEF Connect, Calm
<1>2. CASE GetsMatch
  <2>1. seat' \in Seats /\ Enter(seat')
    BY <1>2, LobbyAssumption DEF GetsMatch, ServerOK, Seats
  <2> QED
    BY <2>1, EnterIsCalm
<1>3. CASE Returns
  BY <1>3, EnterIsCalm DEF Returns, ServerOK
<1>4. CASE ConnectFails
  <2>1. page' \in Pages /\ page'.number = page.number /\ page'.phase = "error"
    BY <1>4 DEF ConnectFails, Pages
  <2> QED
    BY <1>4, <2>1 DEF ConnectFails, Calm
<1>5. CASE Retry
  <2>1. page' \in Pages /\ page'.number = page.number /\ page'.phase = "entry"
    BY <1>5 DEF Retry, Pages
  <2> QED
    BY <1>5, <2>1 DEF Retry, Calm
<1>6. CASE Tick
  <2>1. page' \in Pages /\ page'.number = page.number /\ page'.phase = page.phase
    BY <1>6 DEF Tick, Pages
  <2>2. polls' \subseteq Requests
    BY <1>6, PollTyped DEF Tick, Pages
  <2> QED
    BY <1>6, <2>1, <2>2 DEF Tick, Calm
<1>7. ASSUME NEW p \in polls, Answer(p) PROVE Calm
  <2>1. [p EXCEPT !.answer = seat] \in Requests
    BY <1>7 DEF ServerOK, Requests
  <2> QED
    BY <1>7, <2>1 DEF Answer, Calm
<1>8. ASSUME NEW p \in polls, Arrives(p) PROVE Calm
  BY <1>8, ArrivesIsCalm
<1>9. ASSUME NEW p \in polls, ArrivesGone(p) PROVE Calm
  <2>1. Stopped(page) \in Pages /\ Stopped(page).number = page.number
    BY PageShown
  <2>2. page' \in Pages /\ page'.number = page.number /\ page'.phase # "failed"
    BY <1>9, <2>1 DEF ArrivesGone, Pages
  <2> QED
    BY <1>9, <2>2 DEF ArrivesGone, Calm
<1>10. ASSUME NEW p \in polls, Vanishes(p) PROVE Calm
  <2>1. page' \in Pages /\ page'.number = page.number /\ page'.phase = page.phase
    BY <1>10 DEF Vanishes, Ended, Pages
  <2> QED
    BY <1>10, <2>1 DEF Vanishes, Calm
<1>11. CASE OfferBot
  <2>1. page' \in Pages /\ page'.number = page.number /\ page'.phase = page.phase
    BY <1>11 DEF OfferBot, Pages
  <2>2. Superseded \subseteq Requests
    <3>1. \A p \in Requests : [p EXCEPT !.current = FALSE, !.answer = None, !.old = "none"] \in Requests
      BY DEF Requests, Seats
    <3> QED
      BY <3>1 DEF Superseded
  <2> QED
    BY <1>11, <2>1, <2>2 DEF OfferBot, Calm
<1>12. CASE BotIsCalled
  BY <1>12 DEF BotIsCalled, Calm
<1>13. CASE BotAnswers
  <2> DEFINE p == [page EXCEPT !.match = "matched", !.busy = FALSE, !.offer = FALSE]
  <2>1. p \in Pages /\ p.number = page.number
    BY DEF Pages, Seats
  <2> HIDE DEF p
  <2>2. Shown(p) \in Pages /\ Shown(p).number = page.number /\ Shown(p).phase # "failed"
    BY <2>1, PageShown
  <2>3. Polling(Shown(p)) \in Pages /\ Polling(Shown(p)).number = page.number /\ Polling(Shown(p)).phase # "failed"
    BY <2>2, PageShown
  <2>4. Restarted("matched") \subseteq Requests
    BY PollTyped DEF Seats
  <2>5. CASE page' = Polling(Shown(p)) /\ polls' = polls \cup Restarted("matched")
    BY <1>13, <2>3, <2>4, <2>5 DEF BotAnswers, Calm
  <2>6. CASE page' = [page EXCEPT !.busy = FALSE, !.offer = FALSE] /\ UNCHANGED polls
    <3>1. page' \in Pages /\ page'.number = page.number /\ page'.phase = page.phase
      BY <2>6 DEF Pages
    <3> QED
      BY <1>13, <2>6, <3>1 DEF BotAnswers, Calm
  <2> QED
    BY <1>13, <2>5, <2>6 DEF BotAnswers, p
<1>14. CASE BotCallFails
  <2>1. page' \in Pages /\ page'.number = page.number /\ page'.phase = "error"
    BY <1>14 DEF BotCallFails, Pages
  <2> QED
    BY <1>14, <2>1 DEF BotCallFails, Calm
<1>15. CASE Leave \/ ReloadLobby
  BY <1>15, EntryPage DEF Leave, ReloadLobby, Calm
<1>16. ASSUME NEW a \in Attempts, AttemptFails(a) \/ PrepareRefused(a) \/ StartIsLost(a) PROVE Calm
  <2>1. PICK phase \in {"failed", "abandoned"} : Stops(a, phase)
    BY <1>16 DEF AttemptFails, PrepareRefused, StartIsLost
  <2>2. flow[a].step # "idle" /\ UNCHANGED <<route, polls, call>>
    BY <1>16 DEF AttemptFails, PrepareRefused, StartIsLost
  <2>3. page' \in Pages /\ page'.number = page.number
    BY <2>1 DEF Stops, Pages
  <2> QED
    BY <2>1, <2>2, <2>3 DEF Stops, Calm
<1>17. ASSUME NEW a \in Attempts, Started(a) PROVE Calm
  BY <1>17, ToGameIsCalm DEF Started
<1> QED
  BY <1>1, <1>2, <1>3, <1>4, <1>5, <1>6, <1>7, <1>8, <1>9, <1>10, <1>11, <1>12, <1>13, <1>14, <1>15, <1>16, <1>17
     DEF LobbyStep

LEMMA LobbyKeeps == IInv /\ route = "lobby" /\ LobbyStep => LobbyOK'
<1> SUFFICES ASSUME IInv, route = "lobby", LobbyStep PROVE LobbyOK'
  OBVIOUS
<1>1. CASE Calm
  <2>1. role' = role \/ role = None
    BY PlayerAssumption DEF LobbyStep, Connect, GetsMatch, Returns, ConnectFails, Retry, Tick, Answer, Arrives,
       ArrivesGone, Vanishes, OfferBot, BotIsCalled, BotAnswers, BotCallFails, Play, RetryStart, AttemptFails,
       AwaitGame, DrawSecret, Prepare, PrepareRefused, Submit, CreationLands, JoinLands, Started,
       StartIsLost, Leave, ReloadLobby, serverVars, IInv, ServerOK
  <2> QED
    BY <1>1, <2>1, CalmKeeps
<1> USE DEF IInv, LobbyOK
<1>0. UNCHANGED serverVars => UNCHANGED role
  BY DEF serverVars
<1>2. ASSUME NEW a \in Attempts, NEW c \in Choices, Begins(a, c), UNCHANGED <<serverVars, route, polls, call>>,
             page' \in Pages, page'.number \in Choices
      PROVE  LobbyOK'
  <2>1. PICK step \in {"draw", "await"}, d \in Choices \cup {None} :
           Goes(a, step, d) /\ (step = "draw" => role = "creator" /\ d \in Choices)
    BY <1>2 DEF Begins
  <2>2. step \in Steps /\ (step \notin {"idle", "await"} => role # None)
    BY <2>1, PlayerAssumption DEF Steps
  <2> QED
    BY <1>0, <1>2, <2>1, <2>2, GoesKeeps
<1>3. ASSUME NEW a \in Attempts, NEW c \in Choices, Play(a, c) PROVE LobbyOK'
  <2>1. Stopped(page) \in Pages
    BY PageShown
  <2>2. page' \in Pages /\ page'.number = c
    BY <1>3, <2>1 DEF Play, Pages
  <2> QED
    BY <1>2, <1>3, <2>2 DEF Play
<1>4. ASSUME NEW a \in Attempts, RetryStart(a) PROVE LobbyOK'
  <2>1. page' \in Pages /\ page'.number = page.number /\ page.number \in Choices
    BY <1>4 DEF RetryStart, Pages
  <2> QED
    BY <1>2, <1>4, <2>1 DEF RetryStart
<1>5. ASSUME NEW a \in Attempts, AwaitGame(a) PROVE LobbyOK'
  <2>1. page.number \in Choices /\ UNCHANGED <<route, polls, call, role>>
    BY <1>0, <1>5 DEF AwaitGame
  <2>2. CASE Stops(a, "abandoned")
    <3>1. page' \in Pages /\ page'.number = page.number
      BY <2>2 DEF Stops, Pages
    <3> QED
      BY <2>1, <2>2, <3>1, GoesKeeps DEF Stops, Steps
  <2>3. CASE page' = [page EXCEPT !.match = seat] /\ UNCHANGED flow
    <3>1. page' \in Pages /\ page'.number = page.number /\ page'.phase = page.phase
      BY <2>3 DEF Pages, ServerOK
    <3> QED
      BY <2>1, <2>3, <3>1
  <2>4. CASE role = "joiner" /\ Goes(a, "draw", page.number) /\ UNCHANGED page
    BY <2>1, <2>4, GoesKeeps, PlayerAssumption DEF Steps
  <2> QED
    BY <1>5, <2>2, <2>3, <2>4 DEF AwaitGame
<1>6. ASSUME NEW a \in Attempts, DrawSecret(a) \/ Prepare(a) \/ Submit(a) PROVE LobbyOK'
  <2>1. UNCHANGED <<route, polls, call, role, page>> /\ flow[a].step \in {"draw", "prepare", "submit"}
    BY <1>0, <1>6 DEF DrawSecret, Prepare, Submit, CreationLands, JoinLands
  <2>2. page.number \in Choices /\ role # None
    BY <2>1
  <2>3. PICK step \in {"prepare", "submit", "accepted", "refused"} : Goes(a, step, None)
    BY <1>6 DEF DrawSecret, Prepare, Submit
  <2> QED
    BY <2>1, <2>2, <2>3, GoesKeeps DEF Steps
<1> QED
  BY <1>1, <1>3, <1>4, <1>5, <1>6, CalmLobby

LEMMA LobbyKept == IInv /\ [Next]_vars => LobbyOK'
<1> SUFFICES ASSUME IInv, [Next]_vars PROVE LobbyOK'
  OBVIOUS
<1> USE DEF IInv, LobbyOK
<1>1. CASE UNCHANGED <<route, lobbyVars, role>>
  BY <1>1 DEF lobbyVars
<1>2. CASE GameStep /\ UNCHANGED <<route, lobbyVars, faults>>
  <2>1. UNCHANGED role
    BY <1>2 DEF GameStep, OpenPage, PollTick, ServerReads, Ignore, Paint, PaintEnded, RequestFails, PressReveal,
       PrepareReveal, SecretMissing, SubmitReveal, RevealLands, RevealRefused, EndReveal, PressExit, RefundLands,
       RefundFails, serverVars
  <2> QED
    BY <1>1, <1>2, <2>1
<1>3. CASE Others /\ UNCHANGED <<secretVars, route, lobbyVars, gameVars, faults>>
  <2>1. role' = role \/ role = None
    BY <1>3 DEF Others, OpponentArrives, MatchEnds, OpponentPublishes, OpponentLeaves, RivalJoins, RivalReveals,
       GameEnds, GameForgotten, ServerOK
  <2> QED
    BY <1>3, <2>1 DEF lobbyVars
<1>4. CASE ReloadGame \/ GoHome
  BY <1>4 DEF ReloadGame, GoHome, serverVars, lobbyVars
<1> QED
  BY <1>1, <1>2, <1>3, <1>4, LobbyKeeps DEF Next, vars, serverVars

-----------------------------------------------------------------------------
(***************************************************************************)
(* The numbers                                                             *)
(***************************************************************************)
SecretsSafe == SecretsOK /\ DrawnOK /\ SecretBehindStake /\ JoinerCanReveal

\* A step that commits to nothing and touches no number.
Quietly ==
    /\ UNCHANGED secretVars
    /\ Committing' => Committing
    /\ role' = role \/ role = None
    /\ Staked' => Staked /\ UNCHANGED committed

LEMMA QuietlyKeeps == IInv /\ Quietly => SecretsSafe'
<1> SUFFICES ASSUME IInv, Quietly PROVE SecretsSafe'
  OBVIOUS
<1>1. CASE role' = role
  <2>1. Operation' = Operation /\ SecretForGame' = SecretForGame
    BY <1>1 DEF Operation, SecretForGame, Quietly, secretVars
  <2> QED
    BY <1>1, <2>1 DEF Quietly, secretVars, SecretsSafe, SecretsOK, DrawnOK, SecretBehindStake, JoinerCanReveal, IInv
<1>2. CASE role = None
  <2>1. ~Staked /\ ~Committing
    BY <1>2 DEF Staked, Committing, IInv, ServerOK, LobbyOK
  <2> QED
    BY <2>1 DEF Quietly, secretVars, SecretsSafe, SecretsOK, DrawnOK, SecretBehindStake, JoinerCanReveal, IInv
<1> QED
  BY <1>1, <1>2 DEF Quietly

LEMMA OthersAreQuiet ==
    ASSUME IInv, Others, UNCHANGED <<secretVars, flow>> PROVE Quietly
<1> USE DEF Quietly, Committing, Staked, IInv, ServerOK
<1>1. CASE OpponentArrives \/ MatchEnds \/ OpponentPublishes \/ OpponentLeaves
  BY <1>1 DEF OpponentArrives, MatchEnds, OpponentPublishes, OpponentLeaves
<1>2. CASE RivalJoins \/ RivalReveals \/ GameEnds \/ GameForgotten
  BY <1>2 DEF RivalJoins, RivalReveals, GameEnds, GameForgotten
<1> QED
  BY <1>1, <1>2 DEF Others

\* Only the steps that draw, prepare and submit lead to a commitment.
LEMMA GoesBack ==
    ASSUME IInv, NEW a \in Attempts, NEW step \in Steps, NEW c \in Choices \cup {None}, Goes(a, step, c),
           step \in {"prepare", "submit"} => flow[a].step \in {"prepare", "submit"}
    PROVE  Committing' => Committing
<1>1. flow'[a] = [step |-> step, number |-> c] /\ \A b \in Attempts : b # a => flow'[b] = flow[b]
  BY GoesOn DEF IInv, LobbyOK
<1> QED
  BY <1>1 DEF Committing

LEMMA CalmCommits == IInv /\ Calm => (Committing' => Committing)
<1> SUFFICES ASSUME IInv, Calm PROVE Committing' => Committing
  OBVIOUS
<1>1. CASE UNCHANGED flow
  BY <1>1 DEF Committing
<1>2. ASSUME NEW a \in Attempts, Goes(a, "idle", None) PROVE Committing' => Committing
  BY <1>2, GoesBack DEF Steps
<1>3. CASE flow' = NoAttempt
  BY <1>3, NoAttemptIdle DEF Committing
<1> QED
  BY <1>1, <1>2, <1>3 DEF Calm

LEMMA LobbyIsQuiet ==
    ASSUME IInv, LobbyStep PROVE Quietly \/ \E a \in Attempts : DrawSecret(a) \/ Submit(a) \/ Started(a)
<1>0. UNCHANGED serverVars => role' = role /\ (Staked' => Staked /\ UNCHANGED committed)
  BY DEF serverVars, Staked
<1>1. CASE Calm /\ UNCHANGED <<serverVars, secretVars>>
  BY <1>0, <1>1, CalmCommits DEF Quietly
<1>2. CASE GetsMatch \/ BotIsCalled
  <2>1. UNCHANGED <<secretVars, game, committed>>
    BY <1>2 DEF GetsMatch, BotIsCalled
  <2>2. role' = role \/ role = None
    BY <1>2 DEF GetsMatch, BotIsCalled, IInv, ServerOK
  <2>3. flow' = flow \/ flow' = NoAttempt
    BY <1>2 DEF GetsMatch, Enter, Continue, ToGame, BotIsCalled
  <2>4. Committing' => Committing
    BY <2>3, NoAttemptIdle DEF Committing
  <2> QED
    BY <2>1, <2>2, <2>4 DEF Quietly, Staked
<1>3. CASE Leave
  <2>1. ~Committing'
    BY <1>3, NoAttemptIdle DEF Leave, Committing
  <2> QED
    BY <1>3, <2>1 DEF Leave, Quietly, Staked
<1>4. ASSUME NEW a \in Attempts, NEW c \in Choices, Begins(a, c), UNCHANGED <<serverVars, secretVars>>
      PROVE  Quietly
  <2>1. PICK step \in {"draw", "await"}, d \in Choices \cup {None} : Goes(a, step, d)
    BY <1>4 DEF Begins
  <2>2. Committing' => Committing
    BY <2>1, GoesBack DEF Steps
  <2> QED
    BY <1>0, <1>4, <2>2 DEF Quietly
<1>5. ASSUME NEW a \in Attempts, NEW c \in Choices, Play(a, c) PROVE Quietly
  BY <1>4, <1>5 DEF Play
<1>6. ASSUME NEW a \in Attempts, RetryStart(a) PROVE Quietly
  BY <1>4, <1>6 DEF RetryStart, IInv, LobbyOK
<1>7. ASSUME NEW a \in Attempts, AwaitGame(a) \/ Prepare(a) PROVE Quietly
  <2>1. UNCHANGED <<serverVars, secretVars>> /\ flow[a].step \in {"await", "prepare"}
    BY <1>7 DEF AwaitGame, Prepare
  <2>2. \/ UNCHANGED flow
        \/ Goes(a, "idle", None)
        \/ Goes(a, "draw", page.number) /\ page.number \in Choices
        \/ Goes(a, "submit", None) /\ flow[a].step = "prepare"
    BY <1>7 DEF AwaitGame, Prepare, Stops, IInv, LobbyOK
  <2>3. Committing' => Committing
    BY <2>2, GoesBack DEF Steps, Committing
  <2> QED
    BY <1>0, <2>1, <2>3 DEF Quietly
<1>8. CASE Calm /\ ~(GetsMatch \/ BotIsCalled \/ Leave)
             /\ ~\E a \in Attempts : DrawSecret(a) \/ Submit(a) \/ Started(a)
  <2>1. UNCHANGED <<serverVars, secretVars>>
    BY <1>8 DEF LobbyStep, Connect, Returns, ConnectFails, Retry, Tick, Answer, Arrives,
       ArrivesGone, Vanishes, OfferBot, BotAnswers, BotCallFails, Play, RetryStart, AttemptFails,
       AwaitGame, Prepare, PrepareRefused, StartIsLost, ReloadLobby
  <2> QED
    BY <1>1, <1>8, <2>1
<1> QED
  BY <1>2, <1>3, <1>5, <1>6, <1>7, <1>8, CalmLobby

LEMMA DrawKeeps == ASSUME IInv, NEW a \in Attempts, DrawSecret(a) PROVE SecretsSafe'
<1> DEFINE o == Operation
           c == flow[a].number
<1>1. /\ c \in Choices /\ c # None
      /\ o \in Operations /\ drafts[o] \in {None, c}
      /\ drafts' = [drafts EXCEPT ![o] = c]
      /\ role \in {"creator", "joiner"}
  BY SecretsAssumption DEF DrawSecret, MayDraw, Draw, IInv, ServerOK, LobbyOK, Operation, Operations
<1>2. /\ UNCHANGED <<role, committed, game>>
      /\ IF role = "joiner" THEN link' = "join" ELSE link' = link
  BY DEF DrawSecret, LinksFirst, Bind, serverVars
<1>3. Operation' = o
  BY <1>2 DEF Operation
<1>4. drafts \in [Operations -> Choices \cup {None}] /\ link \in Operations \cup {None}
  BY DEF IInv, SecretsOK
<1>5. drafts'[o] = c
  BY <1>1, <1>4
<1> HIDE DEF o, c
<1>6. SecretsOK'
  BY <1>1, <1>2, <1>4 DEF SecretsOK, Operations
<1>7. DrawnOK'
  BY <1>1, <1>2, <1>3, <1>5 DEF DrawnOK
<1>8. Staked' => Staked /\ committed = drafts[o] /\ committed' = drafts'[o]
  <2>1. Staked' => Staked
    BY <1>2 DEF Staked
  <2>2. Staked => drafts[o] = committed /\ committed # None
    BY DEF IInv, SecretBehindStake, Staked, o
  <2> QED
    BY <1>1, <1>2, <1>5, <2>1, <2>2
<1>9. SecretBehindStake'
  BY <1>3, <1>8 DEF SecretBehindStake
<1>10. JoinerCanReveal'
  <2> SUFFICES ASSUME Staked', role' = "joiner" PROVE SecretForGame' = committed'
    BY DEF JoinerCanReveal
  <2>1. link' = "join" /\ o = "join"
    BY <1>2 DEF o, Operation
  <2> QED
    BY <1>8, <2>1, PlayerAssumption DEF SecretForGame, Operations
<1> QED
  BY <1>6, <1>7, <1>9, <1>10 DEF SecretsSafe

LEMMA SubmitKeeps == ASSUME IInv, NEW a \in Attempts, Submit(a) PROVE SecretsSafe'
<1>1. /\ flow[a].step = "submit"
      /\ UNCHANGED <<role, drafts, link>>
      /\ committed' = drafts[Operation]
  BY DEF Submit, CreationLands, JoinLands, secretVars
<1>2. Operation' = Operation
  BY <1>1 DEF Operation
<1>3. /\ Committing
      /\ role = "joiner" => link = "join" /\ Operation = "join"
  BY <1>1 DEF IInv, DrawnOK, Committing, Operation
<1>4. SecretsOK' /\ DrawnOK' /\ SecretBehindStake'
  BY <1>1, <1>2, <1>3 DEF IInv, SecretsOK, DrawnOK, SecretBehindStake
<1>5. JoinerCanReveal'
  BY <1>1, <1>3, PlayerAssumption DEF JoinerCanReveal, SecretForGame, Operations
<1> QED
  BY <1>4, <1>5 DEF SecretsSafe

LEMMA StartedKeeps == ASSUME IInv, NEW a \in Attempts, Started(a) PROVE SecretsSafe'
<1>1. /\ ~Committing' /\ link' = Operation
      /\ UNCHANGED <<role, drafts, committed, game>>
  BY NoAttemptIdle DEF Started, Bind, ToGame, serverVars, Committing
<1>2. Operation' = Operation /\ Operation \in Operations
  BY <1>1 DEF Operation, Operations
<1>3. SecretsOK' /\ DrawnOK' /\ SecretBehindStake'
  BY <1>1, <1>2 DEF IInv, SecretsOK, DrawnOK, SecretBehindStake, Staked
<1>4. JoinerCanReveal'
  <2>1. SecretForGame' = drafts[Operation]
    BY <1>1, <1>2, PlayerAssumption DEF SecretForGame
  <2> QED
    BY <1>1, <2>1 DEF JoinerCanReveal, IInv, SecretBehindStake, Staked
<1> QED
  BY <1>3, <1>4 DEF SecretsSafe

\* A screen that says the game is over says the truth: the number it forgets
\* is behind no stake any more.
LEMMA PaintKeeps == ASSUME IInv, NEW r \in requests, Paint(r), UNCHANGED flow, route = "game" PROVE SecretsSafe'
<1>1. CASE UNCHANGED secretVars
  BY <1>1, QuietlyKeeps DEF Paint, Quietly, Committing, serverVars, Staked
<1>2. CASE r.answer = "over" /\ Forget
  <2>1. game \in {"over", "gone"}
    <3>1. Progress["over"] <= Progress[game] /\ game \in Games
      BY <1>2, PlayerAssumption DEF IInv, ScreenOK, ServerOK, Games
    <3> QED
      BY <3>1 DEF Progress, Games
  <2>2. ~Staked' /\ ~Committing'
    BY <2>1, NoAttemptIdle DEF Paint, serverVars, Staked, IInv, LobbyOK, Committing
  <2>3. SecretsOK'
    BY <1>2 DEF Forget, SecretsOK, IInv
  <2> QED
    BY <2>2, <2>3 DEF SecretsSafe, DrawnOK, SecretBehindStake, JoinerCanReveal
<1> QED
  BY <1>1, <1>2 DEF Paint, EndsSecret

LEMMA GameKeepsSecrets ==
    ASSUME IInv, GameStep, route = "game", UNCHANGED flow PROVE SecretsSafe'
<1>1. ASSUME NEW r \in requests, Paint(r) PROVE SecretsSafe'
  BY <1>1, PaintKeeps
<1>2. ASSUME UNCHANGED <<secretVars, serverVars>> PROVE SecretsSafe'
  BY <1>2, QuietlyKeeps DEF Quietly, Committing, serverVars, Staked
<1>3. ASSUME NEW h \in Handlers, SubmitReveal(h) PROVE SecretsSafe'
  BY <1>3, QuietlyKeeps DEF SubmitReveal, RevealLands, Quietly, Committing, Staked
<1>4. CASE RefundLands
  BY <1>4, QuietlyKeeps DEF RefundLands, Quietly, Committing, Staked
<1> QED
  BY <1>1, <1>2, <1>3, <1>4 DEF GameStep, OpenPage, PollTick, ServerReads, Ignore, PaintEnded, RequestFails,
     PressReveal, PrepareReveal, SecretMissing, RevealRefused, EndReveal, PressExit, RefundFails

LEMMA SecretsKept == IInv /\ [Next]_vars => SecretsSafe'
<1> SUFFICES ASSUME IInv, [Next]_vars PROVE SecretsSafe'
  OBVIOUS
<1>1. CASE UNCHANGED <<serverVars, secretVars, lobbyVars>>
  BY <1>1, QuietlyKeeps DEF Quietly, Committing, serverVars, lobbyVars, Staked
<1>2. CASE LobbyStep
  BY <1>2, LobbyIsQuiet, QuietlyKeeps, DrawKeeps, SubmitKeeps, StartedKeeps
<1>3. CASE route = "game" /\ GameStep /\ UNCHANGED <<route, lobbyVars, faults>>
  BY <1>3, GameKeepsSecrets DEF lobbyVars
<1>4. CASE Others /\ UNCHANGED <<secretVars, route, lobbyVars, gameVars, faults>>
  BY <1>4, OthersAreQuiet, QuietlyKeeps DEF lobbyVars
<1>5. CASE ReloadGame \/ GoHome
  BY <1>1, <1>5 DEF ReloadGame, GoHome
<1> QED
  BY <1>1, <1>2, <1>3, <1>4, <1>5 DEF Next, vars

-----------------------------------------------------------------------------
(***************************************************************************)
(* The reveal button                                                       *)
(***************************************************************************)
RevealSafe == RevealOK /\ OneRevealAtATime

\* A step that presses no button may paint what it likes but a new button.
Untouched ==
    /\ UNCHANGED reveal
    /\ view.open /\ view'.open
    /\ view.inFlight => view'.inFlight /\ (view'.shown = view.shown \/ view'.shown \notin {"joined", "rival"})

LEMMA UntouchedKeeps == IInv /\ Untouched => RevealSafe'
  BY DEF IInv, Untouched, RevealSafe, RevealOK, OneRevealAtATime

LEMMA ResetKeeps ==
    view' = Closed /\ requests' = {} /\ reveal' = NoReveal /\ refund' = "idle" => RevealSafe'
  BY DEF RevealSafe, RevealOK, OneRevealAtATime, NoReveal

LEMMA OpenKeeps == IInv /\ OpenPage => RevealSafe'
<1> SUFFICES ASSUME IInv, OpenPage PROVE RevealSafe'
  OBVIOUS
<1>1. reveal' = NoReveal /\ view'.open
  BY DEF OpenPage, IInv, RevealOK, Closed
<1> QED
  BY <1>1 DEF RevealSafe, RevealOK, OneRevealAtATime, NoReveal

\* The tick of a request ends.
LEMMA DoneTouchesNot ==
    ASSUME NEW r \in GameRequests, NEW v \in Views
    PROVE  /\ Done(r, v) \in Views
           /\ Done(r, v).open = v.open /\ Done(r, v).inFlight = v.inFlight
           /\ Done(r, v).shown = v.shown /\ Done(r, v).at = v.at
  BY DEF Done, Views

LEMMA QuietTouchesNot ==
    ASSUME NEW v \in Views
    PROVE  /\ Quiet(v) \in Views
           /\ Quiet(v).open = v.open /\ Quiet(v).inFlight = v.inFlight
           /\ Quiet(v).shown = v.shown /\ Quiet(v).at = v.at
  BY DEF Quiet, Views

\* What a request paints.
LEMMA Painted ==
    ASSUME IInv, NEW r \in requests, Paint(r)
    PROVE  /\ view' \in Views
           /\ view'.open = view.open /\ view'.inFlight = view.inFlight
           /\ view'.shown = r.answer /\ view'.at = Progress[r.answer]
           /\ r.answer \in Games \ {"gone"}
<1> DEFINE painted == [view EXCEPT !.signature = r.answer, !.shown = r.answer, !.at = Progress[r.answer]]
<1>1. r \in GameRequests /\ r.answer \in Games \ {"gone"} /\ view \in Views
  BY DEF Paint, IInv, ScreenOK, GameRequests
<1>2. Progress[r.answer] \in 0..6
  BY <1>1 DEF Progress, Games
<1>3. /\ painted \in Views
      /\ painted.open = view.open /\ painted.inFlight = view.inFlight
      /\ painted.shown = r.answer /\ painted.at = Progress[r.answer]
  <2> DEFINE n == Progress[r.answer]
  <2> HIDE DEF n
  <2>1. n \in 0..6
    BY <1>2 DEF n
  <2>2. painted = [view EXCEPT !.signature = r.answer, !.shown = r.answer, !.at = n]
    BY DEF n
  <2> HIDE DEF painted
  <2> QED
    BY <1>1, <2>1, <2>2 DEF Views, n
<1> HIDE DEF painted
<1>4. view' = Done(r, Quiet(painted)) \/ view' = Done(r, painted)
  BY DEF Paint, painted
<1>5. /\ Quiet(painted) \in Views
      /\ Quiet(painted).open = view.open /\ Quiet(painted).inFlight = view.inFlight
      /\ Quiet(painted).shown = r.answer /\ Quiet(painted).at = Progress[r.answer]
  BY <1>3, QuietTouchesNot
<1> QED
  BY <1>1, <1>3, <1>4, <1>5, DoneTouchesNot

LEMMA RevealKeeps == ASSUME IInv, GameStep PROVE RevealSafe'
<1> USE DEF IInv
<1>1. CASE OpenPage
  BY <1>1, OpenKeeps
<1>2. CASE PollTick
  <2>1. view.open
    BY <1>2 DEF PollTick, RevealOK, Closed
  <2> QED
    BY <1>2, <2>1, UntouchedKeeps DEF PollTick, Untouched, ScreenOK, Views
<1>3. ASSUME NEW r \in requests, ServerReads(r) \/ Ignore(r) \/ Paint(r) \/ PaintEnded(r) \/ RequestFails(r)
      PROVE  RevealSafe'
  <2>1. r \in GameRequests /\ view \in Views /\ view.open
    BY <1>3 DEF ScreenOK, RevealOK
  <2>2. CASE ServerReads(r)
    BY <2>1, <2>2, UntouchedKeeps DEF ServerReads, Untouched
  <2>3. CASE Ignore(r)
    BY <2>1, <2>3, UntouchedKeeps, DoneTouchesNot DEF Ignore, Untouched
  <2>4. CASE Paint(r)
    <3>1. view.inFlight => r.answer = "over"
      BY <2>4, PlayerAssumption DEF Paint, IsIgnored, Suppressed
    <3> QED
      BY <2>1, <2>4, <3>1, Painted, UntouchedKeeps DEF Paint, Untouched
  <2>5. CASE PaintEnded(r)
    <3>1. /\ Quiet(view) \in Views /\ Quiet(view).open = view.open
          /\ Quiet(view).inFlight = view.inFlight
      BY <2>1, QuietTouchesNot
    <3>2. view'.open /\ view'.inFlight = view.inFlight /\ view'.shown = "ended"
      BY <2>1, <2>5, <3>1 DEF PaintEnded, Views
    <3> QED
      BY <2>1, <2>5, <3>2, UntouchedKeeps DEF PaintEnded, Untouched
  <2>6. CASE RequestFails(r)
    <3>1. view'.open /\ view'.inFlight = view.inFlight /\ view'.shown \in {view.shown, "error"}
      BY <2>1, <2>6, DoneTouchesNot DEF RequestFails, Views
    <3> QED
      BY <2>1, <2>6, <3>1, UntouchedKeeps DEF RequestFails, Untouched
  <2> QED
    BY <1>3, <2>2, <2>3, <2>4, <2>5, <2>6
<1>4. ASSUME NEW h \in Handlers, PressReveal(h) PROVE RevealSafe'
  <2>1. \A i \in Handlers : reveal[i] = "idle"
    BY <1>4 DEF PressReveal, RevealOffered, RevealOK
  <2>2. view.open /\ view'.open /\ view'.inFlight /\ view'.shown = "revealing"
    BY <1>4 DEF PressReveal, RevealOffered, RevealOK, ScreenOK, Views, Closed
  <2> QED
    BY <1>4, <2>1, <2>2 DEF PressReveal, RevealSafe, RevealOK, OneRevealAtATime
<1>5. ASSUME NEW h \in Handlers,
             PrepareReveal(h) \/ SecretMissing(h) \/ SubmitReveal(h) \/ RevealRefused(h)
      PROVE  RevealSafe'
  <2>1. reveal[h] # "idle" /\ UNCHANGED <<view, requests, refund>>
    BY <1>5 DEF PrepareReveal, SecretMissing, SubmitReveal, RevealRefused
  <2>2. \E step \in {"submit", "sent", "failed"} : At(h, step)
    BY <1>5 DEF PrepareReveal, SecretMissing, SubmitReveal, RevealRefused
  <2> QED
    BY <2>1, <2>2 DEF At, RevealSafe, RevealOK, OneRevealAtATime, NoReveal
<1>6. ASSUME NEW h \in Handlers, EndReveal(h) PROVE RevealSafe'
  <2>1. /\ reveal[h] # "idle" /\ reveal' = [reveal EXCEPT ![h] = "idle"]
        /\ view' = [view EXCEPT !.inFlight = FALSE, !.signature = SignatureAfter(h)]
    BY <1>6 DEF EndReveal, At
  <2>2. \A i \in Handlers : reveal'[i] = "idle"
    BY <2>1 DEF OneRevealAtATime, RevealOK
  <2>3. view'.open
    BY <2>1 DEF RevealOK, NoReveal, ScreenOK, Views
  <2>4. reveal' \in [Handlers -> {"idle", "prepare", "submit", "sent", "failed"}]
    BY <2>1 DEF RevealOK
  <2> QED
    BY <2>2, <2>3, <2>4 DEF RevealSafe, RevealOK, OneRevealAtATime
<1>7. CASE PressExit \/ RefundLands
  <2>1. view.open
    BY <1>7 DEF PressExit, RefundLands, RevealOK, Closed
  <2> QED
    BY <1>7, <2>1, UntouchedKeeps DEF PressExit, RefundLands, Untouched
<1>8. CASE RefundFails
  <2>1. view.open
    BY <1>8 DEF RefundFails, RevealOK
  <2> QED
    BY <1>8, <2>1, UntouchedKeeps DEF RefundFails, Untouched, ScreenOK, Views
<1> QED
  BY <1>1, <1>2, <1>3, <1>4, <1>5, <1>6, <1>7, <1>8 DEF GameStep

LEMMA RevealKept == IInv /\ [Next]_vars => RevealSafe'
<1> SUFFICES ASSUME IInv, [Next]_vars PROVE RevealSafe'
  OBVIOUS
<1>1. CASE UNCHANGED gameVars
  BY <1>1 DEF gameVars, IInv, RevealSafe, RevealOK, OneRevealAtATime
<1>2. CASE GameStep
  BY <1>2, RevealKeeps
<1>3. CASE ReloadGame \/ GoHome
  BY <1>3, ResetKeeps DEF ReloadGame, GoHome
<1> QED
  BY <1>1, <1>2, <1>3 DEF Next, vars


-----------------------------------------------------------------------------
(***************************************************************************)
(* The screen                                                              *)
(***************************************************************************)
\* The game only goes on.
LEMMA GameGoesOn == IInv /\ [Next]_vars => Progress[game] <= Progress[game']
<1> SUFFICES ASSUME IInv, [Next]_vars PROVE Progress[game] <= Progress[game']
  OBVIOUS
<1> USE DEF Progress, Games
<1>1. game \in Games
  BY DEF IInv, ServerOK
<1>2. CASE UNCHANGED game
  BY <1>1, <1>2
<1>3. CASE OpponentPublishes
  BY <1>3 DEF OpponentPublishes, IInv, ServerOK
<1>4. CASE RivalJoins \/ RivalReveals \/ GameEnds \/ GameForgotten
  BY <1>4 DEF RivalJoins, RivalReveals, GameEnds, GameForgotten, Playing
<1>5. ASSUME NEW a \in Attempts, Submit(a) PROVE Progress[game] <= Progress[game']
  BY <1>5 DEF Submit, CreationLands, JoinLands
<1>6. ASSUME NEW h \in Handlers, SubmitReveal(h) PROVE Progress[game] <= Progress[game']
  BY <1>6 DEF SubmitReveal, RevealLands
<1>7. CASE RefundLands
  BY <1>7 DEF RefundLands
<1>8. CASE LobbyStep
  BY <1>2, <1>5, <1>8 DEF LobbyStep, Connect, GetsMatch, Returns, ConnectFails, Retry, Tick, Answer, Arrives,
     ArrivesGone, Vanishes, OfferBot, BotIsCalled, BotAnswers, BotCallFails, Play, RetryStart, AttemptFails,
     AwaitGame, DrawSecret, Prepare, PrepareRefused, Started, StartIsLost, Leave, ReloadLobby, serverVars
<1>9. CASE GameStep
  BY <1>2, <1>6, <1>7, <1>9 DEF GameStep, OpenPage, PollTick, ServerReads, Ignore, Paint, PaintEnded,
     RequestFails, PressReveal, PrepareReveal, SecretMissing, RevealRefused, EndReveal, PressExit,
     RefundFails, serverVars
<1> QED
  BY <1>2, <1>3, <1>4, <1>8, <1>9
     DEF Next, Others, OpponentArrives, MatchEnds, OpponentLeaves, ReloadGame, GoHome, vars, serverVars

\* What was on its way is stale.
LEMMA StaleIsStale ==
    ASSUME NEW R \in SUBSET GameRequests
    PROVE  Stale(R) \subseteq GameRequests /\ \A r \in Stale(R) : ~r.current /\ r.answer = None
  BY DEF Stale, StillCurrent, GameRequests

\* Only the new request may bring an answer.
LEMMA AskIsNewest ==
    ASSUME ScreenOK, NEW by \in {"tick", "first", "reveal", "refund"}
    PROVE  /\ Ask(by) \subseteq GameRequests
           /\ \A r \in Ask(by) : r.answer = None
           /\ \A r, s \in Ask(by) : r.current /\ s.current => r = s
<1>1. Stale(requests) \subseteq GameRequests /\ \A r \in Stale(requests) : ~r.current /\ r.answer = None
  BY StaleIsStale DEF ScreenOK
<1> DEFINE new == [by |-> by, current |-> TRUE, answer |-> None]
<1>2. new \in GameRequests /\ new.answer = None
  BY DEF GameRequests
<1>3. Ask(by) = Stale(requests) \cup {new}
  BY DEF Ask
<1> HIDE DEF new
<1> QED
  BY <1>1, <1>2, <1>3

\* Nothing that arrives later can be older than a screen that stays.
Forward == ScreenOK' /\ (view.open /\ view'.open => view'.at >= view.at)

LEMMA AskGoesForward ==
    ASSUME IInv, [Next]_vars, NEW by \in {"tick", "first", "reveal", "refund"},
           requests' = Ask(by), view' \in Views, view'.at = view.at
    PROVE  Forward
<1>1. view.at \in 0..6 /\ view.at <= Progress[game] /\ ScreenOK
  BY DEF IInv, ScreenOK, Views
<1>2. Progress[game] \in 0..6 /\ Progress[game'] \in 0..6
  BY ServerKept DEF IInv, ServerOK, Progress, Games
<1>3. view'.at <= Progress[game']
  BY <1>1, <1>2, GameGoesOn
<1> QED
  BY <1>1, <1>3, AskIsNewest DEF Forward, ScreenOK

\* A step that neither asks nor paints.
LEMMA StillGoesForward ==
    ASSUME IInv, [Next]_vars, view' \in Views, view'.at = view.at, requests' \subseteq requests
    PROVE  Forward
<1>1. view.at \in 0..6 /\ view.at <= Progress[game]
  BY DEF IInv, ScreenOK, Views
<1>2. Progress[game] \in 0..6 /\ Progress[game'] \in 0..6 /\ Progress[game] <= Progress[game']
  BY ServerKept, GameGoesOn DEF IInv, ServerOK, Progress, Games
<1>3. \A r \in requests : r.answer # None => Progress[r.answer] \in 0..6
  BY DEF IInv, ScreenOK, GameRequests, Progress, Games
<1>4. \A r \in requests' :
         r.answer # None => r.current /\ view'.at <= Progress[r.answer] /\ Progress[r.answer] <= Progress[game']
  BY <1>1, <1>2, <1>3 DEF IInv, ScreenOK
<1> QED
  BY <1>1, <1>2, <1>4 DEF Forward, IInv, ScreenOK

\* The server answers.
LEMMA ReadGoesForward ==
    ASSUME IInv, [Next]_vars, NEW r \in requests, ServerReads(r)
    PROVE  Forward
<1> DEFINE a == [r EXCEPT !.answer = game]
<1>1. r \in GameRequests /\ r.current /\ view \in Views
  BY DEF ServerReads, IInv, ScreenOK
<1>2. game \in Games /\ Progress[game] \in 0..6
  BY DEF IInv, ServerOK, Progress, Games
<1>3. a \in GameRequests /\ a.current /\ a.answer = game
  BY <1>1, <1>2 DEF GameRequests
<1>4. requests' = (requests \ {r}) \cup {a} /\ UNCHANGED <<view, game>>
  BY DEF ServerReads, serverVars
<1>5. \A s \in requests \ {r} : ~s.current /\ s.answer = None
  BY <1>1 DEF IInv, ScreenOK
<1> HIDE DEF a
<1>6. \A s \in requests' : s = a \/ (~s.current /\ s.answer = None)
  BY <1>4, <1>5
<1>7. view.at <= Progress[game] /\ Progress[game] <= Progress[game]
  BY <1>2 DEF IInv, ScreenOK
<1> QED
  BY <1>1, <1>2, <1>3, <1>4, <1>6, <1>7 DEF Forward, IInv, ScreenOK, Views

\* An answer is painted: no other is on its way.
LEMMA PaintGoesForward ==
    ASSUME IInv, [Next]_vars, NEW r \in requests, r.answer # None, view' \in Views,
           view'.at = Progress[r.answer],
           requests' = requests \ {r} \/ requests' = Stale(requests \ {r})
    PROVE  Forward
<1>1. r \in GameRequests /\ r.current /\ view.at <= Progress[r.answer] /\ Progress[r.answer] <= Progress[game]
  BY DEF IInv, ScreenOK
<1>2. Progress[r.answer] \in 0..6 /\ view.at \in 0..6
  BY <1>1 DEF IInv, ScreenOK, GameRequests, Views, Progress, Games
<1>3. Progress[game] \in 0..6 /\ Progress[game'] \in 0..6 /\ Progress[game] <= Progress[game']
  BY ServerKept, GameGoesOn DEF IInv, ServerOK, Progress, Games
<1>4. \A s \in requests \ {r} : ~s.current /\ s.answer = None
  BY <1>1 DEF IInv, ScreenOK
<1>5. requests \ {r} \in SUBSET GameRequests
  BY DEF IInv, ScreenOK
<1>6. requests' \subseteq GameRequests /\ \A s \in requests' : ~s.current /\ s.answer = None
  BY <1>4, <1>5, StaleIsStale
<1> QED
  BY <1>1, <1>2, <1>3, <1>6 DEF Forward, ScreenOK

LEMMA GameGoesForward == ASSUME IInv, [Next]_vars, GameStep PROVE Forward
<1> USE DEF IInv
<1>0. view \in Views /\ requests \subseteq GameRequests
  BY DEF ScreenOK
<1>1. CASE OpenPage
  <2>1. view = Closed /\ view' = [Closed EXCEPT !.open = TRUE]
    BY <1>1 DEF OpenPage, RevealOK
  <2>2. view' \in Views /\ view'.at = view.at
    BY <1>0, <2>1 DEF Closed, Views
  <2> QED
    BY <1>1, <2>2, AskGoesForward DEF OpenPage
<1>2. CASE PollTick
  BY <1>0, <1>2, AskGoesForward DEF PollTick, Views
<1>3. ASSUME NEW r \in requests, ServerReads(r) PROVE Forward
  BY <1>3, ReadGoesForward
<1>4. ASSUME NEW r \in requests, Ignore(r) PROVE Forward
  BY <1>0, <1>4, StillGoesForward, DoneTouchesNot DEF Ignore
<1>5. ASSUME NEW r \in requests, Paint(r) PROVE Forward
  BY <1>5, Painted, PaintGoesForward DEF Paint
<1>6. ASSUME NEW r \in requests, PaintEnded(r) PROVE Forward
  <2>1. view' \in Views /\ view'.at = 6
    <3> DEFINE q == Quiet(view)
               n == Progress["gone"]
    <3>1. q \in Views /\ n = 6
      BY <1>0, QuietTouchesNot DEF Progress
    <3>2. n \in 0..6
      BY <3>1
    <3>3. view' = [q EXCEPT !.shown = "ended", !.at = n]
      BY <1>6 DEF PaintEnded
    <3> HIDE DEF q, n
    <3>4. view' \in Views /\ view'.at = n
      BY <3>1, <3>2, <3>3 DEF Views
    <3> QED
      BY <3>1, <3>4
  <2>2. r.answer # None /\ Progress[r.answer] = 6
    BY <1>6, PlayerAssumption DEF PaintEnded, Progress, Games
  <2> QED
    BY <1>6, <2>1, <2>2, PaintGoesForward DEF PaintEnded
<1>7. ASSUME NEW r \in requests, RequestFails(r) PROVE Forward
  <2>1. view' \in Views /\ view'.at = view.at
    BY <1>0, <1>7, DoneTouchesNot DEF RequestFails, Views
  <2> QED
    BY <1>7, <2>1, StillGoesForward DEF RequestFails
<1>8. ASSUME NEW h \in Handlers, PressReveal(h) PROVE Forward
  BY <1>0, <1>8, StillGoesForward DEF PressReveal, Views
<1>9. ASSUME NEW h \in Handlers,
             PrepareReveal(h) \/ SecretMissing(h) \/ SubmitReveal(h) \/ RevealRefused(h)
      PROVE  Forward
  BY <1>0, <1>9, StillGoesForward DEF PrepareReveal, SecretMissing, SubmitReveal, RevealRefused
<1>10. ASSUME NEW h \in Handlers, EndReveal(h) PROVE Forward
  <2>1. SignatureAfter(h) \in Games \cup {None}
    BY <1>0 DEF SignatureAfter, Views
  <2> QED
    BY <1>0, <1>10, <2>1, AskGoesForward DEF EndReveal, Views
<1>11. CASE PressExit \/ RefundLands
  BY <1>0, <1>11, StillGoesForward DEF PressExit, RefundLands
<1>12. CASE RefundFails
  BY <1>0, <1>12, AskGoesForward DEF RefundFails, Views
<1> QED
  BY <1>1, <1>2, <1>3, <1>4, <1>5, <1>6, <1>7, <1>8, <1>9, <1>10, <1>11, <1>12 DEF GameStep

LEMMA ScreenKept == ASSUME IInv, [Next]_vars PROVE Forward
<1>1. CASE UNCHANGED gameVars
  BY <1>1, StillGoesForward DEF gameVars, IInv, ScreenOK
<1>2. CASE GameStep
  BY <1>2, GameGoesForward
<1>3. CASE view' = Closed /\ requests' = {}
  <2>1. Progress[game'] \in 0..6
    BY ServerKept DEF ServerOK, Progress, Games
  <2> QED
    BY <1>3, <2>1 DEF Forward, ScreenOK, Closed, Views
<1> QED
  BY <1>1, <1>2, <1>3 DEF Next, ReloadGame, GoHome, vars

-----------------------------------------------------------------------------
(***************************************************************************)
(* The theorems                                                            *)
(***************************************************************************)
LEMMA NextInv == IInv /\ [Next]_vars => IInv'
<1> SUFFICES ASSUME IInv, [Next]_vars PROVE IInv'
  OBVIOUS
<1> QED
  BY ServerKept, LobbyKept, SecretsKept, RevealKept, ScreenKept
     DEF IInv, SecretsSafe, RevealSafe, Forward

LEMMA InductiveInv == Spec => []IInv
  BY InitInv, NextInv, PTL DEF Spec

\* The lobby page, the game page, the store of numbers and the server's match
\* and game hold only what the code puts there.
THEOREM TypeCorrect == Spec => []TypeOK
<1>1. IInv => TypeOK
  BY DEF IInv, ServerOK, LobbyOK, SecretsOK, ScreenOK, TypeOK, Pages, Requests, Views, GameRequests, Flows
<1> QED
  BY <1>1, InductiveInv, PTL

\* createRevealSecret comes before the stake and deleteSecretForGame after the
\* end: whatever fails or is tried again, the number of a locked stake is kept.
THEOREM NumberIsKept == Spec => []SecretBehindStake
<1>1. IInv => SecretBehindStake
  BY DEF IInv
<1> QED
  BY <1>1, InductiveInv, PTL

\* The joiner's number is bound to the game before he submits, so that it is
\* found from the game whatever becomes of the answer.
THEOREM JoinerReveals == Spec => []JoinerCanReveal
<1>1. IInv => JoinerCanReveal
  BY DEF IInv
<1> QED
  BY <1>1, InductiveInv, PTL

\* While a reveal is under way no refresh brings its button back
\* (shouldSuppressRender).
THEOREM RevealIsOne == Spec => []OneRevealAtATime
<1>1. IInv => OneRevealAtATime
  BY DEF IInv
<1> QED
  BY <1>1, InductiveInv, PTL

\* createLatestRequestGate: an answer that was overtaken is never painted, for
\* any number of requests in flight.
THEOREM ScreensGoForward == Spec => NeverPaintsOlder
<1>1. IInv /\ [Next]_vars => [view.open /\ view'.open => view'.at >= view.at]_vars
  BY ScreenKept DEF Forward
<1> QED
  BY <1>1, InductiveInv, PTL DEF Spec, NeverPaintsOlder
=============================================================================
