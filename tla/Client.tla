------------------------------- MODULE Client -------------------------------
(***************************************************************************)
(* One player's browser: the lobby leads to the game page, and both read   *)
(* and write the same store of hidden numbers.  The pages share nothing    *)
(* else; each forgets what it knew when it is left or reloaded.            *)
(***************************************************************************)
EXTENDS Lobby, GamePage

vars == <<serverVars, secretVars, route, lobbyVars, gameVars, faults>>

Init == LobbyInit /\ SecretsInit /\ GameInit

\* The game page is reloaded: its address holds the game.
ReloadGame ==
    /\ route = "game" /\ view.open
    /\ faults < MaxFaults
    /\ faults' = faults + 1
    /\ view' = Closed /\ requests' = {} /\ reveal' = NoReveal /\ refund' = "idle"
    /\ UNCHANGED <<serverVars, secretVars, route, lobbyVars>>

\* The stake is refunded: home, without painting the end of the game.
GoHome ==
    /\ route = "game" /\ refund = "done"
    /\ route' = "home"
    /\ view' = Closed /\ requests' = {} /\ reveal' = NoReveal /\ refund' = "idle"
    /\ UNCHANGED <<serverVars, secretVars, lobbyVars, faults>>

Next ==
    \/ route = "lobby" /\ LobbyStep /\ UNCHANGED gameVars
    \/ route = "game" /\ GameStep /\ UNCHANGED <<route, lobbyVars, faults>>
    \/ Others /\ UNCHANGED <<secretVars, route, lobbyVars, gameVars, faults>>
    \/ ReloadGame \/ GoHome

Spec == Init /\ [][Next]_vars

\* The browser's timers and requests go on, not every request fails, and the
\* player answers his wallet.
InLobby(A) == route = "lobby" /\ A /\ UNCHANGED gameVars
InGame(A) == route = "game" /\ A /\ UNCHANGED <<route, lobbyVars, faults>>

Fairness ==
    /\ WF_vars(InLobby(Tick))
    /\ SF_vars(InLobby(\E p \in polls : Answer(p)))
    /\ WF_vars(InLobby(\E p \in polls : Arrives(p) \/ ArrivesGone(p) \/ Vanishes(p)))
    /\ WF_vars(InGame(OpenPage \/ PollTick))
    /\ WF_vars(InGame(\E r \in requests : ServerReads(r) \/ RequestFails(r)))
    /\ SF_vars(InGame(\E r \in requests : r.current /\ ServerReads(r)))
    /\ WF_vars(InGame(\E r \in requests : Ignore(r) \/ Paint(r) \/ PaintEnded(r)))
    /\ SF_vars(InGame(\E r \in requests : Paint(r) \/ PaintEnded(r)))
    /\ \A h \in Handlers : WF_vars(InGame(
          PrepareReveal(h) \/ SecretMissing(h) \/ SubmitReveal(h)
             \/ RevealRefused(h) \/ EndReveal(h)))
    /\ WF_vars(GoHome)

FairSpec == Spec /\ Fairness
-----------------------------------------------------------------------------
(***************************************************************************)
(* Properties                                                              *)
(***************************************************************************)
\* The store of numbers, the server's match and game, the lobby page and the
\* answers it and the game page compare hold what the code may put there.
Steps == {"idle", "await", "draw", "prepare", "submit", "accepted", "refused"}

TypeOK ==
    /\ drafts \in [Operations -> Choices \cup {None}]
    /\ link \in Operations \cup {None}
    /\ mode \in Modes /\ seat \in Seats /\ role \in {"creator", "joiner", None}
    /\ game \in Games /\ committed \in Choices \cup {None}
    /\ route \in {"lobby", "game", "home"}
    /\ page \in [phase : {"entry", "error", "dead", "waiting", "pick", "locking", "failed", "abandoned"},
                 match : Seats, busy : BOOLEAN, started : BOOLEAN, picking : BOOLEAN,
                 number : Choices \cup {None}, offer : BOOLEAN, polling : BOOLEAN, running : BOOLEAN,
                 misled : BOOLEAN]
    /\ \A p \in polls : p.old \in Seats /\ p.answer \in Seats \cup {None}
    /\ call \in {"none", "sent", "claimed", "refused"}
    /\ flow \in [Attempts -> [step : Steps, number : Choices \cup {None}]]
    /\ view.signature \in Games \cup {None}
    /\ \A r \in requests : r.answer \in Games \cup {None}

Staked == committed # None /\ game \notin {"over", "gone"}

\* A stake is never locked under a number the browser does not hold, and the
\* number is kept until the game is over: through failed attempts, retries,
\* reloads and the other number picked the second time.
SecretBehindStake == Staked => drafts[Operation] = committed

\* The joiner's number is found from the game as soon as his stake is locked:
\* no lost answer or closed tab keeps him from revealing.
JoinerCanReveal == Staked /\ role = "joiner" => SecretForGame = committed

\* The reveal is one button pressed once: no repaint brings it back while the
\* wallet is asked.
OneRevealAtATime == \A h, i \in Handlers : reveal[h] # "idle" /\ reveal[i] # "idle" => h = i

\* An open page never goes back to an earlier state of the game, however its
\* answers overtake each other.
NeverPaintsOlder == [][view.open /\ view'.open => view'.at >= view.at]_vars

\* A player who waits is told of his opponent, unless an answer that was
\* overtaken is taken for the truth.
OpponentIsShown ==
    route = "lobby" /\ page.phase = "waiting" /\ seat = "matched"
        ~> page.phase # "waiting" \/ seat # "matched" \/ page.misled

\* The page shows an earlier state of the game than the server's.
Behind ==
    /\ view.open /\ view.shown \notin {game, "error"}
    /\ game = "gone" => view.shown \notin {"over", "ended"}

\* The game page shows what the game has become, after failed requests, failed
\* reveals and whatever is painted over it meanwhile, unless it never opened.
PageCatchesUp == Behind ~> ~Behind
=============================================================================
