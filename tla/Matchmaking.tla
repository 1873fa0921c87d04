---------------------------- MODULE Matchmaking ----------------------------
(***************************************************************************)
(* How two wallets find each other, in src/matchmaking-service.js, the     *)
(* match half of src/backend-game-store.js, the fallback bot of            *)
(* src/fallback-bot-service.js and #attachMatchGame in                     *)
(* src/backend-game-service.js.                                            *)
(*                                                                         *)
(* One store call is one step: the store runs mutations one at a time.  A  *)
(* handler that loads a match, waits, and then changes it is two steps     *)
(* here, with what it checked in `publishing`, `joining` or `scan`.        *)
(* The game itself is reduced to its joiner and its end: GameBackend shows *)
(* that every game ends.                                                   *)
(***************************************************************************)
EXTENDS Naturals, Sequences

CONSTANTS
    Wallets,        \* the wallets of the players
    Bot,            \* the wallet of the fallback bot
    Codes,          \* room codes the generator draws from
    None,
    MaxMatches,     \* matches ever opened
    MaxGames        \* games ever published

ASSUME MatchmakingAssumption ==
    /\ Bot \notin Wallets
    /\ None \notin Wallets \cup Codes \cup {Bot}
    /\ MaxMatches \in Nat /\ MaxGames \in Nat

VARIABLES
    matches,        \* the stored matches, None before they exist and once deleted
    queue,          \* the stored queue of public searches: ids grow, so its order is theirs
    lease,          \* the match the bot is committed to, or None
    games,          \* the stored games of matches
    secrets,        \* the games for which the bot's secret is stored
    opened,         \* how many matches were opened
    prepared,       \* stored creation preparations: of which match, by whom
    publishing,     \* games about to be attached: their match was checked
    joining,        \* the games the bot is about to join: their match was checked
    scan,           \* the bot's snapshot of its matches, those still to visit
    late,           \* a creation was attached to a match that was no longer matched
    orphaned        \* a game ended with its match while the bot joined the other game of it

store == <<matches, queue, lease, games, secrets, prepared>>
memory == <<publishing, joining, scan>>
history == <<late, orphaned>>
vars == <<store, memory, opened, history>>

MatchIds == 1..MaxMatches
GameIds == 1..MaxGames

\* What the store keeps of a match and of its game.
Status == {"waiting", "matched", "started", "cancelled"}
Match == [status : Status, code : Codes \cup {None}, players : Seq(Wallets \cup {Bot}),
          creator : 0..2, game : GameIds \cup {None}, bot : BOOLEAN]
Game == [match : MatchIds, by : Wallets, joiner : Wallets \cup {Bot, None}, completed : BOOLEAN]

ASSUME NoneAssumption == None \notin Match \cup Game /\ None \notin MatchIds

\* A search or friend room of wallet w: creator is the seat (1 or 2) that
\* publishes, 0 before there is a pair.
NewMatch(w, code) == [status |-> "waiting", code |-> code, players |-> <<w>>,
                      creator |-> 0, game |-> None, bot |-> FALSE]

Seated(m) == 
    IF matches[m] = None THEN {} ELSE {matches[m].players[i] : i \in DOMAIN matches[m].players}
Live(m) == matches[m] # None /\ matches[m].status \in {"waiting", "matched"}
Private(m) == matches[m].code # None

\* botHasLiveGame
BotHasLiveGame == \E g \in GameIds : games[g] # None /\ games[g].joiner = Bot /\ ~games[g].completed

-----------------------------------------------------------------------------
(***************************************************************************)
(* The rules the store applies inside its mutations                        *)
(***************************************************************************)
\* sweepIdleMatches: the live matches some person of which has not polled for
\* 30 seconds.  Browsers are closed, and stop polling while the wallet signs,
\* so it may be any of them; the bot never polls and is not looked at.
Watched == {m \in MatchIds : Live(m) /\ Seated(m) \ {Bot} # {}}

\* cancelActiveMatchesFor.  Its mutant lets a search of the wallet go on.
RoomsOf(w) == {m \in MatchIds : Live(m) /\ Private(m) /\ w \in Seated(m)}
ActiveOf(w) == {m \in MatchIds : Live(m) /\ w \in Seated(m)}

Cancelled(S) == [m \in MatchIds |->
    IF m \in S THEN [matches[m] EXCEPT !.status = "cancelled"] ELSE matches[m]]

\* pruneQueue.  Its mutant forgets to.
Unpruned(S) == queue
Pruned(S) == queue \ S

\* releaseBotLeaseFor, for every match of S.
LeaseWithout(S) == IF lease \in S /\ ~BotHasLiveGame THEN None ELSE lease

Seat(r, w, creator) ==
    [r EXCEPT !.players = Append(@, w), !.status = "matched", !.creator = creator]

-----------------------------------------------------------------------------
(***************************************************************************)
(* The players                                                             *)
(***************************************************************************)
\* joinMatchmaking: sweep, retire the wallet's other sessions, then take the
\* seat of the longest waiting search or wait.
Join(w, idle) ==
    LET gone == idle \cup ActiveOf(w)
        open == Pruned(gone) IN
    /\ lease' = LeaseWithout(gone)
    /\ \/ /\ open = {}
          /\ opened < MaxMatches
          /\ opened' = opened + 1
          /\ matches' = [Cancelled(gone) EXCEPT ![opened + 1] = NewMatch(w, None)]
          /\ queue' = {opened + 1}
       \/ \E m \in open, creator \in 1..2 :
          /\ \A n \in open : m <= n
          /\ matches' = [Cancelled(gone) EXCEPT ![m] = Seat(@, w, creator)]
          /\ queue' = open \ {m}
          /\ UNCHANGED opened
    /\ UNCHANGED <<games, secrets, prepared, memory, history>>

\* createPrivateMatch: the code must be free among live rooms.  The mutant
\* does not look.
CodeUnchecked(code, gone) == FALSE
CodeTaken(code, gone) == \E m \in MatchIds \ gone : Live(m) /\ matches[m].code = code

CreateRoom(w, code, idle) ==
    LET gone == idle \cup ActiveOf(w) IN
    /\ ~CodeTaken(code, gone)
    /\ opened < MaxMatches
    /\ opened' = opened + 1
    /\ matches' = [Cancelled(gone) EXCEPT ![opened + 1] = NewMatch(w, code)]
    /\ queue' = Pruned(gone)
    /\ lease' = LeaseWithout(gone)
    /\ UNCHANGED <<games, secrets, prepared, memory, history>>

\* joinPrivateRoom: a seated wallet may return, another may take the open
\* seat.
MayEnter(w, m) ==
    w \in Seated(m) \/ (matches[m].status = "waiting" /\ Len(matches[m].players) = 1)

\* joinPrivateMatch and joinPrivateMatchByCode: neither retires the other
\* sessions of the guest.
JoinRoom(w, m, idle) ==
    /\ m \notin idle /\ Live(m) /\ Private(m)
    /\ MayEnter(w, m)
    /\ matches' = IF w \in Seated(m) THEN Cancelled(idle)
                  ELSE [Cancelled(idle) EXCEPT ![m] = Seat(@, w, 1)]
    /\ queue' = Pruned(idle)
    /\ lease' = LeaseWithout(idle)
    /\ UNCHANGED <<games, secrets, prepared, opened, memory, history>>

JoinRoomByCode(w, code, idle) ==
    \E m \in MatchIds \ idle : Live(m) /\ matches[m].code = code /\ JoinRoom(w, m, idle)

\* What claimWaitingMatchForBot asks of the match.  The mutants do not look at
\* its status, or at the lease.
MayClaimMatched(m, idle) == m \notin idle /\ Live(m) /\ ~Private(m) /\ lease = None
MayClaimLeased(m, idle) == m \notin idle /\ matches[m].status = "waiting" /\ ~Private(m)
MayClaim(m, idle) ==
    /\ m \notin idle
    /\ matches[m].status = "waiting"
    /\ ~Private(m)
    /\ lease = None

\* offerBot: the waiting player gives the second seat to the bot.
OfferBot(w, m, idle) ==
    /\ matches[m] # None
    /\ MayClaim(m, idle)
    /\ matches[m].players[1] = w
    /\ matches' = [Cancelled(idle) EXCEPT ![m] = [Seat(@, Bot, 1) EXCEPT !.bot = TRUE]]
    /\ queue' = Pruned(idle \cup {m})
    /\ lease' = m
    /\ UNCHANGED <<games, secrets, prepared, opened, memory, history>>

\* The players that stay, in their order.
Without(players, w) ==
    IF players[1] = w THEN Tail(players)
    ELSE IF Len(players) = 2 /\ players[2] = w THEN <<players[1]>> ELSE players

\* leaveMatch: the wallet loses its seat, in a started match too.
Leave(w, m) ==
    /\ w \in Seated(m)
    /\ matches[m].status # "cancelled"
    /\ matches' = [matches EXCEPT
            ![m].players = Without(@, w),
            ![m].status = IF Live(m) THEN "cancelled" ELSE @]
    /\ queue' = Pruned({m})
    /\ lease' = IF Live(m) THEN LeaseWithout({m}) ELSE lease
    /\ UNCHANGED <<games, secrets, prepared, opened, memory, history>>

-----------------------------------------------------------------------------
(***************************************************************************)
(* Publishing and joining the game of a match                              *)
(***************************************************************************)
MayPublish(m) == matches[m] # None /\ matches[m].status = "matched"

\* prepareCreation, #validateMatchCreation
PrepareCreation(m) ==
    /\ MayPublish(m)
    /\ prepared' = prepared \cup {<<m, matches[m].players[matches[m].creator]>>}
    /\ prepared' # prepared
    /\ UNCHANGED <<matches, queue, lease, games, secrets, memory, opened, history>>

\* submitCreation: the game is stored with its match before the match is
\* looked at again; one that is no longer matched gets no game.  The creator
\* may have several preparations, and each makes a game of its own.
SubmitCreation(w, m) ==
    /\ <<m, w>> \in prepared
    /\ \E g \in GameIds :
          /\ games[g] = None
          /\ \A h \in 1..g - 1 : games[h] # None
          /\ games' = [games EXCEPT ![g] = [match |-> m, by |-> w, joiner |-> None, completed |-> FALSE]]
          /\ publishing' = IF MayPublish(m) THEN publishing \cup {g} ELSE publishing
    /\ UNCHANGED <<matches, queue, lease, secrets, prepared, joining, scan, opened, history>>

\* #attachMatchGame, after its check: the update asks nothing any more.
Attach(g) ==
    LET m == games[g].match IN
    /\ g \in publishing
    /\ publishing' = publishing \ {g}
    /\ matches' = IF matches[m] = None THEN matches
                  ELSE [matches EXCEPT ![m].game = g, ![m].status = "started"]
    /\ late' = (late \/ (matches[m] # None /\ matches[m].status # "matched"))
    /\ UNCHANGED <<queue, lease, games, secrets, prepared, joining, scan, opened, orphaned>>

\* #validateMatchJoin
MayJoin(w, g) ==
    LET r == matches[games[g].match] IN
    /\ games[g].joiner = None
    /\ r # None
    /\ r.status = "started"
    /\ r.game = g
    /\ \E i \in DOMAIN r.players : r.players[i] = w /\ i # r.creator

\* submitJoin of a player.  A browser that published a game shows it and never
\* joins it (MATCH_VIEW.REOPEN).  What happens between a player's check and his
\* record is in GameBackend; here it is one step.
JoinGame(w, g) ==
    /\ games[g] # None
    /\ games[g].by # w
    /\ ~games[g].completed
    /\ MayJoin(w, g)
    /\ games' = [games EXCEPT ![g].joiner = w]
    /\ UNCHANGED <<matches, queue, lease, secrets, prepared, memory, opened, history>>

\* completeGame: the game ended on the chain.
CompleteGame(g) ==
    LET m == games[g].match
        others == \E h \in GameIds \ {g} :
                     games[h] # None /\ games[h].joiner = Bot /\ ~games[h].completed IN
    /\ games[g] # None
    /\ ~games[g].completed
    /\ games' = [games EXCEPT ![g].completed = TRUE]
    /\ matches' = [matches EXCEPT ![m] = None]
    /\ queue' = Pruned({m})
    /\ lease' = IF lease = m /\ ~others THEN None ELSE lease
    /\ secrets' = secrets \ {g}
    /\ orphaned' = (orphaned \/ \E h \in joining \ {g} : games[h].match = m)
    /\ UNCHANGED <<prepared, memory, opened, late>>

-----------------------------------------------------------------------------
(***************************************************************************)
(* The fallback bot: one scan at a time, over the matches as they were     *)
(* when it began                                                           *)
(***************************************************************************)
BotMatches == {m \in MatchIds : matches[m] # None /\ matches[m].bot}
BotIsFree == joining = {}
Visited(m) == scan' = [n \in DOMAIN scan \ {m} |-> scan[n]]

\* runOnce, listMatches
BotScan ==
    /\ DOMAIN scan = {}
    /\ BotIsFree
    /\ BotMatches # {}
    /\ scan' = [m \in BotMatches |-> [status |-> matches[m].status, game |-> matches[m].game]]
    /\ UNCHANGED <<store, publishing, joining, opened, history>>

BotTurn(m) == m \in DOMAIN scan /\ BotIsFree

\* #advanceMatch of a cancelled match.  The mutant forgets the lease.
NotReleased(m) == lease
Released(m) == LeaseWithout({m})

BotReleases(m) ==
    /\ BotTurn(m)
    /\ scan[m].status = "cancelled"
    /\ lease' = Released(m)
    /\ Visited(m)
    /\ UNCHANGED <<matches, queue, games, secrets, prepared, publishing, joining, opened, history>>

\* #advanceMatch of a match nobody published within five minutes: it is
\* cancelled as it was in the snapshot; the release is the next store call.
BotExpires(m) ==
    /\ BotTurn(m)
    /\ scan[m].status = "matched"
    /\ matches' = IF matches[m] = None THEN matches
                  ELSE [matches EXCEPT ![m].status = "cancelled"]
    /\ scan' = [scan EXCEPT ![m].status = "cancelled"]
    /\ UNCHANGED <<queue, lease, games, secrets, prepared, publishing, joining, opened, history>>

\* #ensureJoin has nothing to do, the five minutes are not over, or the join
\* is refused for now.
BotSkips(m) ==
    /\ BotTurn(m)
    /\ scan[m].status # "cancelled"
    /\ Visited(m)
    /\ UNCHANGED <<store, publishing, joining, opened, history>>

BotMayJoin(m) ==
    /\ BotTurn(m)
    /\ scan[m].status = "started"
    /\ games[scan[m].game].joiner = None

\* #botSecret: the secret is stored before the join is prepared.
BotSavesSecret(m) ==
    /\ BotMayJoin(m)
    /\ scan[m].game \notin secrets
    /\ secrets' = secrets \cup {scan[m].game}
    /\ UNCHANGED <<matches, queue, lease, games, prepared, memory, opened, history>>

\* The mutant stores the secret some time later.
SecretLater(g) == TRUE
SecretReady(g) == g \in secrets

BotJoins(m) ==
    /\ BotMayJoin(m)
    /\ SecretReady(scan[m].game)
    /\ MayJoin(Bot, scan[m].game)
    /\ joining' = {scan[m].game}
    /\ Visited(m)
    /\ UNCHANGED <<store, publishing, opened, history>>

\* submitJoin of the bot: the node takes the join and the record says so; or
\* the escrow is spent and the join is refused.
BotIsJoined(g) ==
    /\ g \in joining
    /\ joining' = {}
    /\ games' = IF games[g].completed \/ games[g].joiner # None THEN games
                ELSE [games EXCEPT ![g].joiner = Bot]
    /\ UNCHANGED <<matches, queue, lease, secrets, prepared, publishing, scan, opened, history>>

\* #advanceGame of a completed game
BotGameOver(g) ==
    /\ BotIsFree
    /\ games[g] # None
    /\ games[g].joiner = Bot
    /\ games[g].completed
    /\ lease = games[g].match
    /\ lease' = LeaseWithout({games[g].match})
    /\ UNCHANGED <<matches, queue, games, secrets, prepared, memory, opened, history>>

\* The server dies: the store survives, what the handlers knew does not.
Crash ==
    /\ publishing # {} \/ joining # {} \/ DOMAIN scan # {}
    /\ publishing' = {}
    /\ joining' = {}
    /\ scan' = <<>>
    /\ UNCHANGED <<store, opened, history>>

-----------------------------------------------------------------------------
Init ==
    /\ matches = [m \in MatchIds |-> None]
    /\ queue = {}
    /\ lease = None
    /\ games = [g \in GameIds |-> None]
    /\ secrets = {}
    /\ opened = 0
    /\ prepared = {}
    /\ publishing = {}
    /\ joining = {}
    /\ scan = <<>>
    /\ late = FALSE /\ orphaned = FALSE

BotStep ==
    \/ BotScan
    \/ \E m \in MatchIds :
          BotReleases(m) \/ BotExpires(m) \/ BotSkips(m) \/ BotSavesSecret(m) \/ BotJoins(m)
    \/ \E g \in GameIds : BotIsJoined(g) \/ BotGameOver(g)

Next ==
    \/ \E w \in Wallets, idle \in SUBSET Watched :
          \/ Join(w, idle)
          \/ \E code \in Codes : CreateRoom(w, code, idle) \/ JoinRoomByCode(w, code, idle)
          \/ \E m \in MatchIds : JoinRoom(w, m, idle) \/ OfferBot(w, m, idle)
    \/ \E w \in Wallets, m \in MatchIds : Leave(w, m)
    \/ \E m \in MatchIds : PrepareCreation(m)
    \/ \E w \in Wallets, m \in MatchIds : SubmitCreation(w, m)
    \/ \E g \in GameIds : Attach(g) \/ CompleteGame(g)
    \/ \E w \in Wallets, g \in GameIds : JoinGame(w, g)
    \/ BotStep
    \/ Crash

Spec == Init /\ [][Next]_vars

\* The bot's interval, the keeper and the handlers go on, the server does not
\* die in every scan, and the five minutes of an unpublished match are over at
\* some scan.  That a game ends for the backend as well is assumed: in
\* GameBackend its record stays open when the payout is spent before it is seen,
\* and then the lease would stay too.
Fairness ==
    /\ WF_vars(BotScan \/ \E m \in MatchIds : BotSkips(m))
    /\ \A m \in MatchIds : SF_vars(BotReleases(m))
    /\ SF_vars(\E m \in MatchIds : BotExpires(m))
    /\ WF_vars(\E g \in GameIds : CompleteGame(g))
    /\ WF_vars(\E g \in GameIds : BotIsJoined(g) \/ BotGameOver(g))

FairSpec == Spec /\ Fairness
-----------------------------------------------------------------------------
(***************************************************************************)
(* Properties                                                              *)
(***************************************************************************)
\* Every variable holds what the store and the handlers may put there; a
\* match has at most two seats.
TypeOK ==
    /\ matches \in [MatchIds -> Match \cup {None}]
    /\ \A m \in MatchIds : matches[m] # None => Len(matches[m].players) <= 2
    /\ queue \subseteq MatchIds
    /\ lease \in MatchIds \cup {None}
    /\ games \in [GameIds -> Game \cup {None}]
    /\ secrets \subseteq GameIds
    /\ opened \in 0..MaxMatches
    /\ prepared \subseteq MatchIds \X Wallets
    /\ publishing \subseteq GameIds
    /\ joining \subseteq GameIds
    /\ DOMAIN scan \subseteq MatchIds
    /\ scan \in [DOMAIN scan -> [status : Status, game : GameIds \cup {None}]]
    /\ late \in BOOLEAN /\ orphaned \in BOOLEAN

\* The queue holds every public search that waits, and nothing else:
\* nobody waits unseen by the next player, and nobody is paired with a search
\* that was left, swept, replaced or given to the bot.
QueueIsWaiting ==
    queue = {m \in MatchIds : Live(m) /\ ~Private(m) /\ matches[m].status = "waiting"}

\* "A wallet may hold only one live session, so opening a new one retires the
\* old": of the sessions a wallet opened or was paired in by the queue, at
\* most one is live.  The seat it takes in a friend's room comes on top.
OpenFor(w, m) ==
    Live(m) /\ w \in Seated(m) /\ (~Private(m) \/ matches[m].players[1] = w)

OneOpenSession ==
    \A w \in Wallets, m, n \in MatchIds : OpenFor(w, m) /\ OpenFor(w, n) => m = n

\* A room code is an alias of one live room, whoever waits or is matched in it.
CodeNamesOneRoom ==
    \A m, n \in MatchIds :
        Live(m) /\ Live(n) /\ Private(m) /\ matches[m].code = matches[n].code => m = n

\* Once two wallets are paired nobody else gets a seat, whether through the
\* queue, a link, a code or the offer of the bot.
SeatIsTakenOnce ==
    [][\A m \in MatchIds :
          matches[m] # None /\ matches[m].status # "waiting" => Seated(m)' \subseteq Seated(m)]_vars

\* The bot's join is never on record without the secret behind its
\* commitment in the store, whatever restart happened since.
BotKeepsItsSecret ==
    \A g \in GameIds :
        games[g] # None /\ games[g].joiner = Bot /\ ~games[g].completed => g \in secrets

BotGames == {g \in GameIds : games[g] # None /\ games[g].joiner = Bot /\ ~games[g].completed}

\* "The same bot wallet is never committed to two live games at once."
BotInOneGame == \A g, h \in BotGames : g = h

\* ... unless a creation was attached to a match that had been cancelled, or
\* started, since the check; or a second creation of the bot's match ended in
\* the moment the bot joined the first, and took the lease with the match: the
\* only ways the code loses the rule.
BotInOneGameUnlessLate == late \/ orphaned \/ BotInOneGame

\* Whatever match the bot takes, its lease is free again some day: when the
\* match is left, swept, expires, or when its game ends; with the same two
\* exceptions, after which nothing may be left to release it.
LeaseIsReleased == []<>(lease = None \/ late \/ orphaned)
=============================================================================
