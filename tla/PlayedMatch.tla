---------------------------- MODULE PlayedMatch ----------------------------
(***************************************************************************)
(* What the server knows of the match of one player and of its game, as    *)
(* far as his browser can tell states apart, and what the others do to     *)
(* them.  Matchmaking and GameBackend are the detailed models of the two.  *)
(***************************************************************************)
EXTENDS RevealSecrets

VARIABLES
    mode,       \* how he plays: "public", "host" or "guest"
    seat,       \* his match: "none", "waiting", "matched", "started", "left"
                \* by the opponent, "cancelled", or "gone"
    role,       \* his role in it: "creator", "joiner", or None while it waits
    game,       \* its game: "none", "open", "joined", "rival" revealed,
                \* "mine": he revealed, "over", or "gone"
    route,      \* the page he is on: "lobby", "game" or "home"
    committed   \* the number whose commitment his locked stake carries, or None

serverVars == <<mode, seat, role, game, committed>>

Seats == {"none", "waiting", "matched", "started", "left", "cancelled", "gone"}
Games == {"none", "open", "joined", "rival", "mine", "over", "gone"}
Playing == {"joined", "rival", "mine"}

ASSUME PlayerAssumption == None \notin Seats \cup Games \cup Operations \cup {"creator", "joiner"}

\* The roles a player of this mode may get: the host of a room creates its
\* game, the bot never does, the queue draws.
RolesOf(m) ==
    IF m = "host" THEN {"creator"} ELSE IF m = "guest" THEN {"joiner"} ELSE {"creator", "joiner"}

OpponentArrives ==
    /\ seat = "waiting"
    /\ seat' = "matched"
    /\ role' \in RolesOf(mode)
    /\ UNCHANGED <<mode, game, committed>>

\* The match ends before its game exists: the opponent leaves or is swept,
\* the bot gives up, or the player is swept while his page does not poll.
MatchEnds ==
    /\ seat \in {"waiting", "matched"}
    /\ seat' = "cancelled"
    /\ UNCHANGED <<mode, role, game, committed>>

OpponentPublishes ==
    /\ seat = "matched" /\ role = "joiner"
    /\ seat' = "started"
    /\ game' = "open"
    /\ UNCHANGED <<mode, role, committed>>

OpponentLeaves ==
    /\ seat = "started"
    /\ seat' = "left"
    /\ UNCHANGED <<mode, role, game, committed>>

\* Leaving a match whose game exists takes nobody's right to join that game.
RivalJoins ==
    /\ game = "open" /\ seat \in {"started", "left"} /\ role = "creator"
    /\ game' = "joined"
    /\ UNCHANGED <<mode, seat, role, committed>>

RivalReveals ==
    /\ game = "joined"
    /\ game' = "rival"
    /\ UNCHANGED <<mode, seat, role, committed>>

\* completeGame: a refund, a claim or the settlement is final; the match of
\* the game is deleted with it.
GameEnds ==
    /\ game \in {"open"} \cup Playing
    /\ game' = "over"
    /\ seat' = IF seat \in {"started", "left"} THEN "gone" ELSE seat
    /\ UNCHANGED <<mode, role, committed>>

\* The finished game is no longer served.
GameForgotten ==
    /\ game = "over"
    /\ game' = "gone"
    /\ UNCHANGED <<mode, seat, role, committed>>

Others ==
    \/ OpponentArrives \/ MatchEnds \/ OpponentPublishes \/ OpponentLeaves
    \/ RivalJoins \/ RivalReveals \/ GameEnds \/ GameForgotten

\* submitCreation of the player, with the number behind his commitment: the
\* stake is locked and the game stored before the match is looked at.
CreationLands(c) ==
    /\ game = "none"
    /\ committed' = c
    /\ game' = "open"
    /\ seat' = IF seat = "matched" THEN "started" ELSE seat
    /\ UNCHANGED <<mode, role>>

\* submitJoin of the player, who knows the game from his match.
JoinLands(c) ==
    /\ game = "open"
    /\ committed' = c
    /\ game' = "joined"
    /\ UNCHANGED <<mode, seat, role>>

\* submitReveal of the player.
RevealLands ==
    /\ game \in {"joined", "rival"}
    /\ game' = "mine"
    /\ UNCHANGED <<mode, seat, role, committed>>
=============================================================================
