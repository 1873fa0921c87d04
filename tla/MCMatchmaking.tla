--------------------------- MODULE MCMatchmaking ---------------------------
(***************************************************************************)
(* The instances of Matchmaking that TLC checks.                           *)
(***************************************************************************)
EXTENDS Matchmaking

CONSTANTS Caller      \* the wallet that may publish a third game

\* What the players leave out: a third game, unless one wallet that searches in
\* public is the only one that plays.  They leave out to begin, never to go on:
\* no fair step is lost.
Games ==
    (\E g \in GameIds : g > 2 /\ games[g] # None) =>
        /\ \A g \in GameIds : games[g].by = Caller /\ games[g].joiner \in {Bot, None}
        /\ \A m \in MatchIds : Seated(m) \subseteq {Caller, Bot} /\ (matches[m] # None => ~Private(m))

\* The action constraint of the run.
GamesStay == Games'
=============================================================================
