---------------------------- MODULE MCEconomics ----------------------------
(***************************************************************************)
(* The amounts of a game and the funding of its transactions, side by      *)
(* side: they share no variable, so each is followed while the other       *)
(* rests.                                                                  *)
(*                                                                         *)
(* Economics in units of 1/100 KAS: every stake from 1 KAS to 52 KAS, so   *)
(* that the pot crosses 100 KAS, the point from which a game fee is due.   *)
(*                                                                         *)
(* TransactionFunding in units of 1000 sompi and 10 grams, in which the    *)
(* relay floor is 1: purses whose rest beside a stake of 1 KAS goes from   *)
(* nothing to 0.6 KAS in steps of 0.01, in one coin or in two, with a coin *)
(* of the game among them, or split over small coins.                      *)
(***************************************************************************)
EXTENDS Economics, TransactionFunding

OneKas == 100000
MCLocks == {OneKas}

Coin(amount) == [amount |-> amount, game |-> FALSE]
GameCoin(amount) == [amount |-> amount, game |-> TRUE]
Rests == {1000 * k + 37 : k \in 0..60}

MCPurses ==
    {<<Coin(OneKas + r)>> : r \in Rests} \cup {<<Coin(OneKas), Coin(r)>> : r \in Rests}
        \cup {<<Coin(r)>> : r \in Rests}
        \cup {<<GameCoin(2 * OneKas), Coin(OneKas + 50000)>>, <<GameCoin(OneKas)>>}
        \cup {<<Coin(60000)>> \o [i \in 1..10 |-> Coin(3000 - i)]}

\* What moves: the game or the funding.
MCInit == Init /\ FundingInit
MCNext ==
    \/ step = "idle" /\ Next /\ UNCHANGED fundingVars
    \/ stage = "none" /\ FundingNext /\ UNCHANGED vars

MCSpec == MCInit /\ [][MCNext]_<<vars, fundingVars>>
=============================================================================
