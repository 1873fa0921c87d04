------------------------------- MODULE Escrow -------------------------------
(***************************************************************************)
(* How the escrow of one game may be spent: in which order, by whom, and   *)
(* not before which clock - and nothing about amounts or choices.          *)
(*                                                                         *)
(* There are two models of the same script, covenant/kasodds.sil.          *)
(* KasOddsCovenant has its entries with every value they move; GameChain   *)
(* has the transactions that the backend's node takes, in mempool and in   *)
(* blocks.  Escrow is what they have in common: each of them is shown to   *)
(* implement it, so that the node of the backend's model is no more        *)
(* permissive than the script.                                             *)
(***************************************************************************)
CONSTANTS
    Players,        \* wallets
    Creator,        \* the one that opens the game
    Nobody

VARIABLES
    phase,          \* "waiting", "joined", "revealed", "over"
    joiner,         \* who joined, Nobody before
    leader,         \* who revealed first, Nobody before
    end,            \* the entry that spent the escrow for good, "none" before
    expired,        \* the deadline of the game passed
    aged            \* the output is as old as the timeouts of a joined game ask for

vars == <<phase, joiner, leader, end, expired, aged>>

\* A game may be opened after its deadline.
Init ==
    /\ phase = "waiting"
    /\ joiner = Nobody /\ leader = Nobody
    /\ end = "none"
    /\ expired \in BOOLEAN /\ aged = FALSE

\* The new output is young.
Join(p) ==
    /\ phase = "waiting"
    /\ p # Creator
    /\ phase' = "joined" /\ joiner' = p
    /\ aged' = FALSE
    /\ UNCHANGED <<leader, end, expired>>

Lead(p) ==
    /\ phase = "joined"
    /\ p \in {Creator, joiner}
    /\ phase' = "revealed" /\ leader' = p
    /\ aged' = FALSE
    /\ UNCHANGED <<joiner, end, expired>>

Over(entry) ==
    /\ phase' = "over" /\ end' = entry
    /\ aged' = FALSE
    /\ UNCHANGED <<joiner, leader, expired>>

Withdraw == phase = "waiting" /\ Over("refund")
Expire == phase = "waiting" /\ expired /\ Over("refund_open")
CallOff == phase = "joined" /\ aged /\ Over("refund_all")
Settle(p) == phase = "revealed" /\ p \in {Creator, joiner} \ {leader} /\ Over("reveal")
Forfeit == phase = "revealed" /\ aged /\ Over("fallback_claim")

\* The two clocks run, the second one while there is an output to age.
Clock ==
    /\ expired' \in {expired, TRUE}
    /\ aged' \in IF phase = "over" THEN {aged} ELSE {aged, TRUE}
    /\ UNCHANGED <<phase, joiner, leader, end>>

Next ==
    \/ \E p \in Players : Join(p) \/ Lead(p) \/ Settle(p)
    \/ Withdraw \/ Expire \/ CallOff \/ Forfeit
    \/ Clock

Spec == Init /\ [][Next]_vars
=============================================================================
