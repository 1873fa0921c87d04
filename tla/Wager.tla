------------------------------- MODULE Wager -------------------------------
(***************************************************************************)
(* What an even/odd wager promises its two players, whoever submits the    *)
(* transactions: the stake of an unmatched wager goes back to its creator, *)
(* a matched pot is paid out once, and who is paid depends only on which   *)
(* players revealed and on the choices they committed to.  Network fees    *)
(* are taken from the pot only by the permissionless timeouts.             *)
(*                                                                         *)
(* This is the abstract specification that KasOddsCovenant, the state      *)
(* machine of covenant/kasodds.sil, is shown to implement.                 *)
(***************************************************************************)
EXTENDS Integers

CONSTANTS
    Players,        \* who may join; the creator is one of them
    Creator,        \* the player who opens the wager
    Wallet,         \* the operator's fee address, not a player
    NoPlayer,       \* "nobody yet"
    Stake,          \* what each player locks
    Fee,            \* the game fee, taken from a pot that has a winner
    TimeoutFee,     \* the network fee a permissionless timeout spends
    CreatorEven     \* 1 when the creator wins on an even sum, else 0

VARIABLES
    phase,          \* "open", "matched", "closed"
    opponent,       \* the joiner, NoPlayer before the match
    committed,      \* the hidden choice, 0 or 1, each player committed to
    revealed,       \* the players whose choice is public
    paid            \* what each address received from the escrow

vars == <<phase, opponent, committed, revealed, paid>>

Pot == 2 * Stake

Nothing == [a \in Players \cup {Wallet} |-> 0]

\* The creator wins an even sum exactly when it took the even side.
Winner ==
    IF (committed[Creator] + committed[opponent]) % 2 = 1 - CreatorEven
    THEN Creator
    ELSE opponent

Init ==
    /\ phase = "open"
    /\ opponent = NoPlayer
    /\ committed \in [Players -> {0, 1}]
    /\ revealed = {}
    /\ paid = Nothing

Match(p) ==
    /\ phase = "open"
    /\ p # Creator
    /\ phase' = "matched"
    /\ opponent' = p
    /\ UNCHANGED <<committed, revealed, paid>>

\* The creator takes the whole stake back, or a relayer returns it less the
\* network fee.
Withdraw ==
    /\ phase = "open"
    /\ \E cost \in {0, TimeoutFee} :
          paid' = [Nothing EXCEPT ![Creator] = Stake - cost]
    /\ phase' = "closed"
    /\ UNCHANGED <<opponent, committed, revealed>>

RevealFirst(p) ==
    /\ phase = "matched"
    /\ revealed = {}
    /\ p \in {Creator, opponent}
    /\ revealed' = {p}
    /\ UNCHANGED <<phase, opponent, committed, paid>>

\* The second reveal decides the wager: all of the pot but the game fee.
RevealSecond ==
    /\ phase = "matched"
    /\ revealed # {}
    /\ revealed' = {Creator, opponent}
    /\ paid' = [Nothing EXCEPT ![Winner] = Pot - Fee, ![Wallet] = Fee]
    /\ phase' = "closed"
    /\ UNCHANGED <<opponent, committed>>

\* Nobody revealed: both get their stake back and share the network fee.
CallOff ==
    /\ phase = "matched"
    /\ revealed = {}
    /\ paid' = [a \in Players \cup {Wallet} |->
                  IF a \in {Creator, opponent} THEN Stake - TimeoutFee \div 2 ELSE 0]
    /\ phase' = "closed"
    /\ UNCHANGED <<opponent, committed, revealed>>

\* One player revealed and the other did not: the revealer takes the pot.
Forfeit(p) ==
    /\ phase = "matched"
    /\ revealed = {p}
    /\ paid' = [Nothing EXCEPT ![p] = Pot - Fee - TimeoutFee, ![Wallet] = Fee]
    /\ phase' = "closed"
    /\ UNCHANGED <<opponent, committed, revealed>>

Next ==
    \/ \E p \in Players : Match(p) \/ RevealFirst(p) \/ Forfeit(p)
    \/ Withdraw
    \/ RevealSecond
    \/ CallOff

Spec == Init /\ [][Next]_vars
=============================================================================
