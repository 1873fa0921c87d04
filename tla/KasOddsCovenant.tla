-------------------------- MODULE KasOddsCovenant --------------------------
(***************************************************************************)
(* The covenant of one game, covenant/kasodds.sil: the on-chain state      *)
(* machine every transaction that spends the game output must obey.        *)
(* One action per entry point; an action is the acceptance by the network  *)
(* of a transaction that satisfies that entry's require() statements.      *)
(*                                                                         *)
(* Amounts are integers in a unit of the instance's choice: MinStake is    *)
(* 1 KAS and FeeFloor 100 KAS in that unit.  DAA scores enter the covenant *)
(* only through two comparisons, so the clocks saturate: daa counts up to  *)
(* the deadline, age (ageDaa of the current output) up to Wait.            *)
(***************************************************************************)
EXTENDS Integers

CONSTANTS
    Players,        \* wallets
    Creator,        \* the wallet of creator_hash
    Wallet,         \* the address of game_wallet_hash
    NoPlayer,       \* the zero hash of joiner_hash and first_revealer_hash
    Stake,          \* init_stake
    CreatorEven,    \* init_creator_even
    Deadline,       \* init_deadline_daa, relative to the creation
    SettleFee,      \* init_settle_fee
    MinStake,       \* 100000000 sompi
    FeeFloor,       \* 10000000000 sompi
    Wait            \* 3000 DAA

ASSUME PartiesAssumption ==
    /\ Creator \in Players
    /\ Wallet \notin Players
    /\ NoPlayer \notin Players

\* What every entry requires of the constructor arguments (lines 67-69, 84-86)
\* and what protocol.js fixes: the fee is even and a small part of the least
\* stake (AUTOMATION_FEE_SOMPI against MIN_STAKE_SOMPI).
ASSUME TermsAssumption ==
    /\ MinStake \in Nat \ {0}
    /\ Stake \in Nat /\ Stake >= MinStake
    /\ CreatorEven \in {0, 1}
    /\ SettleFee \in Nat /\ SettleFee > 0 /\ SettleFee % 2 = 0
    /\ SettleFee < MinStake
    /\ FeeFloor = 100 * MinStake
    /\ Deadline \in Nat
    /\ Wait \in Nat \ {0}

VARIABLES
    status,             \* 0 waiting, 1 joined, 2 first reveal; 3 once spent
    joiner,             \* joiner_hash
    creator_choice,     \* 0 until the creator reveals
    joiner_choice,      \* 0 until the joiner reveals
    first_revealer,     \* first_revealer_hash
    commit,             \* the choice each player's commitment binds it to
    value,              \* amount of the covenant output, 0 once spent
    paid,               \* amount each address received from the covenant
    burned,             \* amount left to the network as fee
    exit,               \* the entry that spent the covenant without successor
    daa,                \* chain DAA score since the creation, up to Deadline
    age                 \* ageDaa of the covenant output, up to Wait

vars == <<status, joiner, creator_choice, joiner_choice, first_revealer,
          commit, value, paid, burned, exit, daa, age>>
state == <<status, joiner, creator_choice, joiner_choice, first_revealer>>

Exits == {"refund", "refund_open", "reveal", "fallback_claim", "refund_all"}
Addresses == Players \cup {Wallet}
gross_pot == Stake + Stake

\* Lines 205-211 and 236-242: one per cent of a pot of 100 KAS or more.
GameFee == IF gross_pot >= FeeFloor THEN gross_pot \div 100 ELSE 0

Init ==
    /\ status = 0
    /\ joiner = NoPlayer
    /\ creator_choice = 0
    /\ joiner_choice = 0
    /\ first_revealer = NoPlayer
    /\ commit \in [Players -> {0, 1}]
    /\ value = Stake
    /\ paid = [a \in Addresses |-> 0]
    /\ burned = 0
    /\ exit = "none"
    /\ daa = 0
    /\ age = 0

-----------------------------------------------------------------------------
\* Mutant of Close: what is left for the network, with the wrong sign.
CloseInverted(entry, outs, total) ==
    /\ exit' = entry
    /\ paid' = [a \in Addresses |-> IF a \in DOMAIN outs THEN outs[a] ELSE 0]
    /\ burned' = total - value
    /\ value' = 0
    /\ status' = 3
    /\ UNCHANGED <<commit, daa, age>>

\* A spend without a continuation: the outputs are `outs`, the rest of the
\* covenant value is the network's.  (Were `total` above value, the signing
\* player's own inputs would have to make up for it: burned < 0.)
Close(entry, outs, total) ==
    /\ exit' = entry
    /\ paid' = [a \in Addresses |-> IF a \in DOMAIN outs THEN outs[a] ELSE 0]
    /\ burned' = value - total
    /\ value' = 0
    /\ status' = 3
    /\ UNCHANGED <<commit, daa, age>>

\* A spend into a continuation output of amount v, which starts to age anew.
Continue(v) ==
    /\ value' = v
    /\ age' = 0
    /\ UNCHANGED <<commit, paid, burned, exit, daa>>

\* Entry refund: signed by the creator, at any time before a join.
MayRefund == status = 0
Refund ==
    /\ MayRefund
    /\ Close("refund", [a \in {Creator} |-> Stake], Stake)
    /\ UNCHANGED <<joiner, creator_choice, joiner_choice, first_revealer>>

\* Entry refund_open: anybody, once the deadline has passed.
MayRefundOpen == status = 0 /\ value = Stake /\ daa >= Deadline
RefundOpen ==
    /\ MayRefundOpen
    /\ Close("refund_open", [a \in {Creator} |-> Stake - SettleFee], Stake - SettleFee)
    /\ UNCHANGED <<joiner, creator_choice, joiner_choice, first_revealer>>

\* Entry join: another wallet matches the stake.  No require() looks at the
\* deadline.
Join(p) ==
    /\ status = 0
    /\ p # Creator
    /\ value = Stake
    /\ status' = 1
    /\ joiner' = p
    /\ Continue(Stake + Stake)
    /\ UNCHANGED <<creator_choice, joiner_choice, first_revealer>>

\* The choices the covenant holds once p has revealed.
CreatorChoiceAfter(p) == IF p = Creator THEN commit[p] ELSE creator_choice
JoinerChoiceAfter(p) == IF p = Creator THEN joiner_choice ELSE commit[p]

\* Entry reveal, status 1: the first player to reveal is written down.
MayRevealFirst(p) == status = 1 /\ p \in {Creator, joiner}
RevealFirst(p) ==
    /\ MayRevealFirst(p)
    /\ status' = 2
    /\ first_revealer' = p
    /\ creator_choice' = CreatorChoiceAfter(p)
    /\ joiner_choice' = JoinerChoiceAfter(p)
    /\ Continue(Stake + Stake)
    /\ UNCHANGED joiner

\* Mutant of WinnerAfter: the parity read the other way round.
LoserAfter(p) ==
    IF (CreatorChoiceAfter(p) + JoinerChoiceAfter(p)) % 2 = CreatorEven
    THEN Creator
    ELSE joiner

\* creator_wins, line 199: an odd sum unless the creator took the even side.
WinnerAfter(p) ==
    IF (CreatorChoiceAfter(p) + JoinerChoiceAfter(p)) % 2 # CreatorEven
    THEN Creator
    ELSE joiner

\* Entry reveal, status 2: the other player reveals and the winner is paid.
MayRevealSecond(p) == status = 2 /\ p \in {Creator, joiner} /\ p # first_revealer
RevealSecond(p) ==
    /\ MayRevealSecond(p)
    /\ creator_choice' = CreatorChoiceAfter(p)
    /\ joiner_choice' = JoinerChoiceAfter(p)
    /\ Close("reveal",
             [a \in {WinnerAfter(p), Wallet} |->
                IF a = Wallet THEN GameFee ELSE gross_pot - GameFee],
             gross_pot)
    /\ UNCHANGED <<joiner, first_revealer>>

\* Mutants of FallbackClaim: the game fee is not taken off the pot; the value
\* required is that of an unmatched game; the pot goes to the silent player.
FallbackClaimFeeFree ==
    /\ status = 2
    /\ age >= Wait
    /\ value = gross_pot
    /\ Close("fallback_claim",
             [a \in {first_revealer, Wallet} |->
                IF a = Wallet THEN GameFee ELSE gross_pot - SettleFee],
             gross_pot - SettleFee)
    /\ UNCHANGED <<joiner, creator_choice, joiner_choice, first_revealer>>
FallbackClaimOfStake ==
    /\ status = 2
    /\ age >= Wait
    /\ value = Stake
    /\ Close("fallback_claim",
             [a \in {first_revealer, Wallet} |->
                IF a = Wallet THEN GameFee ELSE gross_pot - GameFee - SettleFee],
             gross_pot - SettleFee)
    /\ UNCHANGED <<joiner, creator_choice, joiner_choice, first_revealer>>

FallbackClaimToSilent ==
    /\ status = 2
    /\ age >= Wait
    /\ value = gross_pot
    /\ Close("fallback_claim",
             [a \in ({Creator, joiner} \ {first_revealer}) \cup {Wallet} |->
                IF a = Wallet THEN GameFee ELSE gross_pot - GameFee - SettleFee],
             gross_pot - SettleFee)
    /\ UNCHANGED <<joiner, creator_choice, joiner_choice, first_revealer>>

\* Entry fallback_claim: anybody, once the first reveal has aged.
MayFallbackClaim == status = 2 /\ age >= Wait /\ value = gross_pot
FallbackClaim ==
    /\ MayFallbackClaim
    /\ Close("fallback_claim",
             [a \in {first_revealer, Wallet} |->
                IF a = Wallet THEN GameFee ELSE gross_pot - GameFee - SettleFee],
             gross_pot - SettleFee)
    /\ UNCHANGED <<joiner, creator_choice, joiner_choice, first_revealer>>

\* Entry refund_all: anybody, once a join has aged without a reveal.
MayRefundAll == status = 1 /\ value = gross_pot /\ gross_pot > SettleFee /\ age >= Wait
RefundAll ==
    /\ MayRefundAll
    /\ Close("refund_all",
             [a \in {Creator, joiner} |-> Stake - SettleFee \div 2],
             gross_pot - 2 * (SettleFee \div 2))
    /\ UNCHANGED <<joiner, creator_choice, joiner_choice, first_revealer>>

\* The chain's DAA score grows; only the two comparisons above can tell.
Tick ==
    /\ status # 3
    /\ daa < Deadline \/ age < Wait
    /\ daa' = IF daa < Deadline THEN daa + 1 ELSE daa
    /\ age' = IF age < Wait THEN age + 1 ELSE age
    /\ UNCHANGED <<state, commit, value, paid, burned, exit>>

Next ==
    \/ Refund
    \/ RefundOpen
    \/ \E p \in Players : Join(p) \/ RevealFirst(p) \/ RevealSecond(p)
    \/ FallbackClaim
    \/ RefundAll
    \/ Tick

Spec == Init /\ [][Next]_vars

\* The chain moves on and somebody, typically the keeper of
\* backend-game-service.js, relays whatever permissionless entry is open.
\* Players owe the system nothing.
Fairness ==
    /\ WF_vars(Tick)
    /\ WF_vars(RefundOpen)
    /\ WF_vars(FallbackClaim)
    /\ WF_vars(RefundAll)

FairSpec == Spec /\ Fairness

-----------------------------------------------------------------------------
(***************************************************************************)
(* Properties                                                              *)
(***************************************************************************)
\* Every variable has its type; in particular the network's share is never
\* negative, so no player has to pay in to close a game.
TypeOK ==
    /\ status \in 0..3
    /\ joiner \in Players \cup {NoPlayer}
    /\ creator_choice \in {0, 1} /\ joiner_choice \in {0, 1}
    /\ first_revealer \in Players \cup {NoPlayer}
    /\ commit \in [Players -> {0, 1}]
    /\ value \in Nat
    /\ paid \in [Addresses -> Nat]
    /\ burned \in Nat
    /\ exit \in Exits \cup {"none"}
    /\ daa \in 0..Deadline
    /\ age \in 0..Wait

Deposits == IF joiner = NoPlayer THEN Stake ELSE gross_pot
PaidTo(a) == IF a \in Addresses THEN paid[a] ELSE 0

\* No sompi of the two stakes appears or disappears, in whatever order the
\* players and the relayers act: what was locked is still locked, or was paid
\* to the two players and the game wallet, or is the fixed relay fee of a
\* timeout.  Player-signed spends (refund, reveal) cost the game nothing
\* ("No game value is ever used for fees", kasodds.sil:65).
Conservation ==
    /\ value + PaidTo(Creator) + PaidTo(joiner) + paid[Wallet] + burned = Deposits
    /\ \A a \in Players \ {Creator, joiner} : paid[a] = 0
    /\ burned = IF exit \in {"refund_open", "fallback_claim", "refund_all"}
               THEN SettleFee ELSE 0

\* The game fee is charged to a winner's pot and to nothing else, and whoever
\* locked a stake goes without payment only when both revealed, or when the
\* other one revealed and he did not (kasodds.sil:21, 30-33).
NobodyForfeitsSilently ==
    status = 3 =>
        /\ paid[Wallet] > 0 => exit \in {"reveal", "fallback_claim"}
        /\ \A p \in {Creator, joiner} \ {NoPlayer} :
              paid[p] = 0 => exit = "reveal" \/ first_revealer \notin {NoPlayer, p}

\* The covenant keeps Wager's promise.  The second revealer is only known from
\* the way the covenant was spent.
W == INSTANCE Wager WITH
        Fee <- GameFee,
        TimeoutFee <- SettleFee,
        phase <- IF status = 0 THEN "open" ELSE IF status = 3 THEN "closed" ELSE "matched",
        opponent <- joiner,
        committed <- commit,
        revealed <- IF exit = "reveal" THEN {Creator, joiner}
                    ELSE IF first_revealer = NoPlayer THEN {} ELSE {first_revealer}

\* Whatever the order of joins, reveals, refunds and relayed timeouts, the
\* covenant pays exactly what the players' commitments and reveals entitle
\* them to.
ImplementsWager == W!Spec

Stage ==
    CASE status = 0 -> "waiting" [] status = 1 -> "joined" [] status = 2 -> "revealed" [] status = 3 -> "over"

\* The covenant without its amounts and choices.  Its age no longer matters
\* once it is spent.
E == INSTANCE Escrow WITH
        Nobody <- NoPlayer,
        phase <- Stage,
        leader <- first_revealer,
        end <- exit,
        expired <- daa >= Deadline,
        aged <- status # 3 /\ age >= Wait

\* The order, the authors and the waits that GameChain relies on are those of
\* the script.
ImplementsEscrow == E!Spec

\* Locked value never stays locked: with a relayer for the permissionless
\* entries, every game is eventually spent, even if no player ever acts again.
EscrowReleased == <>(status = 3)
=============================================================================
