----------------------------- MODULE Economics -----------------------------
(***************************************************************************)
(* The amounts of a game, computed twice: by src/protocol.js, from which   *)
(* the builders of src/terminal-transactions.js and the settlement keeper  *)
(* take every output value, and by the require() statements of             *)
(* covenant/kasodds.sil, which decide whether the network accepts them.    *)
(* The escrow of a game whose two sides disagree could never be spent.     *)
(***************************************************************************)
EXTENDS Integers, Sequences

CONSTANTS
    SompiPerKas,    \* SOMPI_PER_KAS, also the least stake
    AutomationFee,  \* AUTOMATION_FEE_SOMPI
    MaxStake,       \* MAX_STAKE_KAS in sompi
    Change          \* what a player's own inputs may leave over after the fee

ASSUME EconomicsAssumption ==
    /\ SompiPerKas \in Nat \ {0}
    /\ AutomationFee \in Nat /\ AutomationFee > 0 /\ AutomationFee % 2 = 0
    /\ AutomationFee < SompiPerKas
    /\ MaxStake \in Nat
    /\ Change \subseteq Nat

VARIABLES
    stake,      \* stakeSompi of the request
    stage,      \* "none", "open", "joined", "revealed", "spent"
    value,      \* amount of the covenant output
    tx          \* the transaction that spends it for good

vars == <<stake, stage, value, tx>>

NoTx == [entry |-> "none", outputs |-> <<>>]
Stakes == SompiPerKas..MaxStake

-----------------------------------------------------------------------------
(***************************************************************************)
(* protocol.js                                                             *)
(***************************************************************************)
grossPotSompi(s) == s * 2

\* Mutants of gameFeeSompi: the threshold excludes its boundary; the
\* denominator is missing.
FeeAboveMinimum(s) ==
    LET fee == grossPotSompi(s) \div 100
    IN IF fee > SompiPerKas THEN fee ELSE 0
FeeWithoutDenominator(s) ==
    LET fee == grossPotSompi(s)
    IN IF fee >= SompiPerKas THEN fee ELSE 0

\* One per cent of the pot, unless that is less than 1 KAS.
gameFeeSompi(s) ==
    LET fee == grossPotSompi(s) \div 100
    IN IF fee >= SompiPerKas THEN fee ELSE 0

winnerPayoutSompi(s) == grossPotSompi(s) - gameFeeSompi(s)

\* Mutant of automaticRefundPayoutSompi: each player pays the whole fee.
WholeFeeRefund(s) == s - AutomationFee
automaticRefundPayoutSompi(s) == s - AutomationFee \div 2

automaticFallbackPayoutSompi(s) == winnerPayoutSompi(s) - AutomationFee

(***************************************************************************)
(* The outputs of each way to spend the covenant for good                  *)
(***************************************************************************)
PlayerSigned == {"refund", "reveal"}
KeeperBuilt == {"refund_open", "fallback_claim", "refund_all"}

\* The stage each entry spends.
StageOf(entry) ==
    CASE entry \in {"refund", "refund_open"} -> "open"
      [] entry = "refund_all" -> "joined"
      [] entry \in {"reveal", "fallback_claim"} -> "revealed"

Out(to, amount) == [to |-> to, amount |-> amount]

WithGameFee(payout, s) ==
    IF gameFeeSompi(s) > 0 THEN <<payout, Out("wallet", gameFeeSompi(s))>> ELSE <<payout>>

Payouts(entry, s) ==
    CASE entry = "refund" -> <<Out("creator", s)>>
      [] entry = "refund_open" -> <<Out("creator", s - AutomationFee)>>
      [] entry = "refund_all" ->
            <<Out("creator", automaticRefundPayoutSompi(s)),
              Out("joiner", automaticRefundPayoutSompi(s))>>
      [] entry = "reveal" -> WithGameFee(Out("winner", winnerPayoutSompi(s)), s)
      [] entry = "fallback_claim" ->
            WithGameFee(Out("first", automaticFallbackPayoutSompi(s)), s)

Total(outputs) ==
    IF Len(outputs) = 1 THEN outputs[1].amount ELSE outputs[1].amount + outputs[2].amount

\* The builder throws nothing: amounts are positive and, without a player's
\* inputs, leave something for the network.
Builds(entry, s, v) ==
    /\ \A i \in DOMAIN Payouts(entry, s) : Payouts(entry, s)[i].amount > 0
    /\ entry = "refund_open" => AutomationFee > 0 /\ AutomationFee < s
    /\ entry \in KeeperBuilt => Total(Payouts(entry, s)) < v
    /\ entry \in PlayerSigned => Total(Payouts(entry, s)) <= v

\* prepareTerminalTransaction puts the change behind the payouts.
Outputs(entry, s, change) ==
    IF entry \in PlayerSigned /\ change > 0
    THEN Append(Payouts(entry, s), Out("change", change))
    ELSE Payouts(entry, s)

-----------------------------------------------------------------------------
(***************************************************************************)
(* kasodds.sil: what the entry requires of the outputs                     *)
(***************************************************************************)
Pays(outputs, i, to, amount) == i <= Len(outputs) /\ outputs[i] = Out(to, amount)

TakesGameFee(pot) == pot >= 100 * SompiPerKas

CovenantAccepts(entry, s, v, outputs) ==
    LET pot == s + s
        wins(to, amount) ==
            IF TakesGameFee(pot)
            THEN /\ Pays(outputs, 1, to, amount - (pot \div 100))
                 /\ Pays(outputs, 2, "wallet", pot \div 100)
            ELSE Pays(outputs, 1, to, amount)
    IN /\ s >= SompiPerKas
       /\ CASE entry = "refund" -> Pays(outputs, 1, "creator", s)
            [] entry = "refund_open" ->
                  /\ AutomationFee < s
                  /\ v = s
                  /\ Len(outputs) = 1
                  /\ Pays(outputs, 1, "creator", s - AutomationFee)
            [] entry = "reveal" -> wins("winner", pot)
            [] entry = "fallback_claim" -> v = pot /\ wins("first", pot - AutomationFee)
            [] entry = "refund_all" ->
                  /\ v = pot
                  /\ pot > AutomationFee
                  /\ Pays(outputs, 1, "creator", s - AutomationFee \div 2)
                  /\ Pays(outputs, 2, "joiner", s - AutomationFee \div 2)

-----------------------------------------------------------------------------
Init ==
    /\ stake = 0
    /\ stage = "none"
    /\ value = 0
    /\ tx = NoTx

\* A request with a stake that stakeToSompi accepts.
Create(s) ==
    /\ stage = "none"
    /\ stake' = s
    /\ stage' = "open"
    /\ value' = s
    /\ UNCHANGED tx

Join ==
    /\ stage = "open"
    /\ stage' = "joined"
    /\ value' = grossPotSompi(stake)
    /\ UNCHANGED <<stake, tx>>

\* Mutant of FirstReveal: the game fee is taken before there is a winner.
FirstRevealLessFee ==
    /\ stage = "joined"
    /\ stage' = "revealed"
    /\ value' = winnerPayoutSompi(stake)
    /\ UNCHANGED <<stake, tx>>

\* The continuation carries potSompi.
FirstReveal ==
    /\ stage = "joined"
    /\ stage' = "revealed"
    /\ value' = grossPotSompi(stake)
    /\ UNCHANGED <<stake, tx>>

Spend(entry) ==
    /\ stage = StageOf(entry)
    /\ Builds(entry, stake, value)
    /\ \E change \in Change : tx' = [entry |-> entry, outputs |-> Outputs(entry, stake, change)]
    /\ stage' = "spent"
    /\ UNCHANGED <<stake, value>>

Next ==
    \/ \E s \in Stakes : Create(s)
    \/ Join
    \/ FirstReveal
    \/ \E entry \in PlayerSigned \cup KeeperBuilt : Spend(entry)

Spec == Init /\ [][Next]_vars

-----------------------------------------------------------------------------
(***************************************************************************)
(* Properties                                                              *)
(***************************************************************************)
\* Every variable has its type: the covenant output holds one lock until the
\* join and both from then on.
TypeOK ==
    /\ stake \in Stakes \cup {0}
    /\ stage \in {"none", "open", "joined", "revealed", "spent"}
    /\ stage # "none" => stake \in Stakes
    /\ stage = "open" => value = stake
    /\ stage \in {"joined", "revealed"} => value = stake + stake
    /\ value \in Nat
    /\ tx.entry \in PlayerSigned \cup KeeperBuilt \cup {"none"}

\* No stake makes the builder of an open way out throw: whatever stake was
\* accepted, the game can be ended from every stage.
AlwaysBuilds ==
    \A entry \in PlayerSigned \cup KeeperBuilt :
        stage = StageOf(entry) => Builds(entry, stake, value)

\* What protocol.js makes of a stake is what the covenant requires, to the
\* sompi and on both sides of the 100 KAS boundary ("so the protocol, the
\* covenant, and the display cannot drift apart", protocol.js:143-144).
BuiltIsAccepted ==
    stage = "spent" => CovenantAccepts(tx.entry, stake, value, tx.outputs)

\* The keeper's transactions leave exactly the reserve to the network, whatever
\* the stake and its halves; a player's leave nothing of the game ("No game
\* value is ever used for fees", kasodds.sil:65).  What the network asks for
\* grows with the mass and so with the outputs: whether the reserve is enough is
\* for #validateAutomaticFee, and not said here.
ReserveIsExact ==
    stage = "spent" =>
        IF tx.entry \in KeeperBuilt
        THEN value - Total(tx.outputs) = AutomationFee
        ELSE value = Total(Payouts(tx.entry, stake))
=============================================================================
