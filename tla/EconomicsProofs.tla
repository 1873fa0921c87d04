-------------------------- MODULE EconomicsProofs --------------------------
(***************************************************************************)
(* protocol.js and kasodds.sil agree for every stake, every value of a KAS *)
(* in sompi and every even reserve below the least stake.                  *)
(***************************************************************************)
EXTENDS Economics, TLAPS

\* The value of the output an entry spends.
ValueAt(entry, s) == IF StageOf(entry) = "open" THEN s ELSE s + s

\* The fee of protocol.js is the fee of the covenant: floor(pot/100) reaches
\* one KAS exactly when the pot reaches a hundred.
LEMMA FeeAgreement ==
    ASSUME NEW s \in Stakes
    PROVE  /\ s \in Nat /\ s >= SompiPerKas /\ s > AutomationFee
           /\ gameFeeSompi(s) \in Nat
           /\ gameFeeSompi(s) = IF TakesGameFee(s + s) THEN (s + s) \div 100 ELSE 0
           /\ TakesGameFee(s + s) => gameFeeSompi(s) > 0
           /\ gameFeeSompi(s) <= s
           /\ AutomationFee \div 2 \in Nat
           /\ (AutomationFee \div 2) + (AutomationFee \div 2) = AutomationFee
<1>1. /\ s \in Nat /\ s >= SompiPerKas /\ s > AutomationFee /\ s > 0
      /\ SompiPerKas \in Nat \ {0} /\ AutomationFee \in Nat
  BY EconomicsAssumption DEF Stakes
<1>2. grossPotSompi(s) = s + s
  BY <1>1 DEF grossPotSompi
<1>3. /\ (s + s) \div 100 \in Nat
      /\ (s + s) \div 100 <= s
      /\ ((s + s) \div 100 >= SompiPerKas) <=> (s + s >= 100 * SompiPerKas)
  BY <1>1
<1>4. /\ AutomationFee \div 2 \in Nat
      /\ (AutomationFee \div 2) + (AutomationFee \div 2) = AutomationFee
  BY EconomicsAssumption
<1> QED
  BY <1>1, <1>2, <1>3, <1>4 DEF gameFeeSompi, TakesGameFee

\* The builders make one or two outputs.
LEMMA TotalOfOne ==
    ASSUME NEW a, NEW x \in Int
    PROVE  Total(<<Out(a, x)>>) = x
BY DEF Total, Out

LEMMA TotalOfTwo ==
    ASSUME NEW a, NEW b, NEW x \in Int, NEW y \in Int
    PROVE  Total(<<Out(a, x), Out(b, y)>>) = x + y
BY DEF Total, Out

\* A winner's payout and the game fee add up to the payout before the fee.
LEMMA TotalWithGameFee ==
    ASSUME NEW s \in Stakes, NEW a, NEW x \in Int, x > 0
    PROVE  LET outputs == WithGameFee(Out(a, x), s)
           IN /\ Total(outputs) = x + gameFeeSompi(s)
              /\ \A i \in DOMAIN outputs : outputs[i].amount > 0
<1>1. gameFeeSompi(s) \in Nat
  BY FeeAgreement
<1>2. CASE gameFeeSompi(s) > 0
  <2>1. WithGameFee(Out(a, x), s) = <<Out(a, x), Out("wallet", gameFeeSompi(s))>>
    BY <1>2 DEF WithGameFee
  <2> QED
    BY <1>1, <1>2, <2>1, TotalOfTwo DEF Out
<1>3. CASE gameFeeSompi(s) = 0
  <2>1. WithGameFee(Out(a, x), s) = <<Out(a, x)>>
    BY <1>3 DEF WithGameFee
  <2> QED
    BY <1>1, <1>3, <2>1, TotalOfOne DEF Out
<1> QED
  BY <1>1, <1>2, <1>3

\* A builder given a stake and the output of its stage throws nothing.
LEMMA BuilderTotal ==
    ASSUME NEW s \in Stakes, NEW entry \in PlayerSigned \cup KeeperBuilt
    PROVE  /\ Builds(entry, s, ValueAt(entry, s))
           /\ entry \in KeeperBuilt =>
                 ValueAt(entry, s) - Total(Payouts(entry, s)) = AutomationFee
           /\ entry \in PlayerSigned => ValueAt(entry, s) = Total(Payouts(entry, s))
<1>1. /\ s \in Nat /\ s > AutomationFee /\ AutomationFee \in Nat /\ AutomationFee > 0
      /\ gameFeeSompi(s) \in Nat /\ gameFeeSompi(s) <= s
      /\ AutomationFee \div 2 \in Nat
      /\ (AutomationFee \div 2) + (AutomationFee \div 2) = AutomationFee
  BY FeeAgreement, EconomicsAssumption
<1>2. CASE entry = "refund"
  BY <1>1, <1>2 DEF Builds, Payouts, Total, ValueAt, StageOf, Out, PlayerSigned, KeeperBuilt
<1>3. CASE entry = "refund_open"
  BY <1>1, <1>3 DEF Builds, Payouts, Total, ValueAt, StageOf, Out, PlayerSigned, KeeperBuilt
<1>4. CASE entry = "refund_all"
  <2> DEFINE h == AutomationFee \div 2
  <2>1. Payouts(entry, s) = <<Out("creator", s - h), Out("joiner", s - h)>>
    BY <1>4 DEF Payouts, automaticRefundPayoutSompi
  <2>2. s - h \in Int /\ s - h > 0 /\ (s - h) + (s - h) = s + s - AutomationFee
    BY <1>1
  <2>3. Total(Payouts(entry, s)) = s + s - AutomationFee
    BY <2>1, <2>2, TotalOfTwo
  <2>4. \A i \in DOMAIN Payouts(entry, s) : Payouts(entry, s)[i].amount > 0
    BY <2>1, <2>2 DEF Out
  <2> QED
    BY <1>1, <1>4, <2>3, <2>4 DEF Builds, ValueAt, StageOf, PlayerSigned, KeeperBuilt
<1>5. CASE entry = "reveal"
  <2>1. winnerPayoutSompi(s) = s + s - gameFeeSompi(s) /\ winnerPayoutSompi(s) > 0
    BY <1>1 DEF winnerPayoutSompi, grossPotSompi
  <2>2. Payouts(entry, s) = WithGameFee(Out("winner", winnerPayoutSompi(s)), s)
    BY <1>5 DEF Payouts
  <2>3. /\ Total(Payouts(entry, s)) = s + s
        /\ \A i \in DOMAIN Payouts(entry, s) : Payouts(entry, s)[i].amount > 0
    BY <1>1, <2>1, <2>2, TotalWithGameFee
  <2> QED
    BY <1>1, <1>5, <2>3 DEF Builds, ValueAt, StageOf, PlayerSigned, KeeperBuilt
<1>6. CASE entry = "fallback_claim"
  <2>1. /\ automaticFallbackPayoutSompi(s) = s + s - gameFeeSompi(s) - AutomationFee
        /\ automaticFallbackPayoutSompi(s) > 0
    BY <1>1 DEF automaticFallbackPayoutSompi, winnerPayoutSompi, grossPotSompi
  <2>2. Payouts(entry, s) = WithGameFee(Out("first", automaticFallbackPayoutSompi(s)), s)
    BY <1>6 DEF Payouts
  <2>3. /\ Total(Payouts(entry, s)) = s + s - AutomationFee
        /\ \A i \in DOMAIN Payouts(entry, s) : Payouts(entry, s)[i].amount > 0
    BY <1>1, <2>1, <2>2, TotalWithGameFee
  <2> QED
    BY <1>1, <1>6, <2>3 DEF Builds, ValueAt, StageOf, PlayerSigned, KeeperBuilt
<1> QED
  BY <1>2, <1>3, <1>4, <1>5, <1>6 DEF PlayerSigned, KeeperBuilt

\* What a builder makes of a stake is what the covenant requires, whatever
\* change a player's own inputs leave.
LEMMA BuilderAccepted ==
    ASSUME NEW s \in Stakes, NEW entry \in PlayerSigned \cup KeeperBuilt, NEW change \in Nat
    PROVE  CovenantAccepts(entry, s, ValueAt(entry, s), Outputs(entry, s, change))
<1> USE FeeAgreement, EconomicsAssumption
<1>1. CASE entry = "refund"
  BY <1>1 DEF CovenantAccepts, Pays, Outputs, Payouts, ValueAt, StageOf, Out, PlayerSigned
<1>2. CASE entry = "refund_open"
  BY <1>2 DEF CovenantAccepts, Pays, Outputs, Payouts, ValueAt, StageOf, Out, PlayerSigned
<1>3. CASE entry = "refund_all"
  BY <1>3 DEF CovenantAccepts, Pays, Outputs, Payouts, ValueAt, StageOf, Out, PlayerSigned,
              automaticRefundPayoutSompi
<1>4. CASE entry = "reveal"
  BY <1>4 DEF CovenantAccepts, Pays, Outputs, Payouts, ValueAt, StageOf, Out, PlayerSigned,
              WithGameFee, winnerPayoutSompi, grossPotSompi
<1>5. CASE entry = "fallback_claim"
  BY <1>5 DEF CovenantAccepts, Pays, Outputs, Payouts, ValueAt, StageOf, Out, PlayerSigned,
              WithGameFee, winnerPayoutSompi, automaticFallbackPayoutSompi, grossPotSompi
<1> QED
  BY <1>1, <1>2, <1>3, <1>4, <1>5 DEF PlayerSigned, KeeperBuilt

\* Adding the change of a player's own inputs leaves the payouts in front.
LEMMA ChangeOnlyForPlayers ==
    ASSUME NEW s, NEW entry \in KeeperBuilt, NEW change
    PROVE  Outputs(entry, s, change) = Payouts(entry, s)
BY DEF Outputs, KeeperBuilt, PlayerSigned

LEMMA StageValue ==
    ASSUME TypeOK, NEW entry \in PlayerSigned \cup KeeperBuilt, stage = StageOf(entry)
    PROVE  stake \in Stakes /\ value = ValueAt(entry, stake)
BY DEF TypeOK, StageOf, ValueAt, PlayerSigned, KeeperBuilt

IInv == TypeOK /\ BuiltIsAccepted /\ ReserveIsExact

LEMMA InitInv == Init => IInv
BY EconomicsAssumption
   DEF Init, IInv, TypeOK, BuiltIsAccepted, ReserveIsExact, NoTx

LEMMA NextInv == IInv /\ [Next]_vars => IInv'
<1> SUFFICES ASSUME IInv, [Next]_vars PROVE IInv'
  OBVIOUS
<1> USE DEF IInv
<1>1. ASSUME NEW s \in Stakes, Create(s) PROVE IInv'
  <2>1. s \in Nat
    BY EconomicsAssumption DEF Stakes
  <2> QED
    BY <1>1, <2>1 DEF Create, TypeOK, BuiltIsAccepted, ReserveIsExact
<1>2. CASE Join
  <2>1. stake \in Nat
    BY <1>2, EconomicsAssumption DEF Join, TypeOK, Stakes
  <2> QED
    BY <1>2, <2>1 DEF Join, TypeOK, BuiltIsAccepted, ReserveIsExact, grossPotSompi
<1>3. CASE FirstReveal
  <2>1. stake \in Nat
    BY <1>3, EconomicsAssumption DEF FirstReveal, TypeOK, Stakes
  <2> QED
    BY <1>3, <2>1 DEF FirstReveal, TypeOK, BuiltIsAccepted, ReserveIsExact, grossPotSompi
<1>4. ASSUME NEW entry \in PlayerSigned \cup KeeperBuilt, Spend(entry) PROVE IInv'
  <2>1. PICK change \in Change :
            tx' = [entry |-> entry, outputs |-> Outputs(entry, stake, change)]
    BY <1>4 DEF Spend
  <2>2. change \in Nat
    BY EconomicsAssumption
  <2>3. stake \in Stakes /\ value = ValueAt(entry, stake)
    BY <1>4, StageValue DEF Spend
  <2>4. tx'.entry = entry /\ tx'.outputs = Outputs(entry, stake, change)
    BY <2>1
  <2>5. stage' = "spent" /\ stake' = stake /\ value' = value
    BY <1>4 DEF Spend
  <2>6. TypeOK'
    BY <2>3, <2>4, <2>5 DEF TypeOK
  <2>7. BuiltIsAccepted'
    BY <2>2, <2>3, <2>4, <2>5, BuilderAccepted DEF BuiltIsAccepted
  <2>8. ReserveIsExact'
    BY <2>3, <2>4, <2>5, BuilderTotal, ChangeOnlyForPlayers DEF ReserveIsExact
  <2> QED
    BY <2>6, <2>7, <2>8
<1>5. CASE UNCHANGED vars
  BY <1>5 DEF vars, TypeOK, BuiltIsAccepted, ReserveIsExact
<1> QED
  BY <1>1, <1>2, <1>3, <1>4, <1>5 DEF Next

LEMMA Invariance == Spec => []IInv
<1> QED
  BY InitInv, NextInv, PTL DEF Spec

\* Whatever a game is worth, its output holds one lock until the join and both
\* from then on: the amounts of create-game.js, join-game.js and reveal.js.
THEOREM AmountsCorrect == Spec => []TypeOK
<1>1. IInv => TypeOK
  BY DEF IInv
<1> QED
  BY <1>1, Invariance, PTL

\* Every transaction protocol.js and its builders make out of an accepted
\* stake satisfies the covenant, for every stake and every reserve.
THEOREM CovenantAcceptsBuilt == Spec => []BuiltIsAccepted
<1>1. IInv => BuiltIsAccepted
  BY DEF IInv
<1> QED
  BY <1>1, Invariance, PTL

\* Whatever the stake, each way out of the escrow can be built at its stage.
THEOREM EveryWayOutBuilds == Spec => []AlwaysBuilds
<1>1. IInv => AlwaysBuilds
  <2> SUFFICES ASSUME IInv, NEW entry \in PlayerSigned \cup KeeperBuilt, stage = StageOf(entry)
               PROVE  Builds(entry, stake, value)
    BY DEF AlwaysBuilds
  <2>1. stake \in Stakes /\ value = ValueAt(entry, stake)
    BY StageValue DEF IInv
  <2> QED
    BY <2>1, BuilderTotal
<1> QED
  BY <1>1, Invariance, PTL

\* The network's share of a timeout is the reserve, of a player's spend none.
THEOREM ReserveExact == Spec => []ReserveIsExact
<1>1. IInv => ReserveIsExact
  BY DEF IInv
<1> QED
  BY <1>1, Invariance, PTL
=============================================================================
