----------------------- MODULE KasOddsCovenantProofs -----------------------
(***************************************************************************)
(* What KasOddsCovenant guarantees for every stake, fee, wait and deadline *)
(* and any number of wallets: types, conservation of the stakes, no silent *)
(* forfeit, that it implements the wager and the escrow, and that          *)
(* GameDecisions offers and builds what it accepts.                        *)
(*                                                                         *)
(* None of the properties is inductive: that a pot can be paid out depends *)
(* on the covenant value matching the phase, and who is paid depends on    *)
(* the recorded choices being those committed to.  Shape says both.        *)
(***************************************************************************)
EXTENDS GameDecisions, TLAPS

\* What the covenant state looks like in each phase.
Shape ==
    /\ joiner # Creator
    /\ status = 0 => joiner = NoPlayer /\ value = Stake
    /\ status \in {1, 2} => joiner \in Players /\ value = gross_pot
    /\ status \in {0, 1} => first_revealer = NoPlayer /\ creator_choice = 0 /\ joiner_choice = 0
    /\ status = 2 =>
          /\ first_revealer \in {Creator, joiner}
          /\ first_revealer = Creator => creator_choice = commit[Creator]
          /\ first_revealer = joiner => joiner_choice = commit[joiner]
    /\ status # 3 => paid = [a \in Addresses |-> 0] /\ burned = 0 /\ exit = "none"
    /\ status = 3 => exit # "none"

IInv == TypeOK /\ Shape /\ Conservation /\ NobodyForfeitsSilently

-----------------------------------------------------------------------------
\* The amounts every payout is made of: the game fee and the relay fee fit
\* into a pot, and half a relay fee into a stake, without remainder.
LEMMA AmountFacts ==
    /\ Stake \in Nat /\ Stake > 0 /\ Stake > SettleFee
    /\ gross_pot = 2 * Stake
    /\ GameFee \in Nat
    /\ GameFee + SettleFee < gross_pot
    /\ SettleFee \in Nat /\ SettleFee > 0
    /\ SettleFee \div 2 \in Nat
    /\ 2 * (SettleFee \div 2) = SettleFee
<1>1. /\ Stake \in Nat /\ Stake > 0 /\ Stake > SettleFee
      /\ SettleFee \in Nat /\ SettleFee > 0 /\ SettleFee % 2 = 0
  BY TermsAssumption
<1>2. SettleFee \div 2 \in Nat /\ 2 * (SettleFee \div 2) = SettleFee
  BY <1>1
<1>3. gross_pot = 2 * Stake
  BY <1>1 DEF gross_pot
<1>4. GameFee \in Nat /\ GameFee <= Stake
  BY <1>1 DEF GameFee, gross_pot
<1> QED
  BY <1>1, <1>2, <1>3, <1>4

\* The parties are distinct addresses.
LEMMA PartyFacts ==
    /\ Creator \in Addresses /\ Wallet \in Addresses
    /\ Creator # Wallet /\ Creator # NoPlayer
    /\ \A p \in Players : p \in Addresses /\ p # Wallet /\ p # NoPlayer
  BY PartiesAssumption DEF Addresses

LEMMA InitInv == Init => IInv
<1> SUFFICES ASSUME Init PROVE IInv
  OBVIOUS
<1>1. TypeOK
  BY AmountFacts, TermsAssumption DEF Init, TypeOK
<1>2. Shape
  BY PartyFacts DEF Init, Shape
<1>3. Conservation
  BY AmountFacts, PartyFacts DEF Init, Conservation, PaidTo, Deposits
<1>4. NobodyForfeitsSilently
  BY DEF Init, NobodyForfeitsSilently
<1> QED
  BY <1>1, <1>2, <1>3, <1>4 DEF IInv

\* A spend back to the creator: the whole stake, or less the relay fee.
LEMMA RefundInv == IInv /\ Refund => IInv'
<1> SUFFICES ASSUME IInv, Refund PROVE IInv'
  OBVIOUS
<1>1. /\ status = 0 /\ status' = 3 /\ exit' = "refund"
      /\ value = Stake /\ value' = 0 /\ burned' = 0
      /\ joiner = NoPlayer /\ joiner' = NoPlayer
      /\ UNCHANGED <<creator_choice, joiner_choice, first_revealer, commit, daa, age>>
  BY AmountFacts DEF IInv, Shape, Refund, MayRefund, Close
<1>2. paid' = [a \in Addresses |-> IF a = Creator THEN Stake ELSE 0]
  BY DEF Refund, MayRefund, Close
<1>3. TypeOK'
  BY <1>1, <1>2, AmountFacts DEF IInv, TypeOK, Exits
<1>4. Shape'
  BY <1>1 DEF IInv, Shape
<1>5. Conservation'
  BY <1>1, <1>2, AmountFacts, PartyFacts DEF Conservation, PaidTo, Deposits
<1>6. NobodyForfeitsSilently'
  BY <1>1, <1>2, AmountFacts, PartyFacts DEF NobodyForfeitsSilently
<1> QED
  BY <1>3, <1>4, <1>5, <1>6 DEF IInv

LEMMA RefundOpenInv == IInv /\ RefundOpen => IInv'
<1> SUFFICES ASSUME IInv, RefundOpen PROVE IInv'
  OBVIOUS
<1>1. /\ status = 0 /\ status' = 3 /\ exit' = "refund_open"
      /\ value = Stake /\ value' = 0 /\ burned' = SettleFee
      /\ joiner = NoPlayer /\ joiner' = NoPlayer
      /\ UNCHANGED <<creator_choice, joiner_choice, first_revealer, commit, daa, age>>
  BY AmountFacts DEF IInv, Shape, RefundOpen, MayRefundOpen, Close
<1>2. paid' = [a \in Addresses |-> IF a = Creator THEN Stake - SettleFee ELSE 0]
  BY DEF RefundOpen, MayRefundOpen, Close
<1>3. TypeOK'
  BY <1>1, <1>2, AmountFacts DEF IInv, TypeOK, Exits
<1>4. Shape'
  BY <1>1 DEF IInv, Shape
<1>5. Conservation'
  BY <1>1, <1>2, AmountFacts, PartyFacts DEF Conservation, PaidTo, Deposits
<1>6. NobodyForfeitsSilently'
  BY <1>1, <1>2, AmountFacts, PartyFacts DEF NobodyForfeitsSilently
<1> QED
  BY <1>3, <1>4, <1>5, <1>6 DEF IInv

LEMMA JoinInv == ASSUME NEW p \in Players PROVE IInv /\ Join(p) => IInv'
<1> SUFFICES ASSUME IInv, Join(p) PROVE IInv'
  OBVIOUS
<1>1. /\ status = 0 /\ status' = 1 /\ joiner' = p /\ p # Creator
      /\ value' = gross_pot /\ age' = 0
      /\ UNCHANGED <<creator_choice, joiner_choice, first_revealer, commit, paid, burned, exit, daa>>
  BY DEF Join, Continue, gross_pot
<1>2. TypeOK'
  BY <1>1, AmountFacts, TermsAssumption DEF IInv, TypeOK
<1>3. Shape'
  BY <1>1 DEF IInv, Shape
<1>4. Conservation'
  BY <1>1, AmountFacts, PartyFacts DEF IInv, Shape, Conservation, PaidTo, Deposits
<1>5. NobodyForfeitsSilently'
  BY <1>1 DEF NobodyForfeitsSilently
<1> QED
  BY <1>2, <1>3, <1>4, <1>5 DEF IInv

LEMMA RevealFirstInv == ASSUME NEW p \in Players PROVE IInv /\ RevealFirst(p) => IInv'
<1> SUFFICES ASSUME IInv, RevealFirst(p) PROVE IInv'
  OBVIOUS
<1>1. /\ status = 1 /\ status' = 2 /\ p \in {Creator, joiner} /\ first_revealer' = p
      /\ joiner \in Players /\ joiner # Creator
      /\ value' = gross_pot /\ age' = 0
      /\ UNCHANGED <<joiner, commit, paid, burned, exit, daa>>
  BY DEF IInv, Shape, RevealFirst, MayRevealFirst, Continue, gross_pot
<1>2. /\ creator_choice' = IF p = Creator THEN commit[p] ELSE creator_choice
      /\ joiner_choice' = IF p = Creator THEN joiner_choice ELSE commit[p]
  BY DEF RevealFirst, MayRevealFirst, CreatorChoiceAfter, JoinerChoiceAfter
<1>3. TypeOK'
  BY <1>1, <1>2, AmountFacts, TermsAssumption DEF IInv, TypeOK
<1>4. Shape'
  BY <1>1, <1>2 DEF IInv, Shape
<1>5. Conservation'
  BY <1>1, AmountFacts, PartyFacts DEF IInv, Shape, Conservation, PaidTo, Deposits
<1>6. NobodyForfeitsSilently'
  BY <1>1 DEF NobodyForfeitsSilently
<1> QED
  BY <1>3, <1>4, <1>5, <1>6 DEF IInv

LEMMA RevealSecondInv == ASSUME NEW p \in Players PROVE IInv /\ RevealSecond(p) => IInv'
<1> SUFFICES ASSUME IInv, RevealSecond(p) PROVE IInv'
  OBVIOUS
<1> DEFINE w == WinnerAfter(p)
<1>1. /\ status = 2 /\ status' = 3 /\ exit' = "reveal"
      /\ joiner \in Players /\ joiner # Creator /\ first_revealer \in {Creator, joiner}
      /\ value = gross_pot /\ value' = 0 /\ burned' = 0
      /\ UNCHANGED <<joiner, first_revealer, commit, daa, age>>
  BY AmountFacts DEF IInv, Shape, RevealSecond, MayRevealSecond, Close
<1>2. w \in {Creator, joiner}
  BY DEF WinnerAfter
<1>3. paid' = [a \in Addresses |-> IF a = Wallet THEN GameFee
                                   ELSE IF a = w THEN gross_pot - GameFee ELSE 0]
  <2> HIDE DEF w
  <2>1. paid' = [a \in Addresses |-> IF a \in {w, Wallet}
                                     THEN IF a = Wallet THEN GameFee ELSE gross_pot - GameFee
                                     ELSE 0]
    BY DEF RevealSecond, MayRevealSecond, Close, w
  <2> QED
    BY <2>1
<1>4. /\ creator_choice' = IF p = Creator THEN commit[p] ELSE creator_choice
      /\ joiner_choice' = IF p = Creator THEN joiner_choice ELSE commit[p]
  BY DEF RevealSecond, MayRevealSecond, CreatorChoiceAfter, JoinerChoiceAfter
<1> HIDE DEF w
<1>5. TypeOK'
  <2>1. paid' \in [Addresses -> Nat]
    BY <1>3, AmountFacts
  <2> QED
    BY <1>1, <1>4, <2>1 DEF IInv, TypeOK, Exits
<1>6. Shape'
  BY <1>1 DEF IInv, Shape
<1>7. Conservation'
  <2>1. /\ joiner' = joiner /\ Creator \in Addresses /\ joiner \in Addresses /\ Wallet \in Addresses
        /\ joiner # NoPlayer /\ joiner # Wallet /\ Creator # Wallet
    BY <1>1, PartyFacts
  <2>2. /\ PaidTo(Creator)' = IF Creator = w THEN gross_pot - GameFee ELSE 0
        /\ PaidTo(joiner)' = IF joiner = w THEN gross_pot - GameFee ELSE 0
        /\ paid'[Wallet] = GameFee
    BY <1>3, <2>1 DEF PaidTo
  <2>3. \A a \in Players \ {Creator, joiner} : paid'[a] = 0
    BY <1>2, <1>3, PartyFacts
  <2> QED
    BY <1>1, <1>2, <2>1, <2>2, <2>3, AmountFacts DEF Conservation, Deposits
<1>8. NobodyForfeitsSilently'
  BY <1>1, PartyFacts DEF NobodyForfeitsSilently
<1> QED
  BY <1>5, <1>6, <1>7, <1>8 DEF IInv

LEMMA FallbackClaimInv == IInv /\ FallbackClaim => IInv'
<1> SUFFICES ASSUME IInv, FallbackClaim PROVE IInv'
  OBVIOUS
<1>1. /\ status = 2 /\ status' = 3 /\ exit' = "fallback_claim"
      /\ joiner \in Players /\ joiner # Creator /\ first_revealer \in {Creator, joiner}
      /\ value = gross_pot /\ value' = 0 /\ burned' = SettleFee
      /\ UNCHANGED <<joiner, creator_choice, joiner_choice, first_revealer, commit, daa, age>>
  BY AmountFacts DEF IInv, Shape, FallbackClaim, MayFallbackClaim, Close
<1>2. paid' = [a \in Addresses |-> IF a = Wallet THEN GameFee
                                   ELSE IF a = first_revealer THEN gross_pot - GameFee - SettleFee
                                   ELSE 0]
  <2>1. paid' = [a \in Addresses |-> IF a \in {first_revealer, Wallet}
                                     THEN IF a = Wallet THEN GameFee ELSE gross_pot - GameFee - SettleFee
                                     ELSE 0]
    BY DEF FallbackClaim, MayFallbackClaim, Close
  <2> QED
    BY <2>1
<1>3. TypeOK'
  <2>1. paid' \in [Addresses -> Nat]
    BY <1>2, AmountFacts
  <2> QED
    BY <1>1, <2>1, AmountFacts DEF IInv, TypeOK, Exits
<1>4. Shape'
  BY <1>1 DEF IInv, Shape
<1>5. Conservation'
  <2>1. /\ joiner' = joiner /\ Creator \in Addresses /\ joiner \in Addresses /\ Wallet \in Addresses
        /\ joiner # NoPlayer /\ joiner # Wallet /\ Creator # Wallet
    BY <1>1, PartyFacts
  <2>2. /\ PaidTo(Creator)' = IF Creator = first_revealer THEN gross_pot - GameFee - SettleFee ELSE 0
        /\ PaidTo(joiner)' = IF joiner = first_revealer THEN gross_pot - GameFee - SettleFee ELSE 0
        /\ paid'[Wallet] = GameFee
    BY <1>2, <2>1 DEF PaidTo
  <2>3. \A a \in Players \ {Creator, joiner} : paid'[a] = 0
    BY <1>1, <1>2, PartyFacts
  <2> QED
    BY <1>1, <2>1, <2>2, <2>3, AmountFacts DEF Conservation, Deposits
<1>6. NobodyForfeitsSilently'
  <2>1. /\ first_revealer' = first_revealer /\ joiner' = joiner
        /\ first_revealer # NoPlayer /\ first_revealer # Wallet
        /\ Creator \in Addresses /\ joiner \in Addresses
    BY <1>1, PartyFacts
  <2>2. gross_pot - GameFee - SettleFee # 0
    BY AmountFacts
  <2>3. \A p \in {Creator, joiner} : paid'[p] = 0 => p # first_revealer
    BY <1>2, <2>1, <2>2
  <2> QED
    BY <1>1, <2>1, <2>3 DEF NobodyForfeitsSilently
<1> QED
  BY <1>3, <1>4, <1>5, <1>6 DEF IInv

LEMMA RefundAllInv == IInv /\ RefundAll => IInv'
<1> SUFFICES ASSUME IInv, RefundAll PROVE IInv'
  OBVIOUS
<1> DEFINE half == SettleFee \div 2
<1>1. /\ status = 1 /\ status' = 3 /\ exit' = "refund_all"
      /\ joiner \in Players /\ joiner # Creator
      /\ value = gross_pot /\ value' = 0 /\ burned' = 2 * half
      /\ UNCHANGED <<joiner, creator_choice, joiner_choice, first_revealer, commit, daa, age>>
  BY AmountFacts DEF IInv, Shape, RefundAll, MayRefundAll, Close
<1>2. paid' = [a \in Addresses |-> IF a \in {Creator, joiner} THEN Stake - half ELSE 0]
  BY DEF RefundAll, MayRefundAll, Close
<1>3. half \in Nat /\ 2 * half = SettleFee /\ Stake - half \in Nat /\ Stake - half > 0
  BY AmountFacts
<1> HIDE DEF half
<1>4. TypeOK'
  BY <1>1, <1>2, <1>3, AmountFacts DEF IInv, TypeOK, Exits
<1>5. Shape'
  BY <1>1 DEF IInv, Shape
<1>6. Conservation'
  <2>1. /\ joiner' = joiner /\ Creator \in Addresses /\ joiner \in Addresses /\ Wallet \in Addresses
        /\ joiner # NoPlayer /\ joiner # Wallet /\ Creator # Wallet
    BY <1>1, PartyFacts
  <2>2. /\ PaidTo(Creator)' = Stake - half
        /\ PaidTo(joiner)' = Stake - half
        /\ paid'[Wallet] = 0
    BY <1>2, <2>1 DEF PaidTo
  <2>3. \A a \in Players \ {Creator, joiner} : paid'[a] = 0
    BY <1>2, PartyFacts
  <2> QED
    BY <1>1, <1>3, <2>1, <2>2, <2>3, AmountFacts DEF Conservation, Deposits
<1>7. NobodyForfeitsSilently'
  BY <1>1, <1>2, <1>3, PartyFacts DEF NobodyForfeitsSilently
<1> QED
  BY <1>4, <1>5, <1>6, <1>7 DEF IInv

\* The clocks touch nothing else, and stop at their bounds.
LEMMA TickInv == IInv /\ Tick => IInv'
<1> SUFFICES ASSUME IInv, Tick PROVE IInv'
  OBVIOUS
<1>1. /\ daa' \in 0..Deadline /\ age' \in 0..Wait
      /\ UNCHANGED <<status, joiner, creator_choice, joiner_choice, first_revealer,
                     commit, value, paid, burned, exit>>
  BY TermsAssumption DEF IInv, TypeOK, Tick, state
<1> QED
  BY <1>1 DEF IInv, TypeOK, Shape, Conservation, PaidTo, Deposits, NobodyForfeitsSilently

\* IInv is inductive.
LEMMA NextInv == IInv /\ [Next]_vars => IInv'
<1> SUFFICES ASSUME IInv, [Next]_vars PROVE IInv'
  OBVIOUS
<1>1. CASE Refund
  BY <1>1, RefundInv
<1>2. CASE RefundOpen
  BY <1>2, RefundOpenInv
<1>3. ASSUME NEW p \in Players, Join(p) PROVE IInv'
  BY <1>3, JoinInv
<1>4. ASSUME NEW p \in Players, RevealFirst(p) PROVE IInv'
  BY <1>4, RevealFirstInv
<1>5. ASSUME NEW p \in Players, RevealSecond(p) PROVE IInv'
  BY <1>5, RevealSecondInv
<1>6. CASE FallbackClaim
  BY <1>6, FallbackClaimInv
<1>7. CASE RefundAll
  BY <1>7, RefundAllInv
<1>8. CASE Tick
  BY <1>8, TickInv
<1>9. CASE UNCHANGED vars
  BY <1>9 DEF vars, IInv, TypeOK, Shape, Conservation, PaidTo, Deposits, NobodyForfeitsSilently
<1> QED
  BY <1>1, <1>2, <1>3, <1>4, <1>5, <1>6, <1>7, <1>8, <1>9 DEF Next

LEMMA Invariance == Spec => []IInv
  BY InitInv, NextInv, PTL DEF Spec

\* Whatever the stake and the fee, every variable keeps its type; the network
\* is never owed more than the pot holds.
THEOREM TypeCorrect == Spec => []TypeOK
<1>1. IInv => TypeOK
  BY DEF IInv
<1> QED
  BY Invariance, <1>1, PTL

\* Whatever the stake, the fee and the number of wallets, both deposits are
\* accounted for at every moment of a game, to the sompi.
THEOREM StakesConserved == Spec => []Conservation
<1>1. IInv => Conservation
  BY DEF IInv
<1> QED
  BY Invariance, <1>1, PTL

\* No order of entries leaves a player who locked a stake with nothing unless
\* both revealed or only the other one did, or charges the game fee without a
\* winner.
THEOREM NoSilentForfeit == Spec => []NobodyForfeitsSilently
<1>1. IInv => NobodyForfeitsSilently
  BY DEF IInv
<1> QED
  BY Invariance, <1>1, PTL

-----------------------------------------------------------------------------
(***************************************************************************)
(* Refinement                                                              *)
(***************************************************************************)
\* Once the second player has revealed, the choices the covenant adds up are
\* the ones both players committed to.
LEMMA WinnerAsCommitted ==
    ASSUME NEW p \in Players, IInv, RevealSecond(p)
    PROVE  WinnerAfter(p) = W!Winner
<1>1. /\ status = 2 /\ p \in {Creator, joiner} /\ p # first_revealer
      /\ joiner \in Players /\ joiner # Creator
      /\ first_revealer \in {Creator, joiner}
      /\ first_revealer = Creator => creator_choice = commit[Creator]
      /\ first_revealer = joiner => joiner_choice = commit[joiner]
  BY DEF IInv, Shape, RevealSecond, MayRevealSecond
<1>2. CreatorChoiceAfter(p) = commit[Creator] /\ JoinerChoiceAfter(p) = commit[joiner]
  BY <1>1 DEF CreatorChoiceAfter, JoinerChoiceAfter
<1>3. commit[Creator] \in {0, 1} /\ commit[joiner] \in {0, 1} /\ CreatorEven \in {0, 1}
  BY <1>1, TermsAssumption, PartiesAssumption DEF IInv, TypeOK
<1>4. (commit[Creator] + commit[joiner]) % 2 # CreatorEven
         <=> (commit[Creator] + commit[joiner]) % 2 = 1 - CreatorEven
  BY <1>3
<1> QED
  BY <1>2, <1>4 DEF WinnerAfter, W!Winner

LEMMA RefinesInit == Init => W!Init
  BY DEF Init, W!Init, W!Nothing, Addresses

LEMMA RefinesNext ==
    ASSUME IInv, IInv', [Next]_vars
    PROVE  [W!Next]_(W!vars)
<1>1. CASE Refund
  <2>1. /\ status = 0 /\ status' = 3 /\ exit = "none" /\ exit' = "refund"
        /\ UNCHANGED <<joiner, first_revealer, commit>>
    BY <1>1 DEF IInv, Shape, Refund, MayRefund, Close
  <2>2. paid' = [W!Nothing EXCEPT ![Creator] = Stake - 0]
    BY <1>1, AmountFacts DEF Refund, MayRefund, Close, W!Nothing, Addresses
  <2>3. W!Withdraw
    BY <2>1, <2>2 DEF W!Withdraw
  <2> QED
    BY <2>3 DEF W!Next
<1>2. CASE RefundOpen
  <2>1. /\ status = 0 /\ status' = 3 /\ exit = "none" /\ exit' = "refund_open"
        /\ UNCHANGED <<joiner, first_revealer, commit>>
    BY <1>2 DEF IInv, Shape, RefundOpen, MayRefundOpen, Close
  <2>2. paid' = [W!Nothing EXCEPT ![Creator] = Stake - SettleFee]
    BY <1>2, AmountFacts DEF RefundOpen, MayRefundOpen, Close, W!Nothing, Addresses
  <2>3. W!Withdraw
    BY <2>1, <2>2 DEF W!Withdraw
  <2> QED
    BY <2>3 DEF W!Next
<1>3. ASSUME NEW p \in Players, Join(p) PROVE W!Next
  <2>1. /\ status = 0 /\ status' = 1 /\ p # Creator /\ joiner' = p
        /\ exit = "none" /\ UNCHANGED <<first_revealer, commit, paid, exit>>
    BY <1>3 DEF IInv, Shape, Join, Continue
  <2>2. W!Match(p)
    BY <2>1 DEF W!Match
  <2> QED
    BY <2>2 DEF W!Next
<1>4. ASSUME NEW p \in Players, RevealFirst(p) PROVE W!Next
  <2>1. /\ status = 1 /\ status' = 2 /\ p \in {Creator, joiner}
        /\ first_revealer = NoPlayer /\ first_revealer' = p /\ p # NoPlayer
        /\ exit = "none" /\ UNCHANGED <<joiner, commit, paid, exit>>
    BY <1>4, PartyFacts DEF IInv, Shape, RevealFirst, MayRevealFirst, Continue
  <2>2. W!RevealFirst(p)
    BY <2>1 DEF W!RevealFirst
  <2> QED
    BY <2>2 DEF W!Next
<1>5. ASSUME NEW p \in Players, RevealSecond(p) PROVE W!Next
  <2>1. /\ status = 2 /\ status' = 3 /\ exit = "none" /\ exit' = "reveal"
        /\ first_revealer # NoPlayer
        /\ UNCHANGED <<joiner, commit>>
    BY <1>5, PartyFacts DEF IInv, Shape, RevealSecond, MayRevealSecond, Close
  <2>2. W!Winner \in Players /\ W!Winner # Wallet /\ Wallet \in Addresses
    BY <1>5, PartyFacts, PartiesAssumption DEF IInv, Shape, RevealSecond, MayRevealSecond, W!Winner
  <2>3. paid' = [a \in Addresses |-> IF a \in {W!Winner, Wallet}
                                     THEN IF a = Wallet THEN GameFee ELSE gross_pot - GameFee
                                     ELSE 0]
    BY <1>5, WinnerAsCommitted DEF RevealSecond, MayRevealSecond, Close
  <2>4. W!Pot = gross_pot
    BY AmountFacts DEF W!Pot
  <2>5. paid' = [W!Nothing EXCEPT ![W!Winner] = W!Pot - GameFee, ![Wallet] = GameFee]
    BY <2>2, <2>3, <2>4 DEF W!Nothing, Addresses
  <2>6. W!RevealSecond
    BY <2>1, <2>5 DEF W!RevealSecond
  <2> QED
    BY <2>6 DEF W!Next
<1>6. CASE FallbackClaim
  <2>1. /\ status = 2 /\ status' = 3 /\ exit = "none" /\ exit' = "fallback_claim"
        /\ first_revealer \in Players /\ first_revealer # NoPlayer /\ first_revealer # Wallet
        /\ UNCHANGED <<joiner, first_revealer, commit>>
    BY <1>6, PartyFacts, PartiesAssumption DEF IInv, Shape, FallbackClaim, MayFallbackClaim, Close
  <2>2. W!Pot = gross_pot
    BY AmountFacts DEF W!Pot
  <2>3. paid' = [W!Nothing EXCEPT ![first_revealer] = W!Pot - GameFee - SettleFee,
                                  ![Wallet] = GameFee]
    BY <1>6, <2>1, <2>2, PartyFacts DEF FallbackClaim, MayFallbackClaim, Close, W!Nothing, Addresses
  <2>4. W!Forfeit(first_revealer)
    BY <2>1, <2>3 DEF W!Forfeit
  <2> QED
    BY <2>1, <2>4 DEF W!Next
<1>7. CASE RefundAll
  <2>1. /\ status = 1 /\ status' = 3 /\ exit = "none" /\ exit' = "refund_all"
        /\ first_revealer = NoPlayer
        /\ UNCHANGED <<joiner, first_revealer, commit>>
    BY <1>7 DEF IInv, Shape, RefundAll, MayRefundAll, Close
  <2>2. paid' = [a \in Players \cup {Wallet} |->
                   IF a \in {Creator, joiner} THEN Stake - SettleFee \div 2 ELSE 0]
    BY <1>7 DEF RefundAll, MayRefundAll, Close, Addresses
  <2>3. W!CallOff
    BY <2>1, <2>2 DEF W!CallOff
  <2> QED
    BY <2>3 DEF W!Next
<1>8. CASE Tick
  BY <1>8 DEF Tick, state, W!vars
<1>9. CASE UNCHANGED vars
  BY <1>9 DEF vars, W!vars
<1> QED
  BY <1>1, <1>2, <1>3, <1>4, <1>5, <1>6, <1>7, <1>8, <1>9 DEF Next

\* The covenant implements the wager: in every game, whatever its stake, fee
\* and players, each entry does to the money what one step of the wager does.
THEOREM CovenantImplementsWager == Spec => ImplementsWager
<1>1. Spec => W!Init
  BY RefinesInit DEF Spec
<1>2. Spec => [][W!Next]_(W!vars)
  BY Invariance, RefinesNext, PTL DEF Spec
<1> QED
  BY <1>1, <1>2, PTL DEF ImplementsWager, W!Spec

-----------------------------------------------------------------------------
(***************************************************************************)
(* The covenant without its amounts: Escrow                                *)
(***************************************************************************)
LEMMA EscrowInit == Init => E!Init
  BY TermsAssumption DEF Init, E!Init, Stage

LEMMA EscrowNext ==
    ASSUME IInv, [Next]_vars
    PROVE  [E!Next]_(E!vars)
<1> DEFINE Old == status # 3 /\ age >= Wait
           Late == daa >= Deadline
<1>1. /\ status \in 0..3 /\ age \in 0..Wait /\ daa \in 0..Deadline
      /\ Wait \in Nat \ {0} /\ Deadline \in Nat
  BY TermsAssumption DEF IInv, TypeOK
<1>2. ASSUME status' = 3, UNCHANGED <<joiner, first_revealer, daa>>, NEW entry, exit' = entry
      PROVE  E!Over(entry)
  BY <1>2 DEF E!Over, Stage
<1>3. CASE Refund
  <2>1. status = 0 /\ status' = 3 /\ exit' = "refund" /\ UNCHANGED <<joiner, first_revealer, daa>>
    BY <1>3 DEF Refund, MayRefund, Close
  <2> QED
    BY <1>2, <2>1 DEF E!Next, E!Withdraw, Stage
<1>4. CASE RefundOpen
  <2>1. /\ status = 0 /\ daa >= Deadline /\ status' = 3 /\ exit' = "refund_open"
        /\ UNCHANGED <<joiner, first_revealer, daa>>
    BY <1>4 DEF RefundOpen, MayRefundOpen, Close
  <2> QED
    BY <1>2, <2>1 DEF E!Next, E!Expire, Stage
<1>5. ASSUME NEW p \in Players, Join(p) PROVE E!Next
  <2>1. /\ status = 0 /\ p # Creator /\ status' = 1 /\ joiner' = p /\ age' = 0
        /\ UNCHANGED <<first_revealer, exit, daa>>
    BY <1>5 DEF Join, Continue
  <2>2. Old' = FALSE
    BY <1>1, <2>1
  <2> QED
    BY <2>1, <2>2 DEF E!Next, E!Join, Stage
<1>6. ASSUME NEW p \in Players, RevealFirst(p) PROVE E!Next
  <2>1. /\ status = 1 /\ p \in {Creator, joiner} /\ status' = 2 /\ first_revealer' = p /\ age' = 0
        /\ UNCHANGED <<joiner, exit, daa>>
    BY <1>6 DEF RevealFirst, MayRevealFirst, Continue
  <2>2. Old' = FALSE
    BY <1>1, <2>1
  <2> QED
    BY <2>1, <2>2 DEF E!Next, E!Lead, Stage
<1>7. ASSUME NEW p \in Players, RevealSecond(p) PROVE E!Next
  <2>1. /\ status = 2 /\ p \in {Creator, joiner} \ {first_revealer} /\ status' = 3 /\ exit' = "reveal"
        /\ UNCHANGED <<joiner, first_revealer, daa>>
    BY <1>7 DEF RevealSecond, MayRevealSecond, Close
  <2> QED
    BY <1>2, <2>1 DEF E!Next, E!Settle, Stage
<1>8. CASE FallbackClaim
  <2>1. /\ status = 2 /\ age >= Wait /\ status' = 3 /\ exit' = "fallback_claim"
        /\ UNCHANGED <<joiner, first_revealer, daa>>
    BY <1>8 DEF FallbackClaim, MayFallbackClaim, Close
  <2> QED
    BY <1>2, <2>1 DEF E!Next, E!Forfeit, Stage
<1>9. CASE RefundAll
  <2>1. /\ status = 1 /\ age >= Wait /\ status' = 3 /\ exit' = "refund_all"
        /\ UNCHANGED <<joiner, first_revealer, daa>>
    BY <1>9 DEF RefundAll, MayRefundAll, Close
  <2> QED
    BY <1>2, <2>1 DEF E!Next, E!CallOff, Stage
<1>10. CASE Tick
  <2>1. status # 3 /\ UNCHANGED <<status, joiner, first_revealer, exit>>
    BY <1>10 DEF Tick, state
  <2>2. daa' \in 0..Deadline /\ age' \in 0..Wait /\ daa' >= daa /\ age' >= age
    BY <1>1, <1>10 DEF Tick
  <2>3. (Late => Late') /\ (Old => Old')
    BY <1>1, <2>1, <2>2
  <2>4. Stage' = Stage /\ Stage # "over"
    BY <1>1, <2>1 DEF Stage
  <2>5. Late' \in {Late, TRUE}
    <3>1. (Late' = TRUE) \/ (Late' = Late)
      BY <2>3
    <3> HIDE DEF Late
    <3> QED
      BY <3>1
  <2>6. Old' \in {Old, TRUE}
    <3>1. (Old' = TRUE) \/ (Old' = Old)
      BY <2>3
    <3> HIDE DEF Old
    <3> QED
      BY <3>1
  <2> QED
    BY <2>1, <2>4, <2>5, <2>6 DEF E!Next, E!Clock
<1>11. CASE UNCHANGED vars
  BY <1>11 DEF vars, E!vars, Stage
<1> QED
  BY <1>3, <1>4, <1>5, <1>6, <1>7, <1>8, <1>9, <1>10, <1>11 DEF Next

\* The script, for any stakes, fees and waits, spends the escrow in the order,
\* by the players and after the waits of Escrow.
THEOREM CovenantImplementsEscrow == Spec => ImplementsEscrow
<1>1. Spec => [][E!Next]_(E!vars)
  BY Invariance, EscrowNext, PTL DEF Spec
<1> QED
  BY <1>1, EscrowInit, PTL DEF Spec, ImplementsEscrow, E!Spec

-----------------------------------------------------------------------------
(***************************************************************************)
(* The decisions of the JavaScript                                         *)
(***************************************************************************)
\* Shape says which status goes with which value and which first revealer,
\* and that is what the JavaScript decides by.
LEMMA Offers == IInv => OffersAreOpen
<1> SUFFICES ASSUME IInv PROVE OffersAreOpen
  OBVIOUS
<1>1. /\ status \in 0..3 /\ age \in 0..Wait /\ daa \in 0..Deadline
      /\ Wait \in Nat \ {0} /\ Deadline \in Nat
      /\ gross_pot > SettleFee
      /\ status = 0 => value = Stake
      /\ status \in {1, 2} => value = gross_pot
      /\ status = 1 => first_revealer = NoPlayer
      /\ status = 2 => first_revealer # NoPlayer
      /\ \A p \in Players : p # NoPlayer
      /\ status # 3 => exit = "none"
  BY AmountFacts, PartyFacts, TermsAssumption DEF IInv, TypeOK, Shape
<1>2. /\ GameStatus = "waiting_for_player_b" <=> status = 0
      /\ GameStatus = "joined" <=> status = 1
      /\ GameStatus = "first_revealed" <=> status = 2
      /\ GameStatus \in {"settled", "fallback_claimed"} => status = 3
  <2>1. status = 0 => GameStatus = "waiting_for_player_b"
    BY <1>1 DEF GameStatus
  <2>2. status = 1 => GameStatus = "joined"
    BY <1>1 DEF GameStatus
  <2>3. status = 2 => GameStatus = "first_revealed"
    BY <1>1 DEF GameStatus
  <2>4. ASSUME status = 3
        PROVE  GameStatus \in {"settled", "fallback_claimed", "creator_refunded", "refunded"}
    <3>1. GameStatus = CASE exit = "reveal" -> "settled"
                         [] exit = "fallback_claim" -> "fallback_claimed"
                         [] exit \in {"refund", "refund_open"} -> "creator_refunded"
                         [] OTHER -> "refunded"
      BY <2>4 DEF GameStatus
    <3> QED
      BY <3>1
  <2> QED
    BY <1>1, <2>1, <2>2, <2>3, <2>4
<1>3. CanReveal <=> status \in {1, 2}
  BY <1>2 DEF CanReveal
<1>4. ASSUME NEW p \in Players
      PROVE  IF ResolveReveal(p) = "available" THEN MayReveal(p) ELSE age > 0 => ~MayReveal(p)
  <2>1. ResolveReveal(p) = "available"
          <=> /\ p \in {Creator, joiner} /\ GameStatus \notin {"settled", "fallback_claimed"}
              /\ CanReveal /\ age # 0 /\ p # first_revealer
    BY DEF ResolveReveal
  <2>2. ResolveReveal(p) = "available"
          <=> p \in {Creator, joiner} /\ status \in {1, 2} /\ age # 0 /\ p # first_revealer
    BY <2>1, <1>1, <1>2, <1>3
  <2> QED
    BY <2>2, <1>1 DEF MayReveal, MayRevealFirst, MayRevealSecond
<1>5. ASSUME NEW p \in Players, ResolveFallbackClaim(p) = "available" PROVE MayFallbackClaim
  <2>1. status # 3 /\ first_revealer # NoPlayer /\ Reached(age, Wait)
    BY <1>5 DEF ResolveFallbackClaim
  <2>2. status = 2 /\ age >= Wait
    BY <2>1, <1>1 DEF IInv, Shape, Reached
  <2> QED
    BY <2>2, <1>1 DEF MayFallbackClaim
<1>6. /\ Sent = "refund_open" <=> status = 0 /\ daa >= Deadline
      /\ Sent = "refund_all" <=> status = 1 /\ age >= Wait
      /\ Sent = "fallback_claim" <=> status = 2 /\ age >= Wait
      /\ Sent \in {"refund_open", "refund_all", "fallback_claim", "none"}
  BY DEF Sent
<1>7. \A action \in {"refund_open", "refund_all", "fallback_claim"} :
         Sent = action <=> MayTimeout(action)
  BY <1>1, <1>6 DEF MayTimeout, MayRefundOpen, MayRefundAll, MayFallbackClaim
<1>8. /\ Sent \in {"none", AutomaticAction}
      /\ \A noticed \in SinceNoticed :
            /\ Ready(AutomaticAction, noticed) => Sent = AutomaticAction
            /\ Sent \notin {"none", "fallback_claim"} => Ready(Sent, noticed)
  <2>1. AutomaticAction = CASE status = 0 -> "refund_open"
                            [] status = 1 -> "refund_all"
                            [] status = 2 -> "fallback_claim"
                            [] OTHER -> "none"
    BY <1>2 DEF AutomaticAction
  <2>2. /\ status = 0 => AutomaticAction = "refund_open"
        /\ status = 1 => AutomaticAction = "refund_all"
        /\ status = 2 => AutomaticAction = "fallback_claim"
        /\ status = 3 => AutomaticAction = "none"
    BY <2>1
  <2>3. Sent \in {"none", AutomaticAction}
    BY <1>1, <1>6, <2>2
  <2>4. ASSUME NEW noticed \in SinceNoticed, Ready(AutomaticAction, noticed)
        PROVE  Sent = AutomaticAction
    <3>1. noticed >= Wait => age >= Wait
      <4> SUFFICES ASSUME age < Wait PROVE noticed < Wait
        BY <1>1 DEF SinceNoticed
      <4> QED
        BY <1>1 DEF SinceNoticed
    <3>2. CASE status = 0
      BY <2>2, <2>4, <3>2, <1>6 DEF Ready, Reached
    <3>3. CASE status = 1
      BY <2>2, <2>4, <3>3, <1>6 DEF Ready, Reached
    <3>4. CASE status = 2
      BY <2>2, <2>4, <3>1, <3>4, <1>6 DEF Ready, Reached
    <3>5. CASE status = 3
      BY <2>2, <2>4, <3>5 DEF Ready
    <3> QED
      BY <1>1, <3>2, <3>3, <3>4, <3>5
  <2>5. ASSUME NEW noticed \in SinceNoticed, Sent \notin {"none", "fallback_claim"}
        PROVE  Ready(Sent, noticed)
    <3>1. CASE Sent = "refund_open"
      BY <1>6, <3>1 DEF Ready, Reached
    <3>2. CASE Sent = "refund_all"
      BY <1>6, <3>2 DEF Ready, Reached
    <3> QED
      BY <1>6, <2>5, <3>1, <3>2
  <2> QED
    BY <2>3, <2>4, <2>5
<1>9. CanCancel <=> MayRefund
  BY <1>2 DEF CanCancel, MayRefund
<1> QED
  BY <1>4, <1>5, <1>7, <1>8, <1>9 DEF OffersAreOpen

\* Both choices of a second reveal are known to the server, and it reads their
\* parity as the script does.
LEMMA ServersWinner ==
    ASSUME NEW p \in Players, IInv, RevealSecond(p)
    PROVE  parityOutcome(ChoicesWith(p)[Creator], ChoicesWith(p)[joiner]) = WinnerAfter(p)
<1>1. /\ p \in {Creator, joiner} /\ p # first_revealer
      /\ joiner \in Players /\ joiner # Creator /\ first_revealer \in {Creator, joiner}
  BY DEF IInv, Shape, RevealSecond, MayRevealSecond
<1>2. ChoicesWith(p)[Creator] = commit[Creator] /\ ChoicesWith(p)[joiner] = commit[joiner]
  BY <1>1 DEF ChoicesWith
<1>3. commit[Creator] \in {0, 1} /\ commit[joiner] \in {0, 1} /\ CreatorEven \in {0, 1}
  BY <1>1, TermsAssumption, PartiesAssumption DEF IInv, TypeOK
<1>4. 1 - CreatorEven = IF CreatorEven = 1 THEN 0 ELSE 1
  BY <1>3
<1>5. parityOutcome(commit[Creator], commit[joiner]) = W!Winner
  BY <1>3, <1>4 DEF parityOutcome, W!Winner
<1> QED
  BY <1>2, <1>5, WinnerAsCommitted

LEMMA FirstRevealIsExact ==
    ASSUME NEW p \in Players, IInv, RevealFirst(p)
    PROVE  RevealTemplate(p)
<1>1. /\ status = 1 /\ p \in {Creator, joiner} /\ p # NoPlayer /\ Creator # NoPlayer
      /\ joiner \in Players /\ joiner # Creator /\ joiner # NoPlayer
      /\ first_revealer = NoPlayer /\ creator_choice = 0 /\ joiner_choice = 0
  BY PartyFacts DEF IInv, Shape, RevealFirst, MayRevealFirst
<1>2. /\ ChoicesWith(p)[Creator] = IF p = Creator THEN commit[Creator] ELSE 0
      /\ ChoicesWith(p)[joiner] = IF p = joiner THEN commit[joiner] ELSE 0
  BY <1>1 DEF ChoicesWith
<1>3. Continuation(p)
  BY <1>1, <1>2 DEF Continuation, RevealFirst, CreatorChoiceAfter, JoinerChoiceAfter, Continue, gross_pot
<1> QED
  BY <1>1, <1>3 DEF RevealTemplate

LEMMA SecondRevealIsExact ==
    ASSUME NEW p \in Players, IInv, RevealSecond(p)
    PROVE  RevealTemplate(p)
<1> DEFINE w == WinnerAfter(p)
<1>1. first_revealer # NoPlayer
  BY PartyFacts DEF IInv, Shape, RevealSecond, MayRevealSecond
<1>2. paid' = [a \in Addresses |->
                 IF a \in DOMAIN [b \in {w, Wallet} |-> IF b = Wallet THEN GameFee ELSE gross_pot - GameFee]
                 THEN [b \in {w, Wallet} |-> IF b = Wallet THEN GameFee ELSE gross_pot - GameFee][a]
                 ELSE 0]
  BY DEF RevealSecond, Close
<1>3. gross_pot - GameFee - 0 = gross_pot - GameFee
  BY AmountFacts
<1> HIDE DEF w
<1>4. PotTo(w, 0)
  BY <1>2, <1>3 DEF PotTo, Pay
<1> QED
  BY <1>1, <1>4, ServersWinner DEF RevealTemplate, w

LEMMA TemplatesAreExact ==
    ASSUME IInv
    PROVE  OffersAreExact
<1>1. ASSUME NEW p \in Players, RevealFirst(p) \/ RevealSecond(p) PROVE RevealTemplate(p)
  BY <1>1, FirstRevealIsExact, SecondRevealIsExact
<1>2. ASSUME RefundOpen PROVE TimeoutTemplate("refund_open")
  BY <1>2 DEF RefundOpen, Close, TimeoutTemplate, Pay
<1>3. ASSUME RefundAll PROVE TimeoutTemplate("refund_all")
  BY <1>3 DEF RefundAll, Close, TimeoutTemplate, Pay
<1>4. ASSUME FallbackClaim PROVE TimeoutTemplate("fallback_claim")
  <2>1. PotTo(first_revealer, SettleFee)
    BY <1>4 DEF FallbackClaim, Close, PotTo, Pay
  <2> QED
    BY <2>1 DEF TimeoutTemplate
<1> QED
  BY <1>1, <1>2, <1>3, <1>4 DEF OffersAreExact

\* In every state of every game, whatever its terms and players, and whenever
\* the server noticed the first reveal, the page, the server and the keeper
\* offer, announce and send what the script accepts, nothing is kept from a
\* player or a relayer, and every transaction the server builds pays what the
\* script demands.
THEOREM OffersAgree == Spec => OffersAreTheCovenants
<1>1. IInv => OffersAreExact
  BY TemplatesAreExact
<1> QED
  BY Invariance, Offers, <1>1, PTL DEF Spec, OffersAreTheCovenants
=============================================================================
