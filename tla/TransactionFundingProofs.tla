----------------------- MODULE TransactionFundingProofs -----------------------
(***************************************************************************)
(* Whatever the purse, the stake, the fee rate and the mass of a           *)
(* transaction: what is prepared is accepted, what is submitted was        *)
(* approved, and the two pricing loops settle on all who leave enough      *)
(* change.                                                                 *)
(***************************************************************************)
EXTENDS TransactionFunding, FiniteSetTheorems, WellFoundedInduction, TLAPS

-----------------------------------------------------------------------------
(***************************************************************************)
(* Induction over numbers, iteration and sums                              *)
(***************************************************************************)
LEMMA LeastNumber ==
    ASSUME NEW I \in SUBSET Nat, I # {}
    PROVE  \E m \in I : \A i \in I : m <= i
<1> DEFINE less == OpToRel(<, Nat)
<1>1. IsWellFoundedOn(less, Nat)
  BY NatLessThanWellFounded
<1> HIDE DEF less
<1>2. PICK m \in I : \A i \in I : ~(<<i, m>> \in less)
  BY <1>1, WFMin, Zenon
<1>3. \A i \in I : <<i, m>> \in less <=> i < m
  BY DEF less, OpToRel
<1>4. m \in Nat /\ \A i \in I : i \in Nat /\ ~(i < m)
  BY <1>2, <1>3
<1>5. \A i \in I : m <= i
  BY <1>4
<1> QED
  BY <1>5

\* A property of 0 that every number hands on to the next holds of all: here
\* the numbers that have it are a set.
LEMMA EveryNumber ==
    ASSUME NEW I, 0 \in I, \A n \in Nat : n \in I => n + 1 \in I
    PROVE  Nat \subseteq I
<1>1. SUFFICES ASSUME Nat \ I # {} PROVE FALSE
  OBVIOUS
<1>2. PICK m \in Nat \ I : \A i \in Nat \ I : m <= i
  BY <1>1, LeastNumber
<1>3. m - 1 \in Nat /\ m - 1 \notin Nat \ I
  BY <1>2
<1> QED
  BY <1>2, <1>3

\* n rounds of f from a.
LEMMA RoundsExist ==
    ASSUME NEW a \in Int, NEW f \in [Int -> Int], NEW n \in Nat
    PROVE  \E g \in [0..n -> Int] : g[0] = a /\ \A k \in 1..n : g[k] = f[g[k - 1]]
<1> DEFINE Ran(m) == \E g \in [0..m -> Int] : g[0] = a /\ \A k \in 1..m : g[k] = f[g[k - 1]]
           I == {m \in Nat : Ran(m)}
<1>1. Ran(0)
  <2> DEFINE g == [k \in 0..0 |-> a]
  <2>1. g \in [0..0 -> Int] /\ g[0] = a /\ \A k \in 1..0 : g[k] = f[g[k - 1]]
    OBVIOUS
  <2> QED
    BY <2>1
<1>2. ASSUME NEW m \in Nat, Ran(m) PROVE Ran(m + 1)
  <2>1. PICK g \in [0..m -> Int] : g[0] = a /\ \A k \in 1..m : g[k] = f[g[k - 1]]
    BY <1>2
  <2> DEFINE h == [k \in 0..(m + 1) |-> IF k = m + 1 THEN f[g[m]] ELSE g[k]]
  <2>2. h \in [0..(m + 1) -> Int] /\ h[0] = a
    BY <2>1
  <2>3. ASSUME NEW k \in 1..(m + 1) PROVE h[k] = f[h[k - 1]]
    <3>0. k - 1 \in 0..m /\ k - 1 \in 0..(m + 1) /\ k - 1 # m + 1
      OBVIOUS
    <3>1. h[k - 1] = g[k - 1]
      BY <3>0
    <3>2. CASE k = m + 1
      <4>1. h[k] = f[g[m]] /\ k - 1 = m
        BY <3>2
      <4> QED
        BY <3>0, <3>1, <4>1
    <3>3. CASE k # m + 1
      <4>1. k \in 1..m /\ h[k] = g[k]
        BY <3>3
      <4> QED
        BY <2>1, <3>1, <4>1
    <3> QED
      BY <3>2, <3>3
  <2> QED
    BY <2>2, <2>3
<1> HIDE DEF Ran
<1>3. 0 \in I /\ \A m \in Nat : m \in I => m + 1 \in I
  BY <1>1, <1>2
<1>4. n \in I
  BY <1>3, EveryNumber
<1> QED
  BY <1>4 DEF Ran

\* g adds up the coins of every subset of S, as the fold does.
Chosen(s) == CHOOSE x \in s : TRUE

Adds(purse, S, g) ==
    g = [s \in SUBSET S |->
            IF s = {} THEN 0 ELSE purse[Chosen(s)].amount + g[s \ {Chosen(s)}]]

LEMMA SumIsFold ==
    ASSUME NEW purse, NEW S
    PROVE  Sum(purse, S) = (CHOOSE g : Adds(purse, S, g))[S]
  BY DEF Sum, MapThenSumSet, MapThenFoldSet, Adds, Chosen

LEMMA AddsExists ==
    ASSUME NEW purse, NEW S, IsFiniteSet(S)
    PROVE  \E g : Adds(purse, S, g)
<1> DEFINE Small(n) == {s \in SUBSET S : Cardinality(s) <= n}
           Added(n, g) == g = [s \in Small(n) |->
               IF s = {} THEN 0 ELSE purse[Chosen(s)].amount + g[s \ {Chosen(s)}]]
           I == {n \in Nat : \E g : Added(n, g)}
<1>1. \A s \in SUBSET S : IsFiniteSet(s) /\ Cardinality(s) \in Nat
  BY FS_Subset, FS_CardinalityType
<1>2. \A s \in SUBSET S : s # {} =>
          /\ Chosen(s) \in s /\ s \ {Chosen(s)} \in SUBSET S
          /\ Cardinality(s \ {Chosen(s)}) = Cardinality(s) - 1
  BY <1>1, FS_RemoveElement DEF Chosen
<1>3. 0 \in I
  <2> DEFINE g == [s \in Small(0) |-> 0]
  <2>1. \A s \in Small(0) : s = {}
    BY <1>1, FS_EmptySet
  <2>2. Added(0, g)
    BY <2>1
  <2> QED
    BY <2>2
<1>4. ASSUME NEW n \in Nat, n \in I PROVE n + 1 \in I
  <2>1. PICK g : Added(n, g)
    BY <1>4
  <2> DEFINE h == [s \in Small(n + 1) |->
                      IF s = {} THEN 0 ELSE purse[Chosen(s)].amount + g[s \ {Chosen(s)}]]
  <2>2. ASSUME NEW s \in Small(n + 1), s # {}
        PROVE  s \ {Chosen(s)} \in Small(n) /\ h[s \ {Chosen(s)}] = g[s \ {Chosen(s)}]
    <3>1. s \ {Chosen(s)} \in Small(n) /\ s \ {Chosen(s)} \in Small(n + 1)
      BY <1>1, <1>2, <2>2
    <3> QED
      BY <2>1, <3>1
  <2>3. Added(n + 1, h)
    BY <2>2
  <2>4. \E x : Added(n + 1, x)
    BY <2>3
  <2> HIDE DEF Added
  <2> QED
    BY <2>4
<1>5. Cardinality(S) \in I
  <2> HIDE DEF I
  <2>1. Nat \subseteq I
    BY <1>3, <1>4, EveryNumber
  <2> QED
    BY <2>1, FS_CardinalityType
<1>6. Small(Cardinality(S)) = SUBSET S
  BY <1>1, FS_Subset
<1> QED
  BY <1>5, <1>6 DEF Adds

\* A purse of coins, and what a set of them is worth.
Coins == [amount : Nat \ {0}, game : BOOLEAN]

LEMMA SumType ==
    ASSUME NEW purse \in Seq(Coins), NEW S \in SUBSET DOMAIN purse
    PROVE  /\ IsFiniteSet(S) /\ Cardinality(S) \in Nat
           /\ Sum(purse, S) \in Nat
           /\ \A i \in S : S = {i} => Sum(purse, S) = purse[i].amount
<1>1. IsFiniteSet(S) /\ Cardinality(S) \in Nat
  <2>1. DOMAIN purse = 1..Len(purse) /\ Len(purse) \in Nat
    OBVIOUS
  <2>2. IsFiniteSet(1..Len(purse))
    BY <2>1, FS_Interval
  <2>3. IsFiniteSet(S)
    BY <2>1, <2>2, FS_Subset
  <2> QED
    BY <2>3, FS_CardinalityType
<1> DEFINE g == CHOOSE g : Adds(purse, S, g)
<1>2. Adds(purse, S, g)
  BY <1>1, AddsExists
<1>3. Sum(purse, S) = g[S]
  BY SumIsFold
<1> HIDE DEF g
<1>4. ASSUME NEW s \in SUBSET S
      PROVE  /\ s = {} => g[s] = 0
             /\ s # {} => /\ Chosen(s) \in s /\ purse[Chosen(s)].amount \in Nat
                          /\ g[s] = purse[Chosen(s)].amount + g[s \ {Chosen(s)}]
  <2>1. g[s] = IF s = {} THEN 0 ELSE purse[Chosen(s)].amount + g[s \ {Chosen(s)}]
    BY <1>2 DEF Adds
  <2>2. s # {} => Chosen(s) \in s
    BY DEF Chosen
  <2>3. \A i \in s : purse[i].amount \in Nat
    <3>1. \A i \in s : i \in 1..Len(purse) /\ purse[i] \in Coins
      OBVIOUS
    <3> QED
      BY <3>1 DEF Coins
  <2> QED
    BY <2>1, <2>2, <2>3
<1> DEFINE I == {n \in Nat : \A s \in SUBSET S : Cardinality(s) = n => g[s] \in Nat}
<1>5. \A s \in SUBSET S : IsFiniteSet(s) /\ Cardinality(s) \in Nat
  BY <1>1, FS_Subset, FS_CardinalityType
<1>6. 0 \in I
  <2>1. ASSUME NEW s \in SUBSET S, Cardinality(s) = 0 PROVE g[s] \in Nat
    BY <1>4, <1>5, <2>1, FS_EmptySet
  <2> QED
    BY <2>1
<1>7. ASSUME NEW n \in Nat, n \in I PROVE n + 1 \in I
  <2>1. ASSUME NEW s \in SUBSET S, Cardinality(s) = n + 1 PROVE g[s] \in Nat
    <3>1. s # {}
      <4>1. Cardinality({}) # n + 1
        BY FS_EmptySet
      <4> QED
        BY <2>1, <4>1
    <3>2. Cardinality(s \ {Chosen(s)}) = n
      <4>1. Chosen(s) \in s
        BY <3>1 DEF Chosen
      <4>2. IsFiniteSet(s)
        BY <1>5
      <4>3. Cardinality(s \ {Chosen(s)}) = Cardinality(s) - 1
        BY <4>1, <4>2, FS_RemoveElement
      <4> QED
        BY <2>1, <4>3
    <3>3. g[s \ {Chosen(s)}] \in Nat
      BY <1>7, <3>2
    <3>4. purse[Chosen(s)].amount \in Nat /\ g[s] = purse[Chosen(s)].amount + g[s \ {Chosen(s)}]
      BY <1>4, <3>1
    <3> QED
      BY <3>3, <3>4
  <2> QED
    BY <2>1
<1>8. g[S] \in Nat
  <2>1. Nat \subseteq I
    <3> HIDE DEF I
    <3> QED
      BY <1>6, <1>7, EveryNumber
  <2> QED
    BY <1>1, <2>1
<1>9. ASSUME NEW i \in S, S = {i} PROVE g[S] = purse[i].amount
  <2>1. Chosen(S) = i /\ S \ {i} = {}
    BY <1>9 DEF Chosen
  <2>2. g[S] = purse[i].amount + g[{}] /\ g[{}] = 0 /\ purse[i].amount \in Nat
    <3>1. S \in SUBSET S /\ {} \in SUBSET S /\ S # {}
      OBVIOUS
    <3> QED
      BY <1>4, <2>1, <3>1
  <2> QED
    BY <2>2
<1> QED
  BY <1>1, <1>3, <1>8, <1>9

-----------------------------------------------------------------------------
(***************************************************************************)
(* Masses                                                                  *)
(***************************************************************************)
Compute(n) == BaseMass + n * (InputMass + SignatureMass)

LEMMA MassParameters ==
    /\ BaseMass \in Nat /\ BaseMass > 0
    /\ InputMass \in Nat /\ InputMass > 0
    /\ SignatureMass \in Nat /\ SignatureMass > 0
    /\ StorageC \in Nat /\ StorageC > 0
    /\ MaxStorage \in Nat /\ RelayFloor \in Nat
    /\ CreationBound \in Nat /\ JoinBound \in Nat
  BY FundingAssumption

LEMMA ComputeType ==
    ASSUME NEW n \in Nat
    PROVE  /\ Compute(n) \in Nat /\ Compute(n) > 0
           /\ Compute(n) = BaseMass + n * InputMass + n * SignatureMass
<1>1. n * (InputMass + SignatureMass) = n * InputMass + n * SignatureMass
  BY MassParameters
<1>2. n * InputMass \in Nat /\ n * SignatureMass \in Nat
  BY MassParameters
<1> QED
  BY <1>1, <1>2, MassParameters DEF Compute

LEMMA StorageMassType ==
    ASSUME NEW change \in Int
    PROVE  StorageMass(change) \in Nat
  BY MassParameters DEF StorageMass

LEMMA EstimatedMassIs ==
    ASSUME NEW n \in Nat, NEW change \in Int
    PROVE  /\ EstimatedMass(n, change) \in Nat
           /\ EstimatedMass(n, change) = IF StorageMass(change) > Compute(n) THEN StorageMass(change)
                                         ELSE Compute(n)
  BY ComputeType, StorageMassType DEF EstimatedMass, Mass

LEMMA LessThanCompute ==
    ASSUME NEW c \in Nat, c > 0, NEW p \in Nat, NEW b \in Nat, NEW a \in Nat,
           p * b <= a, a < c * b
    PROVE  p < c
<1>1. SUFFICES ASSUME p >= c PROVE FALSE
  OBVIOUS
<1>2. p * b >= c * b
  BY <1>1
<1> QED
  BY <1>2

\* Change that comes to a little more than C / c weighs at most c.
LEMMA EnoughIsLight ==
    ASSUME NEW c \in Nat, c > 0, NEW change \in Int, change >= StorageC \div c + 1
    PROVE  change > 0 /\ StorageMass(change) <= c
<1> DEFINE q == StorageC \div c
           p == StorageC \div change
<1>1. q \in Nat /\ StorageC < (q + 1) * c
  BY MassParameters
<1>2. change \in Nat /\ change > 0 /\ change >= q + 1
  BY <1>1
<1>3. p \in Nat /\ p * change <= StorageC
  BY <1>2, MassParameters
<1> HIDE DEF p, q
<1>4. (q + 1) * c <= c * change
  BY <1>1, <1>2
<1>5. StorageC < c * change
  BY <1>1, <1>2, <1>4, MassParameters
<1>6. p < c
  BY <1>2, <1>3, <1>5, LessThanCompute, MassParameters
<1>7. StorageMass(change) = p
  BY <1>2 DEF StorageMass, p
<1> QED
  BY <1>2, <1>3, <1>6, <1>7

LEMMA EnoughIsPlain ==
    ASSUME NEW n \in Nat, NEW change \in Int, change >= StorageC \div Compute(n) + 1
    PROVE  EstimatedMass(n, change) = Compute(n) /\ change > 0
  BY ComputeType, StorageMassType, EstimatedMassIs, EnoughIsLight

LEMMA EdgeType ==
    ASSUME NEW n \in Nat, NEW rate \in Nat
    PROVE  /\ StorageC \div Compute(n) \in Nat /\ rate * Compute(n) \in Nat
           /\ Comfort(n, rate) = StorageC \div Compute(n) + 1 + rate * Compute(n)
  BY ComputeType, MassParameters DEF Comfort, Compute

-----------------------------------------------------------------------------
(***************************************************************************)
(* Pricing                                                                 *)
(***************************************************************************)
\* What a loop that ended well says of its transaction.
PricedWell(n, available, rate, priced) ==
    /\ priced.fee \in Int /\ priced.change \in Int
    /\ priced.fee = rate * EstimatedMass(n, priced.change)
    /\ available - priced.change = priced.fee

Repriced(n, available, rate, fee) ==
    IF fee > available THEN fee ELSE rate * EstimatedMass(n, ChangeLeft(available, fee))

Fees(n, available, rate, fee) ==
    fee = [k \in 1..Rounds |-> IF k = 1 THEN 0 ELSE Repriced(n, available, rate, fee[k - 1])]

LastFee(n, available, rate) == (CHOOSE fee : Fees(n, available, rate, fee))[Rounds]

LEMMA DynamicFeeIs ==
    ASSUME NEW n, NEW available, NEW rate
    PROVE  LET last == LastFee(n, available, rate)
           IN DynamicFee(n, available, rate) =
                  IF Settles(n, available, rate, last)
                  THEN [ok |-> TRUE, fee |-> last, change |-> ChangeLeft(available, last)]
                  ELSE Refused
  BY DEF DynamicFee, LastFee, Fees, Repriced

LEMMA RepricedType ==
    ASSUME NEW n \in Nat, NEW available \in Int, NEW rate \in Nat, NEW fee \in Int
    PROVE  Repriced(n, available, rate, fee) \in Int
<1>1. EstimatedMass(n, ChangeLeft(available, fee)) \in Nat
  BY EstimatedMassIs DEF ChangeLeft
<1> QED
  BY <1>1 DEF Repriced

LEMMA FeesExist ==
    ASSUME NEW n \in Nat, NEW available \in Int, NEW rate \in Nat
    PROVE  \E fee : Fees(n, available, rate, fee)
<1> DEFINE f == [x \in Int |-> Repriced(n, available, rate, x)]
<1>1. f \in [Int -> Int]
  BY RepricedType
<1>2. PICK g \in [0..7 -> Int] : g[0] = 0 /\ \A k \in 1..7 : g[k] = f[g[k - 1]]
  <2> HIDE DEF f
  <2>1. 0 \in Int /\ 7 \in Nat
    OBVIOUS
  <2> QED
    BY <1>1, <2>1, RoundsExist, Zenon
<1> DEFINE fee == [k \in 1..Rounds |-> g[k - 1]]
<1>3. ASSUME NEW k \in 1..Rounds
      PROVE  fee[k] = IF k = 1 THEN 0 ELSE Repriced(n, available, rate, fee[k - 1])
  <2>1. CASE k = 1
    BY <1>2, <2>1 DEF Rounds
  <2>2. CASE k # 1
    <3>1. k - 1 \in 1..7 /\ k - 1 \in 1..Rounds /\ (k - 1) - 1 \in 0..7
      BY <2>2 DEF Rounds
    <3>2. g[k - 1] = f[g[(k - 1) - 1]] /\ g[(k - 1) - 1] \in Int
      BY <1>2, <3>1
    <3>3. fee[k] = g[k - 1] /\ fee[k - 1] = g[(k - 1) - 1]
      BY <3>1
    <3> QED
      BY <2>2, <3>2, <3>3
  <2> QED
    BY <2>1, <2>2
<1>4. Fees(n, available, rate, fee)
  BY <1>3 DEF Fees
<1> QED
  BY <1>4

\* The rounds one by one, whatever holds of the first and is handed on.
LEMMA FeesKeep ==
    ASSUME NEW n \in Nat, NEW available \in Int, NEW rate \in Nat, NEW I, I \subseteq Int,
           Repriced(n, available, rate, 0) \in I,
           \A x \in I : Repriced(n, available, rate, x) \in I
    PROVE  LastFee(n, available, rate) \in I
<1> DEFINE fee == CHOOSE fee : Fees(n, available, rate, fee)
<1>1. Fees(n, available, rate, fee)
  BY FeesExist
<1>2. LastFee(n, available, rate) = fee[8]
  BY DEF LastFee, Rounds
<1> HIDE DEF fee
<1>3. fee[1] = 0 /\ \A k \in 2..8 : fee[k] = Repriced(n, available, rate, fee[k - 1])
  <2>1. \A k \in 1..8 : fee[k] = IF k = 1 THEN 0 ELSE Repriced(n, available, rate, fee[k - 1])
    BY <1>1 DEF Fees, Rounds
  <2> QED
    BY <2>1
<1>4. /\ fee[2] = Repriced(n, available, rate, fee[1])
      /\ fee[3] = Repriced(n, available, rate, fee[2])
      /\ fee[4] = Repriced(n, available, rate, fee[3])
      /\ fee[5] = Repriced(n, available, rate, fee[4])
      /\ fee[6] = Repriced(n, available, rate, fee[5])
      /\ fee[7] = Repriced(n, available, rate, fee[6])
      /\ fee[8] = Repriced(n, available, rate, fee[7])
  BY <1>3
<1> QED
  BY <1>2, <1>3, <1>4

LEMMA DynamicFeeWell ==
    ASSUME NEW n \in Nat, NEW available \in Int, NEW rate \in Nat, DynamicFee(n, available, rate).ok
    PROVE  PricedWell(n, available, rate, DynamicFee(n, available, rate))
<1> DEFINE last == LastFee(n, available, rate)
<1>1. last \in Int
  <2>1. Int \subseteq Int /\ 0 \in Int /\ Repriced(n, available, rate, 0) \in Int
    BY RepricedType
  <2>2. \A x \in Int : Repriced(n, available, rate, x) \in Int
    BY RepricedType
  <2> QED
    BY <2>1, <2>2, FeesKeep, Zenon
<1>2. Settles(n, available, rate, last)
  BY DynamicFeeIs DEF Refused
<1>3. DynamicFee(n, available, rate) = [ok |-> TRUE, fee |-> last, change |-> ChangeLeft(available, last)]
  BY <1>2, DynamicFeeIs
<1> HIDE DEF last
<1> QED
  BY <1>1, <1>2, <1>3 DEF PricedWell, Settles, ChangeLeft

\* With enough beside the stake, the second round finds the fee.
LEMMA DynamicFeeSettles ==
    ASSUME NEW n \in Nat, NEW available \in Int, NEW rate \in Nat, available >= Comfort(n, rate)
    PROVE  LET priced == DynamicFee(n, available, rate)
           IN priced.ok /\ StorageMass(priced.change) <= Compute(n)
<1> DEFINE least == StorageC \div Compute(n) + 1
           fee == rate * Compute(n)
<1>1. fee \in Nat /\ least \in Nat /\ available >= least + fee
  <2>1. Comfort(n, rate) = least + fee /\ fee \in Nat /\ StorageC \div Compute(n) \in Nat
    BY EdgeType
  <2> HIDE DEF fee
  <2> QED
    BY <2>1
<1>2. EstimatedMass(n, available) = Compute(n) /\ EstimatedMass(n, available - fee) = Compute(n)
  BY <1>1, EnoughIsPlain
<1>3. StorageMass(available - fee) <= Compute(n)
  BY <1>1, EnoughIsLight, ComputeType
<1>4. Repriced(n, available, rate, 0) = fee /\ Repriced(n, available, rate, fee) = fee
  <2>1. available - 0 = available /\ ~(0 > available) /\ ~(fee > available)
    BY <1>1
  <2> QED
    BY <1>2, <2>1 DEF Repriced, ChangeLeft
<1>5. LastFee(n, available, rate) \in {fee}
  <2> HIDE DEF fee
  <2>1. {fee} \subseteq Int /\ Repriced(n, available, rate, 0) \in {fee}
    BY <1>1, <1>4
  <2>2. \A x \in {fee} : Repriced(n, available, rate, x) \in {fee}
    BY <1>4
  <2> QED
    BY <2>1, <2>2, FeesKeep, Zenon
<1>6. Settles(n, available, rate, fee)
  BY <1>1, <1>2 DEF Settles, ChangeLeft
<1> HIDE DEF fee
<1>7. DynamicFee(n, available, rate) = [ok |-> TRUE, fee |-> fee, change |-> ChangeLeft(available, fee)]
  BY <1>5, <1>6, DynamicFeeIs
<1> QED
  BY <1>3, <1>7 DEF ChangeLeft

Left(n, available, rate, change) == available - rate * EstimatedMass(n, change)

Refined(n, available, rate, change) ==
    IF change <= 0 THEN change ELSE Left(n, available, rate, change)

Changes(n, available, rate, change) ==
    change = [k \in 0..Rounds |-> IF k = 0 THEN Left(n, available, rate, 0)
                                  ELSE Refined(n, available, rate, change[k - 1])]

TheChanges(n, available, rate) == CHOOSE change : Changes(n, available, rate, change)

LEMMA GenesisFeeIs ==
    ASSUME NEW n, NEW available, NEW rate
    PROVE  LET change == TheChanges(n, available, rate)
               last == change[Rounds - 1]
           IN GenesisFee(n, available, rate) =
                  IF change[0] = 0 THEN [ok |-> TRUE, fee |-> available, change |-> 0]
                  ELSE IF change[Rounds] > 0 /\ Consistent(last, change[Rounds])
                  THEN [ok |-> TRUE, fee |-> rate * EstimatedMass(n, last), change |-> last]
                  ELSE Refused
  BY DEF GenesisFee, TheChanges, Changes, Refined, Left

LEMMA LeftType ==
    ASSUME NEW n \in Nat, NEW available \in Int, NEW rate \in Nat, NEW change \in Int
    PROVE  /\ Left(n, available, rate, change) \in Int
           /\ Refined(n, available, rate, change) \in Int
<1>1. EstimatedMass(n, change) \in Nat
  BY EstimatedMassIs
<1> QED
  BY <1>1 DEF Left, Refined

LEMMA ChangesExist ==
    ASSUME NEW n \in Nat, NEW available \in Int, NEW rate \in Nat
    PROVE  Changes(n, available, rate, TheChanges(n, available, rate))
<1> DEFINE f == [x \in Int |-> Refined(n, available, rate, x)]
           a == Left(n, available, rate, 0)
<1>1. f \in [Int -> Int] /\ a \in Int
  BY LeftType
<1>2. PICK g \in [0..8 -> Int] : g[0] = a /\ \A k \in 1..8 : g[k] = f[g[k - 1]]
  <2> HIDE DEF f, a
  <2>1. 8 \in Nat
    OBVIOUS
  <2> QED
    BY <1>1, <2>1, RoundsExist, Zenon
<1> DEFINE change == [k \in 0..Rounds |-> g[k]]
<1>3. ASSUME NEW k \in 0..Rounds
      PROVE  change[k] = IF k = 0 THEN a ELSE Refined(n, available, rate, change[k - 1])
  <2>1. CASE k = 0
    BY <1>2, <2>1 DEF Rounds
  <2>2. CASE k # 0
    <3>1. k \in 1..8 /\ k - 1 \in 0..8 /\ k - 1 \in 0..Rounds
      BY <2>2 DEF Rounds
    <3>2. g[k] = f[g[k - 1]] /\ g[k - 1] \in Int
      BY <1>2, <3>1
    <3>3. change[k] = g[k] /\ change[k - 1] = g[k - 1]
      BY <3>1
    <3> QED
      BY <2>2, <3>2, <3>3
  <2> QED
    BY <2>1, <2>2
<1>4. Changes(n, available, rate, change)
  BY <1>3 DEF Changes
<1> QED
  BY <1>4 DEF TheChanges

LEMMA ChangesOneByOne ==
    ASSUME NEW n \in Nat, NEW available \in Int, NEW rate \in Nat
    PROVE  LET change == TheChanges(n, available, rate)
           IN /\ change[0] = Left(n, available, rate, 0)
              /\ \A k \in 1..8 : change[k] = Refined(n, available, rate, change[k - 1])
<1> DEFINE change == TheChanges(n, available, rate)
<1>1. change = [k \in 0..Rounds |-> IF k = 0 THEN Left(n, available, rate, 0)
                                    ELSE Refined(n, available, rate, change[k - 1])]
  BY ChangesExist DEF Changes
<1> HIDE DEF change
<1>2. \A k \in 0..8 : change[k] = IF k = 0 THEN Left(n, available, rate, 0)
                                  ELSE Refined(n, available, rate, change[k - 1])
  BY <1>1 DEF Rounds
<1>3. change[0] = Left(n, available, rate, 0)
  BY <1>2
<1>4. \A k \in 1..8 : change[k] = Refined(n, available, rate, change[k - 1])
  BY <1>2
<1> QED
  BY <1>3, <1>4 DEF change

\* As FeesKeep: from the first change to the last but one and the last.
LEMMA ChangesKeep ==
    ASSUME NEW n \in Nat, NEW available \in Int, NEW rate \in Nat, NEW I,
           Left(n, available, rate, 0) \in I,
           \A x \in I : Refined(n, available, rate, x) \in I
    PROVE  LET change == TheChanges(n, available, rate)
           IN /\ change[0] = Left(n, available, rate, 0)
              /\ change[Rounds - 1] \in I
              /\ change[Rounds] = Refined(n, available, rate, change[Rounds - 1])
<1> DEFINE change == TheChanges(n, available, rate)
<1>1. /\ change[0] = Left(n, available, rate, 0)
      /\ \A k \in 1..8 : change[k] = Refined(n, available, rate, change[k - 1])
  BY ChangesOneByOne
<1> HIDE DEF change
<1>2. /\ change[1] = Refined(n, available, rate, change[0])
      /\ change[2] = Refined(n, available, rate, change[1])
      /\ change[3] = Refined(n, available, rate, change[2])
      /\ change[4] = Refined(n, available, rate, change[3])
      /\ change[5] = Refined(n, available, rate, change[4])
      /\ change[6] = Refined(n, available, rate, change[5])
      /\ change[7] = Refined(n, available, rate, change[6])
      /\ change[8] = Refined(n, available, rate, change[7])
  BY <1>1
<1>3. change[7] \in I
  BY <1>1, <1>2
<1>4. Rounds - 1 = 7 /\ Rounds = 8
  BY DEF Rounds
<1> QED
  BY <1>1, <1>2, <1>3, <1>4 DEF change

LEMMA GenesisFeeWell ==
    ASSUME NEW n \in Nat, NEW available \in Int, NEW rate \in Nat, GenesisFee(n, available, rate).ok
    PROVE  PricedWell(n, available, rate, GenesisFee(n, available, rate))
<1> DEFINE change == TheChanges(n, available, rate)
           last == change[Rounds - 1]
           priced == GenesisFee(n, available, rate)
<1>1. /\ change[0] = Left(n, available, rate, 0)
      /\ last \in Int
      /\ change[Rounds] = Refined(n, available, rate, last)
  <2>1. 0 \in Int /\ Left(n, available, rate, 0) \in Int
    BY LeftType
  <2>2. \A x \in Int : Refined(n, available, rate, x) \in Int
    BY LeftType
  <2> QED
    BY <2>1, <2>2, ChangesKeep, Zenon
<1>2. priced = IF change[0] = 0 THEN [ok |-> TRUE, fee |-> available, change |-> 0]
               ELSE IF change[Rounds] > 0 /\ Consistent(last, change[Rounds])
               THEN [ok |-> TRUE, fee |-> rate * EstimatedMass(n, last), change |-> last]
               ELSE Refused
  BY GenesisFeeIs
<1> HIDE DEF change, priced
<1>3. CASE change[0] = 0
  <2>1. rate * EstimatedMass(n, 0) \in Int /\ available - rate * EstimatedMass(n, 0) = 0
    <3>1. 0 \in Int /\ EstimatedMass(n, 0) \in Nat
      BY EstimatedMassIs
    <3>2. rate * EstimatedMass(n, 0) \in Int
      BY <3>1
    <3> QED
      BY <1>1, <1>3, <3>2 DEF Left
  <2>2. priced = [ok |-> TRUE, fee |-> available, change |-> 0]
    BY <1>2, <1>3
  <2> QED
    BY <2>1, <2>2 DEF PricedWell, priced
<1>4. CASE change[0] # 0
  <2>1. change[Rounds] > 0 /\ last = change[Rounds]
    BY <1>2, <1>4 DEF Refused, Consistent, priced
  <2>2. priced = [ok |-> TRUE, fee |-> rate * EstimatedMass(n, last), change |-> last]
    BY <1>2, <1>4, <2>1 DEF Consistent
  <2>3. last = Left(n, available, rate, last)
    BY <1>1, <2>1 DEF Refined
  <2> HIDE DEF last
  <2>4. rate * EstimatedMass(n, last) \in Int
    BY <1>1, EstimatedMassIs
  <2>5. available - last = rate * EstimatedMass(n, last)
    BY <1>1, <2>3, <2>4 DEF Left
  <2> QED
    BY <1>1, <2>2, <2>4, <2>5 DEF PricedWell, priced
<1> QED
  BY <1>3, <1>4

\* With enough beside the stake, the first change is the last.
LEMMA GenesisFeeSettles ==
    ASSUME NEW n \in Nat, NEW available \in Int, NEW rate \in Nat, available >= Comfort(n, rate)
    PROVE  GenesisFee(n, available, rate).ok
<1> DEFINE least == StorageC \div Compute(n) + 1
           fee == rate * Compute(n)
           left == available - fee
           change == TheChanges(n, available, rate)
<1>1. fee \in Nat /\ least \in Nat /\ left >= least
  <2>1. Comfort(n, rate) = least + fee /\ fee \in Nat /\ StorageC \div Compute(n) \in Nat
    BY EdgeType
  <2> HIDE DEF fee
  <2> QED
    BY <2>1
<1>2. EstimatedMass(n, left) = Compute(n) /\ left > 0 /\ left \in Int
  BY <1>1, EnoughIsPlain
<1>3. EstimatedMass(n, 0) = Compute(n)
  <2>1. StorageMass(0) = 0
    BY DEF StorageMass
  <2> QED
    BY <2>1, EstimatedMassIs, ComputeType
<1>4. Left(n, available, rate, 0) = left /\ Refined(n, available, rate, left) = left
  BY <1>2, <1>3 DEF Left, Refined
<1>5. change[0] = left /\ change[Rounds - 1] = left /\ change[Rounds] = left
  <2> HIDE DEF left, change
  <2>1. Left(n, available, rate, 0) \in {left} /\ \A x \in {left} : Refined(n, available, rate, x) \in {left}
    BY <1>4
  <2>2. /\ change[0] = Left(n, available, rate, 0)
        /\ change[Rounds - 1] \in {left}
        /\ change[Rounds] = Refined(n, available, rate, change[Rounds - 1])
    <3> USE DEF change
    <3> QED
      BY <2>1, ChangesKeep, Zenon
  <2> QED
    BY <1>4, <2>2
<1> HIDE DEF left, change
<1>6. change[Rounds] > 0 /\ change[0] # 0 /\ Consistent(change[Rounds - 1], change[Rounds])
  BY <1>2, <1>5 DEF Consistent
<1> QED
  BY <1>6, GenesisFeeIs DEF change

-----------------------------------------------------------------------------
(***************************************************************************)
(* Coins                                                                   *)
(***************************************************************************)
OrderOK(o) == o.kind \in Kinds /\ o.purse \in Purses /\ o.lock \in Locks

LEMMA OrderType ==
    ASSUME NEW o, OrderOK(o)
    PROVE  /\ o.purse \in Seq(Coins) /\ Ordinary(o.purse) \subseteq DOMAIN o.purse
           /\ o.lock \in Nat /\ Reserved(o) \in Nat
<1>1. o.purse \in Seq(Coins) /\ o.lock \in Nat
  BY FundingAssumption DEF OrderOK, Coins
<1> QED
  BY <1>1 DEF Ordinary, Reserved

LEMMA CoinsType ==
    ASSUME NEW o, OrderOK(o), NEW coins \in SUBSET Ordinary(o.purse)
    PROVE  /\ Cardinality(coins) \in Nat
           /\ Sum(o.purse, coins) \in Nat
           /\ Available(o, coins) \in Int
<1>1. o.purse \in Seq(Coins) /\ coins \in SUBSET DOMAIN o.purse /\ Reserved(o) \in Nat
  BY OrderType
<1>2. Cardinality(coins) \in Nat /\ Sum(o.purse, coins) \in Nat
  BY <1>1, SumType
<1> QED
  BY <1>1, <1>2 DEF Available

LEMMA LargestFirstOrdinary ==
    ASSUME NEW purse, NEW target
    PROVE  LargestFirst(purse, target) \in SUBSET Ordinary(purse)
  BY DEF LargestFirst, Upto

LEMMA FundingsOrdinary ==
    ASSUME NEW o, NEW rate, NEW coins \in Fundings(o, rate)
    PROVE  /\ coins \in (SUBSET Ordinary(o.purse)) \ {{}}
           /\ Priced(o, coins, rate).ok
<1>1. CASE o.kind = "terminal"
  <2>1. coins \in Affordable(o, rate)
    BY <1>1 DEF Fundings
  <2>2. Priced(o, coins, rate).ok /\ coins \in Candidates(o.purse)
    BY <2>1 DEF Affordable
  <2>3. CASE coins \in SmallCoins(o.purse)
    <3>1. coins \in SUBSET Ordinary(o.purse) /\ Cardinality(coins) \in 1..4
      BY <2>3 DEF SmallCoins, Pool
    <3>2. coins # {}
      BY <3>1, FS_EmptySet
    <3> QED
      BY <2>2, <3>1, <3>2
  <2>4. CASE coins \in {LargestFirst(o.purse, 1)} \ {{}}
    BY <2>2, <2>4, LargestFirstOrdinary
  <2> QED
    BY <2>2, <2>3, <2>4 DEF Candidates
<1>2. CASE o.kind # "terminal"
  <2> DEFINE largest == LargestFirst(o.purse, Target(o, rate))
  <2>1. coins = largest /\ largest # {} /\ Priced(o, largest, rate).ok
    BY <1>2 DEF Fundings
  <2> QED
    BY <2>1, LargestFirstOrdinary
<1> QED
  BY <1>1, <1>2

LEMMA PricedOrder ==
    ASSUME NEW o, OrderOK(o), NEW coins \in SUBSET Ordinary(o.purse), NEW rate \in Nat,
           Priced(o, coins, rate).ok
    PROVE  PricedWell(Cardinality(coins), Available(o, coins), rate, Priced(o, coins, rate))
<1>1. Cardinality(coins) \in Nat /\ Available(o, coins) \in Int
  BY CoinsType
<1> QED
  BY <1>1, DynamicFeeWell, GenesisFeeWell DEF Priced

\* One coin is enough to pay anything, and LargestFirst takes one.
LEMMA OneCoin ==
    ASSUME NEW o, OrderOK(o), LargestFirst(o.purse, 1) # {}
    PROVE  Cardinality(LargestFirst(o.purse, 1)) = 1
<1> DEFINE own == Ordinary(o.purse)
           enough == {i \in own : Sum(o.purse, Upto(own, i)) >= 1}
<1>1. o.purse \in Seq(Coins) /\ own \subseteq DOMAIN o.purse /\ DOMAIN o.purse \subseteq Nat
  BY OrderType
<1>2. enough # {} /\ LargestFirst(o.purse, 1) = Upto(own, Min(enough))
  BY DEF LargestFirst
<1>3. PICK f \in own : \A i \in own : f <= i
  <2>1. own \in SUBSET Nat /\ own # {}
    BY <1>1, <1>2
  <2> HIDE DEF own
  <2> QED
    BY <2>1, LeastNumber
<1>4. own \in SUBSET Nat /\ f \in Nat
  BY <1>1, <1>3
<1> HIDE DEF own
<1>5. Upto(own, f) = {f}
  <2>1. \A j \in own : j <= f <=> j = f
    BY <1>3, <1>4
  <2> QED
    BY <1>3, <2>1 DEF Upto
<1>6. f \in enough
  <2>1. {f} \in SUBSET DOMAIN o.purse
    BY <1>1, <1>3
  <2>2. Sum(o.purse, {f}) = o.purse[f].amount
    BY <1>1, <2>1, SumType
  <2>3. o.purse[f] \in Coins
    BY <1>1, <1>3
  <2>4. o.purse[f].amount \in Nat \ {0}
    BY <2>3 DEF Coins
  <2> QED
    BY <1>3, <1>5, <2>2, <2>4
<1>7. \A i \in enough : i \in Nat /\ f <= i
  BY <1>3, <1>4
<1> HIDE DEF enough
<1>8. Min(enough) = f
  <2>1. \A x \in enough : (\A y \in enough : x <= y) => x = f
    BY <1>4, <1>6, <1>7
  <2> QED
    BY <1>6, <1>7, <2>1 DEF Min
<1> QED
  BY <1>2, <1>5, <1>8, FS_Singleton

\* Whose coins leave enough beside the stake gets his transaction.
LEMMA EnoughIsFunded ==
    ASSUME NEW o, OrderOK(o), NEW rate \in Nat, NEW coins,
           coins = LargestFirst(o.purse, IF o.kind = "terminal" THEN 1 ELSE Target(o, rate)),
           coins # {}, Available(o, coins) >= Comfort(Cardinality(coins), rate)
    PROVE  Fundings(o, rate) # {}
<1>1. coins \in SUBSET Ordinary(o.purse)
  BY LargestFirstOrdinary
<1>2. Cardinality(coins) \in Nat /\ Available(o, coins) \in Int
  BY <1>1, CoinsType
<1>3. Priced(o, coins, rate).ok
  BY <1>2, DynamicFeeSettles, GenesisFeeSettles DEF Priced
<1>4. CASE o.kind # "terminal"
  BY <1>3, <1>4 DEF Fundings
<1>5. CASE o.kind = "terminal"
  <2> DEFINE affordable == Affordable(o, rate)
             storage == [c \in affordable |-> StorageMass(Priced(o, c, rate).change)]
             I == {storage[c] : c \in affordable}
  <2>1. coins \in affordable
    <3>1. coins \in Candidates(o.purse)
      BY <1>5 DEF Candidates
    <3>2. Priced(o, coins, rate) = DynamicFee(Cardinality(coins), Available(o, coins), rate)
      BY <1>5 DEF Priced
    <3>3. StorageMass(Priced(o, coins, rate).change) <= Compute(Cardinality(coins))
      BY <1>2, <3>2, DynamicFeeSettles
    <3>4. Cardinality(coins) = 1
      BY <1>5, OneCoin
    <3>5. Compute(1) = BaseMass + InputMass + SignatureMass
      BY MassParameters DEF Compute
    <3>6. Priced(o, coins, rate).change \in Int
      BY <1>1, <1>3, PricedOrder DEF PricedWell
    <3>7. StorageMass(Priced(o, coins, rate).change) <= MaxStorage
      BY <3>3, <3>4, <3>5, <3>6, StorageMassType, MassParameters, StorageAssumption
    <3> QED
      BY <1>3, <3>1, <3>7 DEF Affordable
  <2>2. ASSUME NEW c \in affordable PROVE storage[c] \in Nat
    <3>1. Priced(o, c, rate).ok /\ c \in SUBSET Ordinary(o.purse)
      BY LargestFirstOrdinary DEF Affordable, Candidates, SmallCoins, Pool
    <3>2. Priced(o, c, rate).change \in Int
      BY <3>1, PricedOrder DEF PricedWell
    <3> QED
      BY <3>2, StorageMassType
  <2>3. PICK m \in I : \A i \in I : m <= i
    <3>1. I \in SUBSET Nat /\ I # {}
      BY <2>1, <2>2
    <3> HIDE DEF I
    <3> QED
      BY <3>1, LeastNumber
  <2>4. PICK c \in affordable : \A d \in affordable : storage[c] <= storage[d]
    BY <2>3
  <2>5. c \in Fundings(o, rate)
    BY <1>5, <2>4 DEF Fundings
  <2> QED
    BY <2>5
<1> QED
  BY <1>4, <1>5

-----------------------------------------------------------------------------
(***************************************************************************)
(* The inductive invariant                                                 *)
(***************************************************************************)
Drafted == {"prepared", "approved", "signed", "submitted", "stopped"}

\* The draft is made of the player's own coins and locks what was asked for;
\* and if it pays the fee it says, this is the fee its mass asks for.  A wallet
\* that comes back with other change does not pay that fee any more.
DraftOK ==
    /\ DOMAIN draft = {"coins", "game", "change", "fee", "rate", "signed"}
    /\ draft.coins \in (SUBSET Ordinary(order.purse)) \ {{}}
    /\ draft.game = Reserved(order)
    /\ draft.change \in Int /\ draft.fee \in Int /\ draft.rate \in Nat
    /\ Paid(draft) = draft.fee =>
          draft.fee = draft.rate * EstimatedMass(Cardinality(draft.coins), draft.change)

IInv ==
    /\ step \in {"idle", "asked", "refused"} \cup Drafted
    /\ step # "idle" => OrderOK(order)
    /\ step \in Drafted => DraftOK
    /\ step \in {"prepared", "approved", "submitted"} => Paid(draft) = draft.fee
    /\ PreparedIsAccepted
    /\ RefusedOnlyNearTheEdge

LEMMA PaidType ==
    ASSUME OrderOK(order), DraftOK
    PROVE  Paid(draft) \in Int /\ Sum(order.purse, draft.coins) \in Int /\ draft.game \in Int
<1>1. Sum(order.purse, draft.coins) \in Nat /\ Reserved(order) \in Nat
  BY CoinsType, OrderType DEF DraftOK
<1> QED
  BY <1>1 DEF Paid, DraftOK

LEMMA RateType ==
    ASSUME NEW feerate \in Feerates
    PROVE  Rate(feerate) \in Nat
  BY FundingAssumption DEF Rate

LEMMA InitSafe == FundingInit => IInv
  BY DEF FundingInit, IInv, PreparedIsAccepted, RefusedOnlyNearTheEdge, Drafted

LEMMA AskKeeps ==
    ASSUME IInv, NEW kind \in Kinds, NEW purse \in Purses, NEW lock \in Locks, Ask(kind, purse, lock)
    PROVE  IInv'
<1>1. step' = "asked" /\ order' = [kind |-> kind, purse |-> purse, lock |-> lock]
  BY DEF Ask
<1>2. OrderOK(order')
  BY <1>1 DEF OrderOK
<1> QED
  BY <1>1, <1>2 DEF IInv, OrderOK, Drafted, PreparedIsAccepted, RefusedOnlyNearTheEdge

LEMMA PrepareKeeps ==
    ASSUME IInv, NEW feerate \in Feerates, PrepareDraft(feerate)
    PROVE  IInv'
<1> DEFINE rate == Rate(feerate)
<1>1. step = "asked" /\ order' = order /\ step' = "prepared"
  BY DEF PrepareDraft, PrepareWith
<1>2. PICK coins \in Fundings(order, rate) : PrepareWith(coins, rate)
  BY DEF PrepareDraft
<1> DEFINE priced == Priced(order, coins, rate)
<1>3. draft' = [coins |-> coins, game |-> Reserved(order), change |-> priced.change,
                fee |-> priced.fee, rate |-> rate, signed |-> {}]
  BY <1>2 DEF PrepareWith
<1>4. OrderOK(order) /\ rate \in Nat
  BY <1>1, RateType DEF IInv
<1>5. coins \in (SUBSET Ordinary(order.purse)) \ {{}} /\ priced.ok
  BY <1>2, FundingsOrdinary
<1>6. PricedWell(Cardinality(coins), Available(order, coins), rate, priced)
  BY <1>4, <1>5, PricedOrder
<1> HIDE DEF priced, rate
<1>7. /\ DOMAIN draft' = {"coins", "game", "change", "fee", "rate", "signed"}
      /\ draft'.coins = coins /\ draft'.game = Reserved(order)
      /\ draft'.change = priced.change /\ draft'.fee = priced.fee /\ draft'.rate = rate
  BY <1>3
<1>8. Paid(draft)' = draft'.fee
  <2>1. Sum(order.purse, coins) \in Nat /\ Reserved(order) \in Nat
    BY <1>4, <1>5, CoinsType, OrderType
  <2>2. Paid(draft)' = Sum(order.purse, coins) - Reserved(order) - priced.change
    BY <1>1, <1>7 DEF Paid
  <2> QED
    BY <1>6, <1>7, <2>1, <2>2 DEF PricedWell, Available
<1>9. DraftOK'
  BY <1>1, <1>4, <1>5, <1>6, <1>7 DEF DraftOK, PricedWell
<1>10. OrderOK(order)'
  BY <1>1, <1>4 DEF OrderOK
<1> QED
  BY <1>1, <1>8, <1>9, <1>10 DEF IInv, Drafted, PreparedIsAccepted, RefusedOnlyNearTheEdge

LEMMA RefuseKeeps ==
    ASSUME IInv, NEW feerate \in Feerates, RefuseDraft(feerate)
    PROVE  IInv'
<1> DEFINE rate == Rate(feerate)
           coins == LargestFirst(order.purse, IF order.kind = "terminal" THEN 1 ELSE Target(order, rate))
<1>1. /\ order' = order /\ step' = "refused" /\ step # "idle"
      /\ Fundings(order, rate) = {} /\ draft'.rate = rate
  BY DEF RefuseDraft, NoDraft
<1>2. OrderOK(order) /\ OrderOK(order)' /\ rate \in Nat
  BY <1>1, RateType DEF IInv, OrderOK
<1>3. coins # {} => Available(order, coins) < Comfort(Cardinality(coins), rate)
  <2>1. SUFFICES ASSUME coins # {} PROVE Available(order, coins) < Comfort(Cardinality(coins), rate)
    OBVIOUS
  <2>2. Cardinality(coins) \in Nat /\ Available(order, coins) \in Int
    BY <1>2, LargestFirstOrdinary, CoinsType
  <2>3. Comfort(Cardinality(coins), rate) \in Int
    BY <1>2, <2>2, EdgeType
  <2> HIDE DEF rate
  <2>4. ~(Available(order, coins) >= Comfort(Cardinality(coins), rate))
    BY <1>1, <1>2, <2>1, EnoughIsFunded
  <2> QED
    BY <2>2, <2>3, <2>4
<1> HIDE DEF rate
<1>4. RefusedOnlyNearTheEdge'
  BY <1>1, <1>3 DEF RefusedOnlyNearTheEdge, Available, Target, Reserved
<1> QED
  BY <1>1, <1>2, <1>4 DEF IInv, Drafted, PreparedIsAccepted

LEMMA ApproveKeeps ==
    ASSUME IInv, Approve
    PROVE  IInv'
<1>1. step = "prepared" /\ order' = order /\ draft' = draft
  BY DEF Approve
<1>2. OrderOK(order) /\ DraftOK /\ Paid(draft) = draft.fee
  BY <1>1 DEF IInv, Drafted
<1>3. step' = "approved"
  <2>1. CASE order.kind = "creation"
    <3>1. CreationVerified(draft)
      BY <1>2, <2>1 DEF DraftOK, CreationVerified, Reserved
    <3> QED
      BY <2>1, <3>1 DEF Approve
  <2>2. CASE order.kind # "creation"
    <3>1. IntentVerified(draft)
      BY <1>2 DEF DraftOK, IntentVerified
    <3> QED
      BY <2>2, <3>1 DEF Approve
  <2> QED
    BY <2>1, <2>2
<1>4. OrderOK(order)' /\ DraftOK' /\ (Paid(draft) = draft.fee)'
  BY <1>1, <1>2 DEF OrderOK, DraftOK, Paid
<1> QED
  BY <1>3, <1>4 DEF IInv, Drafted, PreparedIsAccepted, RefusedOnlyNearTheEdge

LEMMA SignKeeps ==
    ASSUME IInv, NEW coins, Sign(coins)
    PROVE  IInv'
<1>1. step = "approved" /\ step' = "signed" /\ order' = order /\ draft' = [draft EXCEPT !.signed = coins]
  BY DEF Sign
<1>2. OrderOK(order) /\ DraftOK
  BY <1>1 DEF IInv, Drafted
<1>3. /\ DOMAIN draft' = DOMAIN draft
      /\ draft'.coins = draft.coins /\ draft'.game = draft.game /\ draft'.change = draft.change
      /\ draft'.fee = draft.fee /\ draft'.rate = draft.rate
  BY <1>1
<1>4. Paid(draft)' = Paid(draft)
  BY <1>1, <1>3 DEF Paid
<1>5. OrderOK(order)' /\ DraftOK'
  BY <1>1, <1>2, <1>3, <1>4 DEF OrderOK, DraftOK
<1> QED
  BY <1>1, <1>5 DEF IInv, Drafted, PreparedIsAccepted, RefusedOnlyNearTheEdge

LEMMA SignsAnotherKeeps ==
    ASSUME IInv, NEW change \in {0, draft.change + 1}, SignsAnother(change)
    PROVE  IInv'
<1>1. /\ step = "approved" /\ step' = "signed" /\ order' = order
      /\ draft' = [draft EXCEPT !.signed = draft.coins, !.change = change]
  BY DEF SignsAnother
<1>2. OrderOK(order) /\ DraftOK /\ Paid(draft) = draft.fee
  BY <1>1 DEF IInv, Drafted
<1>3. draft.change \in Int /\ change \in Int
  BY <1>2 DEF DraftOK
<1>4. /\ DOMAIN draft' = DOMAIN draft
      /\ draft'.coins = draft.coins /\ draft'.game = draft.game
      /\ draft'.fee = draft.fee /\ draft'.rate = draft.rate
  BY <1>1
<1>5. draft'.change = change
  BY <1>1, <1>2 DEF DraftOK
<1>6. Paid(draft)' = draft'.fee => change = draft.change
  <2>1. Paid(draft)' = Sum(order.purse, draft.coins) - draft.game - change
    BY <1>1, <1>4, <1>5 DEF Paid
  <2>2. Paid(draft) = Sum(order.purse, draft.coins) - draft.game - draft.change
    BY DEF Paid
  <2> QED
    BY <1>2, <1>3, <1>4, <2>1, <2>2, PaidType
<1>7. OrderOK(order)' /\ DraftOK'
  BY <1>1, <1>2, <1>3, <1>4, <1>5, <1>6 DEF OrderOK, DraftOK
<1> QED
  BY <1>1, <1>7 DEF IInv, Drafted, PreparedIsAccepted, RefusedOnlyNearTheEdge

LEMMA SubmitKeeps ==
    ASSUME IInv, SubmitDraft
    PROVE  IInv'
<1>1. step = "signed" /\ order' = order /\ draft' = draft
  BY DEF SubmitDraft
<1>2. OrderOK(order) /\ DraftOK
  BY <1>1 DEF IInv, Drafted
<1>3. step' = IF AsPrepared(draft) /\ CoversItsMass(draft) THEN "submitted" ELSE "stopped"
  BY DEF SubmitDraft
<1>4. step' = "submitted" => Paid(draft) = draft.fee
  BY <1>3 DEF AsPrepared, SignedCreation, SignedSpend
<1>5. ASSUME draft.signed = draft.coins, Paid(draft) = draft.fee
      PROVE  AsPrepared(draft) /\ CoversItsMass(draft)
  <2>1. AsPrepared(draft)
    BY <1>2, <1>5 DEF AsPrepared, SignedCreation, SignedSpend, DraftOK
  <2>2. Paid(draft) = draft.rate * Mass(Cardinality(draft.coins), Cardinality(draft.coins), draft.change)
    BY <1>2, <1>5 DEF DraftOK, EstimatedMass
  <2>3. Paid(draft) \in Int
    BY <1>2, PaidType
  <2>4. CoversItsMass(draft)
    BY <1>5, <2>2, <2>3 DEF CoversItsMass
  <2> QED
    BY <2>1, <2>4
<1>6. OrderOK(order)' /\ DraftOK' /\ Paid(draft)' = Paid(draft)
  BY <1>1, <1>2 DEF OrderOK, DraftOK, Paid
<1>7. PreparedIsAccepted'
  BY <1>1, <1>3, <1>5, <1>6 DEF PreparedIsAccepted
<1> QED
  BY <1>1, <1>3, <1>4, <1>6, <1>7 DEF IInv, Drafted, RefusedOnlyNearTheEdge

LEMMA RestKeeps ==
    ASSUME IInv, UNCHANGED fundingVars
    PROVE  IInv'
<1>1. step' = step /\ order' = order /\ draft' = draft
  BY DEF fundingVars
<1> QED
  BY <1>1 DEF IInv, OrderOK, DraftOK, Paid, PreparedIsAccepted, RefusedOnlyNearTheEdge

LEMMA NextKeeps == IInv /\ [FundingNext]_fundingVars => IInv'
<1> SUFFICES ASSUME IInv, [FundingNext]_fundingVars PROVE IInv'
  OBVIOUS
<1>1. CASE \E kind \in Kinds, purse \in Purses, lock \in Locks : Ask(kind, purse, lock)
  BY <1>1, AskKeeps
<1>2. CASE \E feerate \in Feerates : PrepareDraft(feerate)
  BY <1>2, PrepareKeeps
<1>3. CASE \E feerate \in Feerates : RefuseDraft(feerate)
  BY <1>3, RefuseKeeps
<1>4. CASE Approve
  BY <1>4, ApproveKeeps
<1>5. CASE \E coins \in SUBSET draft.coins : Sign(coins)
  BY <1>5, SignKeeps
<1>6. CASE \E change \in {0, draft.change + 1} : SignsAnother(change)
  BY <1>6, SignsAnotherKeeps
<1>7. CASE SubmitDraft
  BY <1>7, SubmitKeeps
<1>8. CASE UNCHANGED fundingVars
  BY <1>8, RestKeeps
<1> QED
  BY <1>1, <1>2, <1>3, <1>4, <1>5, <1>6, <1>7, <1>8 DEF FundingNext

LEMMA AlwaysIInv == FundingSpec => []IInv
  BY InitSafe, NextKeeps, PTL DEF FundingSpec

-----------------------------------------------------------------------------
(***************************************************************************)
(* Theorems                                                                *)
(***************************************************************************)
\* The page and the server let everything through that the server prepared and
\* a wallet only signed.
THEOREM PreparedPasses == FundingSpec => []PreparedIsAccepted
<1>1. IInv => PreparedIsAccepted
  BY DEF IInv
<1> QED
  BY <1>1, AlwaysIInv, PTL

\* Nothing reaches the network that differs from what the player approved,
\* whatever a wallet returns: the game gets its exact amount, out of ordinary
\* coins, and the network the fee that was shown.
THEOREM SubmittedAsApproved == FundingSpec => []SubmittedIsApproved
<1>1. IInv => SubmittedIsApproved
  <2> SUFFICES ASSUME IInv, step = "submitted"
               PROVE  /\ draft.game = Reserved(order)
                      /\ Sum(order.purse, draft.coins) = draft.game + draft.change + draft.fee
                      /\ \A i \in draft.coins : ~order.purse[i].game
    BY DEF SubmittedIsApproved
  <2>1. OrderOK(order) /\ DraftOK /\ Paid(draft) = draft.fee
    BY DEF IInv, Drafted
  <2>2. Sum(order.purse, draft.coins) \in Int /\ draft.game \in Int
    BY <2>1, PaidType
  <2>3. Sum(order.purse, draft.coins) = draft.game + draft.change + draft.fee
    BY <2>1, <2>2 DEF Paid, DraftOK
  <2>4. \A i \in draft.coins : ~order.purse[i].game
    BY <2>1 DEF DraftOK, Ordinary
  <2> QED
    BY <2>1, <2>3, <2>4 DEF DraftOK
<1> QED
  BY <1>1, AlwaysIInv, PTL

\* Both pricing loops settle within their rounds on everybody whose coins leave
\* a change output that weighs no more than the transaction: refused are only
\* those near the dust.
THEOREM RefusedNearTheEdge == FundingSpec => []RefusedOnlyNearTheEdge
<1>1. IInv => RefusedOnlyNearTheEdge
  BY DEF IInv
<1> QED
  BY <1>1, AlwaysIInv, PTL
=============================================================================
