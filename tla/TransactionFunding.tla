------------------------- MODULE TransactionFunding -------------------------
(***************************************************************************)
(* How a transaction that a player signs gets its inputs, its change and   *)
(* its network fee: the creation (src/funding.mjs, src/fee-policy.js,      *)
(* src/wasm-transaction.js), the join (prepareJoin of                      *)
(* src/chain-adapter.js) and the reveals and refunds                       *)
(* (src/terminal-funding.js), the last two priced by                       *)
(* src/transaction-fee.js; then the checks of the page before the wallet   *)
(* is asked and of the server afterwards.                                  *)
(*                                                                         *)
(* The mass of a transaction is computed by the Kaspa SDK.  What matters   *)
(* of it here: it grows with the inputs, and with the inverse of the       *)
(* change (KIP-9), so that the fee depends on the change and the change on *)
(* the fee.  The game's own input and outputs weigh a constant: they       *)
(* balance to the sompi (Economics).                                       *)
(***************************************************************************)
EXTENDS Integers, Sequences, FiniteSetsExt

CONSTANTS
    Purses,         \* what a player may own: sequences of coins, largest first
    Locks,          \* stakes in sompi
    Feerates,       \* priority fee rates the node reports
    RelayFloor,     \* DEFAULT_RELAY_FLOOR_RATE
    CreationBound,  \* CREATION_MASS_BOUND
    JoinBound,      \* the mass prepareJoin assumes before it knows better
    MaxStorage,     \* MAX_TERMINAL_STORAGE_MASS
    BaseMass, InputMass, SignatureMass, StorageC    \* the SDK's mass

ASSUME FundingAssumption ==
    /\ \A n \in {RelayFloor, CreationBound, JoinBound, MaxStorage, BaseMass, InputMass,
                 SignatureMass, StorageC} : n \in Nat \ {0}
    /\ Locks \subseteq Nat \ {0} /\ Feerates \subseteq Nat
    /\ Purses \subseteq Seq([amount : Nat \ {0}, game : BOOLEAN])
    /\ \A p \in Purses : \A i \in DOMAIN p : \A j \in 1..i : p[j].amount >= p[i].amount

\* A transaction with one coin weighs less than the cap on the storage mass.
ASSUME StorageAssumption == BaseMass + InputMass + SignatureMass <= MaxStorage

VARIABLES
    step,           \* "idle", "asked", "prepared", "approved", "signed",
                    \* "submitted", "refused" by the server's preparation,
                    \* "rejected" by the page, "stopped" by the server's last check
    order,          \* what was asked for: its kind, the purse as it was read, the lock
    draft           \* the transaction

fundingVars == <<step, order, draft>>

Kinds == {"creation", "join", "terminal"}
NoOrder == [kind |-> "none", purse |-> <<>>, lock |-> 0]
NoDraft == [coins |-> {}, game |-> 0, change |-> 0, fee |-> 0, rate |-> 0, signed |-> {}]

\* What the player's own coins have to add to the game: the creator locks his
\* stake, the joiner the other half of the pot, who reveals or takes back
\* nothing.
Reserved(o) == IF o.kind = "terminal" THEN 0 ELSE o.lock

Rate(feerate) == IF feerate > RelayFloor THEN feerate ELSE RelayFloor

\* Coins of the game (covenant outputs paid to the player's address) never pay
\* for anything.
Ordinary(purse) == {i \in DOMAIN purse : ~purse[i].game}

Sum(purse, coins) == MapThenSumSet(LAMBDA i : purse[i].amount, coins)

-----------------------------------------------------------------------------
(***************************************************************************)
(* Mass and fee                                                            *)
(***************************************************************************)
StorageMass(change) == IF change > 0 THEN StorageC \div change ELSE 0

\* The mass of a transaction with n coins of the player, s of them signed.
Mass(n, s, change) ==
    LET compute == BaseMass + n * InputMass + s * SignatureMass
    IN IF StorageMass(change) > compute THEN StorageMass(change) ELSE compute

\* estimateSignedTransactionMass: the signatures are added before there are
\* any.  The mutant prices what is on the table.
UnsignedMass(n, change) == Mass(n, 0, change)
EstimatedMass(n, change) == Mass(n, n, change)

-----------------------------------------------------------------------------
(***************************************************************************)
(* Choosing coins                                                          *)
(***************************************************************************)
Upto(coins, i) == {j \in coins : j <= i}

\* selectOrdinaryUtxos: the largest coins until the target is met; {} if they
\* never meet it.
LargestFirst(purse, target) ==
    LET own == Ordinary(purse)
        enough == {i \in own : Sum(purse, Upto(own, i)) >= target}
    IN IF enough = {} THEN {} ELSE Upto(own, Min(enough))

\* estimateFunding and prepareJoin aim at the stake and a fee they guess.
Target(o, rate) ==
    IF o.kind = "creation" THEN o.lock + CreationBound * rate ELSE o.lock + JoinBound * rate

\* fundingCandidates: up to four of the ten smallest coins, or the largest.
\* The mutant has no use for the largest.
Pool(purse) == {i \in Ordinary(purse) : Cardinality({j \in Ordinary(purse) : j > i}) < 10}

SmallCoins(purse) == {c \in SUBSET Pool(purse) : Cardinality(c) \in 1..4}
Candidates(purse) == SmallCoins(purse) \cup ({LargestFirst(purse, 1)} \ {{}})

-----------------------------------------------------------------------------
(***************************************************************************)
(* Pricing                                                                 *)
(***************************************************************************)
Rounds == 8
Refused == [ok |-> FALSE, fee |-> 0, change |-> 0]

\* prepareWithDynamicFee: build with the fee of the last round, and stop when
\* the transaction that was built asks for that very fee.  A build fails when
\* the coins do not cover the fee, and the rounds may run out.
ChangeLeft(available, fee) == available - fee

Settles(n, available, rate, fee) ==
    /\ fee <= available
    /\ rate * EstimatedMass(n, ChangeLeft(available, fee)) = fee

DynamicFee(n, available, rate) ==
    LET repriced(fee) ==
            IF fee > available THEN fee ELSE rate * EstimatedMass(n, ChangeLeft(available, fee))
        fee[k \in 1..Rounds] == IF k = 1 THEN 0 ELSE repriced(fee[k - 1])
        last == fee[Rounds]
    IN IF Settles(n, available, rate, last)
       THEN [ok |-> TRUE, fee |-> last, change |-> ChangeLeft(available, last)]
       ELSE Refused

\* createWasmGenesisSafeJson: the other way round, it iterates the change.
\* What it built last must carry the change its own fee leaves.
Consistent(change, left) == change = left

GenesisFee(n, available, rate) ==
    LET left(change) == available - rate * EstimatedMass(n, change)
        refined(change) == IF change <= 0 THEN change ELSE left(change)
        change[k \in 0..Rounds] == IF k = 0 THEN left(0) ELSE refined(change[k - 1])
        last == change[Rounds - 1]
    IN IF change[0] = 0 THEN [ok |-> TRUE, fee |-> available, change |-> 0]
       ELSE IF change[Rounds] > 0 /\ Consistent(last, change[Rounds])
       THEN [ok |-> TRUE, fee |-> rate * EstimatedMass(n, last), change |-> last]
       ELSE Refused

Available(o, coins) == Sum(o.purse, coins) - Reserved(o)

Priced(o, coins, rate) ==
    IF o.kind = "creation" THEN GenesisFee(Cardinality(coins), Available(o, coins), rate)
    ELSE DynamicFee(Cardinality(coins), Available(o, coins), rate)

\* TerminalFundingSelector.select: the candidates that can be priced; the
\* least storage mass wins.
Affordable(o, rate) ==
    {c \in Candidates(o.purse) :
        Priced(o, c, rate).ok /\ StorageMass(Priced(o, c, rate).change) <= MaxStorage}

\* The coins the server may prepare the order with.
Fundings(o, rate) ==
    IF o.kind = "terminal"
    THEN LET affordable == Affordable(o, rate)
             storage == [c \in affordable |-> StorageMass(Priced(o, c, rate).change)]
         IN {c \in affordable : \A d \in affordable : storage[c] <= storage[d]}
    ELSE LET coins == LargestFirst(o.purse, Target(o, rate))
         IN IF coins # {} /\ Priced(o, coins, rate).ok THEN {coins} ELSE {}

-----------------------------------------------------------------------------
FundingInit == step = "idle" /\ order = NoOrder /\ draft = NoDraft

\* The coins of the player are read; then the node is asked for its fee rate.
Ask(kind, purse, lock) ==
    /\ step = "idle"
    /\ order' = [kind |-> kind, purse |-> purse, lock |-> lock]
    /\ step' = "asked"
    /\ UNCHANGED draft

PrepareWith(coins, rate) ==
    LET priced == Priced(order, coins, rate) IN
    /\ step' = "prepared"
    /\ draft' = [coins |-> coins, game |-> Reserved(order), change |-> priced.change,
                 fee |-> priced.fee, rate |-> rate, signed |-> {}]

PrepareDraft(feerate) ==
    /\ step = "asked"
    /\ \E coins \in Fundings(order, Rate(feerate)) : PrepareWith(coins, Rate(feerate))
    /\ UNCHANGED order

\* INSUFFICIENT_UTXOS, FEE_REPRICING_FAILED, STORAGE_MASS_EXCEEDED, ...
RefuseDraft(feerate) ==
    /\ step = "asked"
    /\ Fundings(order, Rate(feerate)) = {}
    /\ step' = "refused"
    /\ draft' = [NoDraft EXCEPT !.rate = Rate(feerate)]
    /\ UNCHANGED order

\* What a transaction leaves to the network.
Paid(d) == Sum(order.purse, d.coins) - d.game - d.change

\* The page before it asks the wallet: verifyCreation knows the stake;
\* verifyTransactionIntent compares with the outputs the server described.
CreationVerified(d) == d.coins # {} /\ d.game = order.lock /\ Paid(d) = d.fee
IntentVerified(d) == d.coins \in (SUBSET Ordinary(order.purse)) \ {{}} /\ Paid(d) = d.fee

Approve ==
    /\ step = "prepared"
    /\ step' = IF (IF order.kind = "creation" THEN CreationVerified(draft) ELSE IntentVerified(draft))
               THEN "approved" ELSE "rejected"
    /\ UNCHANGED <<order, draft>>

\* The wallet signs its coins.  It may leave one out, or come back with a
\* transaction of its own making.
Sign(coins) ==
    /\ step = "approved"
    /\ step' = "signed"
    /\ draft' = [draft EXCEPT !.signed = coins]
    /\ UNCHANGED order

SignsAnother(change) ==
    /\ step = "approved"
    /\ step' = "signed"
    /\ draft' = [draft EXCEPT !.signed = draft.coins, !.change = change]
    /\ UNCHANGED order

\* The server: nothing but signatures may have been added to the prepared
\* transaction, the one that pays `fee`.  verifySignedCreationSafeJson is content
\* with one signature and looks at the inputs once more; a join and a terminal
\* transaction need every signature.  The mutant does not compare.
SignedCreation(d) == d.signed # {} /\ d.coins \subseteq Ordinary(order.purse) /\ Paid(d) = d.fee
SignedSpend(d) == d.signed = d.coins /\ Paid(d) = d.fee

AsSigned(d) == d.signed # {}
AsPrepared(d) == IF order.kind = "creation" THEN SignedCreation(d) ELSE SignedSpend(d)

\* assertSignedTransactionFee, at the rate of the preparation.
CoversItsMass(d) ==
    Paid(d) >= d.rate * Mass(Cardinality(d.coins), Cardinality(d.signed), d.change)

SubmitDraft ==
    /\ step = "signed"
    /\ step' = IF AsPrepared(draft) /\ CoversItsMass(draft) THEN "submitted" ELSE "stopped"
    /\ UNCHANGED <<order, draft>>

FundingNext ==
    \/ \E kind \in Kinds, purse \in Purses, lock \in Locks : Ask(kind, purse, lock)
    \/ \E feerate \in Feerates : PrepareDraft(feerate) \/ RefuseDraft(feerate)
    \/ Approve
    \/ \E coins \in SUBSET draft.coins : Sign(coins)
    \/ \E change \in {0, draft.change + 1} : SignsAnother(change)
    \/ SubmitDraft

FundingSpec == FundingInit /\ [][FundingNext]_fundingVars

-----------------------------------------------------------------------------
(***************************************************************************)
(* Properties                                                              *)
(***************************************************************************)
\* What the server prepares for its player is never refused afterwards: the
\* page finds the fee it was told, and a wallet that only signs gets past the
\* fee check, which weighs the signatures the preparation had to guess.
PreparedIsAccepted ==
    /\ step # "rejected"
    /\ step = "stopped" => draft.signed # draft.coins \/ Paid(draft) # draft.fee

\* Whatever the wallet returns, what reaches the network locks or releases the
\* exact amount of the game, is paid with the player's ordinary coins alone,
\* and leaves the network the fee the player approved ("No game value is ever
\* used for fees").
SubmittedIsApproved ==
    step = "submitted" =>
        /\ draft.game = Reserved(order)
        /\ Sum(order.purse, draft.coins) = draft.game + draft.change + draft.fee
        /\ \A i \in draft.coins : ~order.purse[i].game

\* The least rest that surely makes a change output: one that weighs less than
\* the transaction, after the fee of all its inputs.
Comfort(n, rate) ==
    LET compute == BaseMass + n * (InputMass + SignatureMass)
    IN StorageC \div compute + 1 + rate * compute

\* A preparation is refused only when the coins it looked at leave so little
\* beside the stake that the change would weigh more than the transaction.  The
\* repricing of two quantities that depend on each other does not give up on
\* anybody else.
RefusedOnlyNearTheEdge ==
    step = "refused" =>
        LET coins == LargestFirst(order.purse,
                        IF order.kind = "terminal" THEN 1 ELSE Target(order, draft.rate))
        IN coins # {} => Available(order, coins) < Comfort(Cardinality(coins), draft.rate)
=============================================================================
