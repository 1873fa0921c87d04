# KasOdds in TLA+

KasOdds lets two wallets bet the same stake on the parity of two secret
numbers. A covenant on Kaspa holds the stakes; a Node.js backend prepares,
relays and follows its transactions; a browser client signs them. This
directory holds the TLA+ modules that model the system, the TLC instances that
check them, and proofs that TLAPS checks. Paths below are relative to the
repository.

Run a check with `tlc -config X.cfg M`, a proof with `tlapm M.tla`;
`PROJECT.json` lists which configuration goes with which module, and which
lines of source each definition stands for.

## 1. The system

| Component | Source | State | Operations |
|---|---|---|---|
| Covenant | `covenant/kasodds.sil` | status, joiner, choices, first revealer, value of the output | `refund`, `refund_open`, `join`, `reveal`, `fallback_claim`, `refund_all` |
| Economics | `src/protocol.js`, `src/terminal-transactions.js`, `src/terminal-actions.js` | none | stake to pot, fee and payouts; the outputs of each transaction |
| Game service | `src/backend-game-service.js`, `src/game-projection.js`, `src/ephemeral-preparations.js` | in memory: reveal preparations, reveal reservation, game locks | prepare and submit creation, join, reveal, creator refund; read; `settleAutomaticGames`; `reconcilePendingSubmissions` |
| Store | `src/backend-game-store.js` | one JSON file: games, operations, preparations, queue, matches, bot lease | load, save, `updateGame`, `completeGame`, prune |
| Chain gateway | `src/chain-adapter.js`, `src/kaspa-adapter.js`, `src/wrpc.mjs` | a websocket | UTXOs of an address, DAA score, submit |
| Schedulers, server | `src/server-schedulers.js`, `src/server.js` | `settlementTimer`, `settlementRunning`, intervals | keeper loop and its wakes, reconciler, pruning, bot, feedback |
| Matchmaking | `src/matchmaking-service.js`, `src/room-code.js`, the store | queue, matches | join, leave, private rooms, touch, sweep |
| Fallback bot | `src/fallback-bot-service.js`, `src/bot-wallet.js` | a lease on one match | join and reveal for the match it holds |
| Funding and fees | `src/transaction-fee.js`, `src/terminal-funding.js`, `src/funding.mjs`, `src/fee-policy.js`, `src/transaction-mass.js` | none | choose inputs, price until the fee no longer moves |
| Creation and join flows | `src/create-game.js`, `src/join-game.js`, `src/genesis-transaction.js`, `src/transaction-intent.js`, ... | none | build transactions, compare what came back signed |
| Reveal, recovery | `src/reveal.js`, `src/recovery.js` | none | check preimages, decide parity, rebuild a game from chain facts |
| HTTP application | `src/http-application.js`, `src/rate-limit.js`, `src/relay-store.js`, `src/invite.js` | bounded maps | routes |
| Feedback | `src/feedback.js` | a list and its spill file | submit, drain |
| Browser client | `public/*.js` | the page's variables; hidden numbers in IndexedDB | lobby: connect, poll, pick, create or join; game page: refresh, reveal, take back |
| Wallet connection | `src/kasware-wallet.js`, `public/kasware-*.js` | the extension's | connect, sign |
| Others | hashes, metrics, logging, artifact pins, oracle, deploy | | |

How they interact. Clients call the game service over HTTP. A handler loads a
record, waits for the node (the lock of the game is held in `submitJoin`, in
reveal preparation and in the creator's refund, not elsewhere), and stores the
record again, usually whole. The keeper and the reconciler are started by
timers and write the same records. The node is reached through the chain
gateway; the covenant decides in the end which transaction counts. A submission
wakes the keeper's timer loop.

What is hard in it:

* every handler works on a snapshot across awaits, and most writes replace the
  whole record (lost updates);
* one submission is three writes apart from the network: operation
  `submitting`, node, operation `broadcast`, record. A crash falls between any
  two of them, and so does a lost answer;
* an output is visible in the mempool before it is in a block;
* players may stop at any point, so that timeouts must be relayed, and
  a timeout races a late move;
* the timer loop of the keeper is entered by timers, wakes and errors;
* a match is looked at, waited with, and then changed: by the players, by the
  sweep of idle ones, and by the bot, which works on a snapshot;
* a page polls while the player acts, so that answers overtake each other, and
  the number behind a locked stake exists in one browser only;
* the fee of a transaction depends on its change and the change on its fee;
* amounts are computed twice, in JavaScript and in the script, with a threshold.

What makes each part correct:

* Covenant: the escrow pays what the players' commitments and reveals entitle
  them to, in any order of entries; nothing is lost; nobody can be stuck.
* Economics: every stage has a way out that the builder can build and the
  script accepts, for every stake.
* Game service and store: no update is lost; what the record calls confirmed
  is; every broadcast transaction is recorded; every game comes to an end on the
  chain and in the record, whatever the players leave undone.
* Scheduler: one loop, which does not stop while there is something to do that it
  was told of.
* Matchmaking and bot: a seat is won once, a wallet has one open session, a
  code leads to one room, the queue is what waits; the bot plays one game at a
  time, keeps its secret, and its lease comes back.
* Client: the number behind a stake is kept until the game is over; one reveal at
  a time; a page never shows an older state and catches up in the end.
* Funding: what is prepared is accepted later, what is submitted is what the
  player approved, and nobody is refused without need.
* Feedback: nothing accepted is lost, and it does not multiply.

The full list of hazards, each at its line, is in `PROJECT.json`.

## 2. Modules

    Wager  <--refinement--  KasOddsCovenant  <-- KasOddsCovenantProofs
                              |   ^-- GameDecisions
    Escrow  <--refinement-----+-- GameChain
    Economics  <-- EconomicsProofs
    TransactionFunding  <-- TransactionFundingProofs
    GameChain  <--extends--  GameBackend  <-- GameBackendProofs
    SettlementScheduler  <-- SettlementSchedulerProofs
    Feedback  <-- FeedbackProofs
    Matchmaking  <-- MatchmakingProofs
    RevealSecrets  <--  PlayedMatch  <--  Lobby, GamePage  <--  Client  <-- ClientProofs

The `MC*` modules are the instances for TLC. Operators introduced as "mutant"
in the modules are wrong versions of the definition that follows them; no
specification uses them. They show that a property notices such a mistake.

### Wager, Escrow, KasOddsCovenant and GameDecisions

`Wager` is what two players are promised, without transactions: a matched
wager is won by parity, called off, forfeited to the only player who revealed, or
withdrawn while it is open, and each outcome fixes everybody's payment.

`KasOddsCovenant` is the script. Its variables are the covenant's state
fields; `value` is the amount of the output, `daa` and `age` the two clocks the
entries compare with (saturating at `Deadline` and `Wait`), `commit` what the
players are bound to. Each entry is one action; its guard is the entry's
`require()` statements. `Close` is a spend into final outputs, `Continue` one into
a new covenant output, which restarts `age`. Signatures and hashes are
abstracted to "this player" and "a fixed commitment". The refinement `W` maps
status to phase; the second reveal is known only from how the output was spent.

`Escrow` has the same script without amounts and choices: in which order the output is
spent, by whom, and not before which clock. The script is modelled twice, in
`KasOddsCovenant` with its values and in `GameChain` with mempool and blocks, and
nothing but a common abstraction keeps the two from drifting apart. Each has a
refinement mapping `E`: `ImplementsEscrow` says it of the script, and
`BlocksFollowTheScript` of the blocks of the backend's model.

`GameDecisions` has no state. It is the JavaScript that decides what may be done
with a game: `game-projection.js`, `resolveReveal`, `resolveFallbackClaim`, the
keeper's choice, and the outputs built for each. `OffersAreTheCovenants` compares
it with the script in every reachable state (which moves there are) and at every step
(with which outputs). An entry of `KasOddsCovenant` is its condition, `MayReveal`,
`MayRefund` and so on, and one value for every variable, so the condition stands
for `ENABLED`, which the prover does not handle; TLC found the two equal in every
state of the run's instance. The module assumes that the server has read the chain,
but for one moment: the page's countdown of a claim starts when the server noticed
the reveal (`SinceNoticed`), later than the score of the output that the keeper and
the script count from. So `OffersAreTheCovenants` says that the keeper sends a timeout
exactly when the script takes it, that the page never calls one ready before, and
that for the two refunds it does so at the same moment. How the server falls behind
otherwise is GameBackend.

### Economics and TransactionFunding

`Economics`: the amounts of `protocol.js`, the outputs of the builders in
`terminal-transactions.js` (and of the two callers in the service that assemble
the keeper's transactions), and independently the outputs that the entries of
`kasodds.sil` require. A game goes through `Create`, `Join`, `FirstReveal` and is
`Spend`t by one of five entries. `Builds` is "the builder does not throw".

`TransactionFunding`: an order (creation, join, or a terminal transaction) for a
purse of coins. `PrepareDraft` chooses coins (`LargestFirst`, or the small
`Candidates` of `terminal-funding.js`) and prices them with one of two loops:
`DynamicFee` iterates the fee, `GenesisFee` the change, both as recursive
functions over the rounds. `Approve` is the page's verification, `Sign` and
`SignsAnother` the wallet, `SubmitDraft` the server's comparison and its last look
at the fee. The mass is `Mass`: linear in inputs and signatures, or the storage
mass of the change if that is more. The game's own inputs and outputs balance to
the sompi, which is what `Economics` shows, so they weigh a constant.

### GameChain and GameBackend

`GameChain` is the node as seen through the chain gateway, for one game: a
lineage of transactions each spending the output of the previous one, the first
`mined` of them in blocks. `Listed` is what `getUtxos` returns (mempool
included), `Unspent` what `isDaaConfirmed` accepts. The covenant's guards are in
`CovenantAllows`; amounts are left to the modules above. `cashed` says that the owner
of the last payout has spent it (`SpendPayout`): the backend looks for the
output and no longer finds it. The node checks them when it
takes a transaction, on a parent that may be in the mempool; `Phase`, `AuthorOf` and
`Ending` read from the blocks what came of it, for `Escrow`.

`GameBackend` is the service with the store. `game` is the durable record, `ops`
the operation log, `prepared` the stored and `ephemeral` the in-memory
preparations, `claim` the reservation of the first reveal, `lock` the game lock.
`proc[h]` is a handler: program counter, the snapshot `seen`, the phases of the
refresh still `todo`. A handler's awaits separate its actions:

| Actions | Code |
|---|---|
| `Submit`, `ClaimOperation`, `Send`, `SaveBroadcast` / `SaveFailed`, `Record` | `submitCreation`, `submitJoin`, `submitReveal`, `submitSafetyAction` and the keeper's submission, through `#submitOperation` |
| `StartRead`, `Observe`, `SaveRefreshed`, `ReadTail`, `UpdateStatus` | `readGame` |
| `StartPrepareReveal`, `Observe`, `SaveRefreshed`, `PrepareRevealTail` | `prepareReveal` under the game lock |
| `StartPrepareRefund`, ..., `PrepareRefundTail` | `prepareSafetyAction` |
| `PrepareJoin` | `prepareJoin` |
| `StartKeep`, `Observe`, `SaveRefreshed`, `KeepTail`, then the submission | `settleAutomaticGames` for the game |
| `Reconcile` | `reconcilePendingSubmissions` |
| `Crash`, `Restart` | the process, `server.js` start-up |
| `ClaimExpires`, `Environment` | the reservation's TTL; blocks, deadline, age, mempool eviction, a payout spent |

Abstractions, each of which a reader should know:

* there is one game; other games share only the loop, which is
  SettlementScheduler's subject;
* the creation is prepared in `Init`; `prepareJoin` is one step;
* reads next to each other without a write in between are one step;
* a store mutation is one step: the store queues them and renames a file;
* the game lock is granted in any order, not first come first served;
* retries of a rejected submission are later `Send`s of a later `Submit`;
* the reconciler's loop body is one step, since it waits for the store only, and
  it does not touch an operation whose handler is one store call from its record;
* the fee the network asks of a keeper's transaction is not computed: at every scan
  `KeepTail` may find the reserve too small and stop, as `#validateAutomaticFee` does;
* blocks are not reorganised;
* completed records are not pruned; attaching a game to its match is in
  `Matchmaking`.

### Matchmaking

`matchmaking-service.js`, the match half of the store, `#attachMatchGame` and the
bot. A match has a status, a code if it is a room, its players in the order of
their seats, the seat that publishes, and its game. Every operation first sweeps
an `idle` set of matches, as the code does. A store call is one step; a handler
that checks a match, waits and changes it is two, with what it checked in
`publishing` (`SubmitCreation`, then `Attach`), `joining` (`BotJoins`, then
`BotIsJoined`), or `scan`, the snapshot of its matches the bot walks through.
`Crash` forgets these and keeps the store. The `history` is not in the code: `late`
records that a creation was attached to a match that was no longer matched,
`orphaned` that a game ended, and its match with it, while the bot joined another
game of that match. A game is reduced to who joined and whether it is over; GameBackend has the rest.

### SettlementScheduler and Feedback

`SettlementScheduler`: `runSettlement` of `server-schedulers.js` by its awaits
(`pc`), its timer, the `wakeSettlement` calls of submissions in progress
(`waking`), failed scans, and the set of recorded games, which the reconciler and
pruning change as well; it may be empty, at the start and later. `overlooked` is not
in the code: it holds the games the keeper was not told of, those the reconciler
wrote since the last list and those whose wake met a scan that had found the store
empty.

`Feedback`: the spill list and the file behind it, the steps of `submit` for each
entry (`Add`, `Deliver`, `Remove`) and the drain, which holds the list's queue while
it delivers. `Mishap`s are restarts, failed writes and lost answers.

### RevealSecrets, PlayedMatch, Lobby, GamePage, Client

One player's browser. `RevealSecrets` is `secrets.js`: a number per operation
(creation or join) and a link from the game to it. `PlayedMatch` is the server as
far as the browser can tell its states apart, with the moves of everybody else.
`Lobby` is `lobby-controller.js` and `app-controller.js`: the poll controller (`polls`
holds requests in flight, each answered in one step and taken in a later one),
the screens (`page`), the offer of the bot (`call`), and the steps of
`startCreation` and `startJoin` for each attempt under way (`flow`): a late answer may
bring the screen with the numbers back, and Play pressed again then starts a second
attempt beside the first. `GamePage` is `app.js`: `refreshGame` with its
request gate, signature and the suppression during a reveal, the reveal
button, and the refund behind Exit. `Client` puts them together; a reload
loses everything but the numbers. `misled` is not in the code: it records that the
lobby took an answer older than one it had shown.

## 3. What TLC checks

| Run | Question | Instance |
|---|---|---|
| `covenant` | Does the script keep `Wager` (`ImplementsWager`)? Does the sum of output, payments and network share stay what was deposited (`Conservation`)? Does nobody go without payment unless both revealed or only the other did (`NobodyForfeitsSilently`)? Does the JavaScript offer what the script accepts (`OffersAreTheCovenants`)? Is the output always spent in the end (`EscrowReleased`)? | one creator, two possible joiners, all commitments; a pot above the fee threshold |
| `economics` | Can every way out of every stage be built, does the script accept it, does the network get the reserve exactly? And, beside it: is a prepared transaction accepted later (`PreparedIsAccepted`), is what is submitted what was approved (`SubmittedIsApproved`), who is refused (`RefusedOnlyNearTheEdge`)? | every stake up to the bound, on both sides of the fee threshold; purses whose rest beside the stake goes from nothing to 0.6 KAS, in one coin, two, or many, with coins of the game among them; two fee rates |
| `scheduler` | Is there never a second timer chain, does the keeper stay scheduled and scan every due game, but for those it was not told of? And, beside it: is accepted feedback kept (`FeedbackIsKept`)? | three games, none to all of them in the store at the start, two failures; two entries, two mishaps |
| `opening` | Is every recorded game ended on the chain, and in the record unless its payout was spent too soon (`GameIsConcluded`)? Does a join survive every stale reader (`JoinNeverForgotten`)? Do the blocks follow the script, though the keeper takes an output in the mempool for an old one (`BlocksFollowTheScript`)? | creation, two joiners, refund by hand, status reads, a payout spent at any time; two requests at a time and the keeper |
| `reveals` | Is the escrow of a joined game released (`EscrowReleased`), and its record closed no earlier than the node took what ends it (`CompletedOnceSpent`)? | both players, any order, or silence |
| `restart` | Is what the record calls confirmed mined, and is a broadcast creation or join recorded, whatever fails? | one crash with an outage of any length, one lost answer, one dropped transaction, alone or together |
| `matchmaking` | Is the queue what waits, a seat taken once, a session one, a code one room's? Does the bot keep its secret and play one game at a time, and is its lease released? | two wallets and the bot, two matches, one code, crashes without bound; two games, three for a wallet that plays alone with the bot and may publish twice for a match |
| `client` | Is the number behind a stake kept, can the joiner find it, is there one reveal at a time, does no page go back, and do both catch up? | each way in (search, host, guest), both numbers, a status request of the lobby's interval while none is in flight, and two at once at each start of it; two requests of the game page, two handlers of the button, two attempts at the same time, one reload or lost answer |

Two runs follow two specifications that share no variable, one while the other
rests (`MCEconomics`, `MCSettlementScheduler`): their product would only repeat each.
Two runs have an action constraint (`RequestsStay` of `MCGameOpening`: no two status
reads at once, no refund beside reads or beside the second joiner; `GamesStay` of
`MCMatchmaking`: no third game unless the stored seats and games are
one wallet's and the bot's, in public matches). Both
leave out only the beginning of something nobody is obliged to begin, so that no
fair step is lost.

Why the bounds are enough. The covenant has two players by construction and a
second candidate joiner shows who takes the seat; its clocks matter only through
two comparisons. Amounts are linear in the stake with one threshold, and the
proofs remove the bound. Funding has its interesting cases where the change
weighs about as much as the transaction: the rests cross that point in steps
of 0.01 KAS. In GameBackend a lost update needs one stale reader and
one writer, so two request slots next to the keeper give every pair (and a reader,
a writer and the keeper together); all stale states go back to one snapshot. Each
fault happens once, so that a violation is due to the fault and not to a
sequence of failures nobody claims to survive. Preparations: one per wallet and
purpose, `MaxPreparations`. In Matchmaking, two matches are
what a second session and a second room with the same code need; the bot's rule
takes three games, two of one match and one of another, and no second wallet. Every match
id is used once, so that a bound on ids is a bound on the length of the story;
the proofs remove it for the safety properties. In
Client, two requests in flight are what overtaking needs. Deadlock checking is off
where the game ends or nobody has to play. `Start` begins an instance of
GameBackend at a prepared creation, a confirmed creation, or a confirmed join, so
that the long lives fit in minutes.

Fairness. In the covenant, somebody relays an open timeout and time passes;
no player is obliged to move. In GameBackend, weak fairness for handlers
(Node runs continuations, requests to the node time out), the keeper
and the reconciler (timers), restart, and the progress of the chain (a block or a
clock); strong fairness of a keeper that gets to send (`KeeperSends`), since the
reserve may be too small at one scan and enough at another; no client action is fair.
That the keeper is started again and again is what `scheduler` checks, with the
exceptions of `overlooked`. In SettlementScheduler, timers fire, awaits end,
submissions in progress reach their wake. In Matchmaking, the bot's interval, the
keeper (a game ends, which assumes that the backend sees its payout before it is
spent) and the bot's own handlers are weakly fair; releasing and
expiring are strongly fair, because a crash may cut a scan short, but the server
does not die in every one. In Client, timers and requests go on, the player
answers his wallet (refusing is an answer), and requests do not fail for ever
(strong fairness of an answered request); he is not obliged to press anything.

### Where the code does less than it says

Four runs expect a violation.

* `crashed_send`: `src/server-schedulers.js:46-48` promises that a crash never
  strands a creation that reached the network. A crash after the node's answer
  and before the operation is marked `broadcast` does: the reconciler skips an
  operation in `submitting`, and a new submission is refused as pending.
* `resubmitted_creation`: `docs/http-api.md:125-126` calls submissions
  idempotent per preparation. A repeated creation does not reach the network
  again, but writes a fresh record; after a join this erases the joiner.
* `mempool_refund`: an output in the mempool "must not count as confirmed"
  (`src/backend-game-service.js:1400-1402`), but the keeper's own transactions
  do not pass that test and complete the record at once. `CompletedOnceSpent`
  is what the code does keep: with a mempool that drops nothing, a closed record means
  a player's mined settlement or refund, or a timeout the node took.
* `bot_twice`: the lease is there "so the same bot wallet is never committed to two
  live games at once" (`src/backend-game-store.js:289-290`). A creator who submits
  two creations for his match with the bot takes it into both.

Some properties say what the code keeps and leave out what it does not:

* `BotInOneGameUnlessLate`, `LeaseIsReleased`: `#attachMatchGame` asks for a matched
  match, waits, and updates without asking again. A creation attached late
  starts a cancelled match, or replaces the game of a started one, and the bot may
  then have a second live game (`late`). A second creation that was not attached
  still carries the match's id: when it ends, `completeGame` deletes the match and
  releases the lease, also in the moment between the bot's check of the first game
  and the record of its join (`orphaned`). The bot is then free for another match,
  plays twice, and a lease it took meanwhile may stay for ever, since nothing of
  its match is left to release it.
* `GameIsConcluded`: a settlement, a refund or a timeout is confirmed by its payout in
  the list of unspent outputs. A player who spends it before a read or a scan has
  seen it leaves the record open: the keeper then only meets `GAME_NOT_OPEN` or
  `ACTION_NOT_CONFIRMED` (`cashed`). The money is where it belongs; the record, and a
  lease of the bot, are not released.
* `KeeperStaysScheduled`, `DueIsScanned`: a scan that ends on an empty store arms no
  timer and ignores the wake of a submission that came meanwhile, and the
  reconciler wakes nobody (`overlooked`). Nothing else brings the keeper to rest while
  there is a game, and the next submission wakes it for all.
* `OffersAreTheCovenants`: the countdown of a claim on the page ends later than the
  script's, by the time it took to notice the reveal.
* `OneOpenSession`: joining a friend's room retires no earlier session of the guest.
* `OpponentIsShown`: `refreshMatch` takes an answer that a newer one overtook; the
  page may show the search again, or a creator may wait for a game he has to make
  himself (`misled`).
* `SecretBehindStake`, `JoinerCanReveal`: the number is kept for both players, but only
  the joiner links it to the game before he signs. After a lost answer the
  creator's game page does not find it; the stake then comes back by timeout, or is
  forfeited to a joiner who reveals. The number of a game taken back through Exit
  stays until its page is opened again. With two attempts at once, a second creation
  may reach the network and be refused by the server; the stake in it is not followed.
* `RefusedOnlyNearTheEdge`: coins are chosen once, largest first. If what is left of
  them is too little for a change output and too much for none, the preparation
  is refused, though other coins would do.
* `FeedbackIsKept`: `submit` and a drain may both deliver an entry.
* `validateFallbackClaimTemplate` (`src/terminal-actions.js:87`) asks for a payout
  without the automation reserve, which the builder's transaction does not have;
  only tests call it, so no module has it.

Lifting other bounds breaks properties too, and a reader who changes a cfg
will meet it:

* `EscrowReleased` with `MaxCrashes = 1`: the keeper's operation stays
  `submitting` and the timeout is never sent;
* `EscrowReleased` in `reveals` with `MaxResubmits = 1`: a duplicate reveal entry
  makes the keeper pass over the game;
* `JoinNeverForgotten` with `MaxDrops = 1`: the mempool forgets the keeper's
  refund, a join takes its place, and the keeper's late `saveGame` replaces
  the record of the join;
* `BroadcastIsRecorded` without its `NothingLost`: a record closed by a dropped
  refund forgets the join's operation; a pruned preparation cannot be reconciled.

## 4. What TLAPS proves

For all values of the constants that meet the named assumptions
(`PartiesAssumption`, `TermsAssumption`, `EconomicsAssumption`, `MatchmakingAssumption`, `NoneAssumption`,
`FeedbackAssumption`, `StartAssumption`, `JoinersAssumption`, `FundingAssumption`, `StorageAssumption`,
`SecretsAssumption`, `PlayerAssumption`, `LobbyAssumption`, `GamePageAssumption`;
the last four say that None is no number, no state, no operation and no role, and that
the bounds are numbers). `FundingAssumption` says that amounts and masses are positive
and a purse is sorted, as the code sorts it; `StorageAssumption` that a transaction
with one coin weighs less than `MAX_TERMINAL_STORAGE_MASS` (500 000), which is far
above what the SDK computes for one.

* `KasOddsCovenantProofs`: `TypeCorrect`, `StakesConserved`, `NoSilentForfeit`,
  `CovenantImplementsWager`, `CovenantImplementsEscrow`, `OffersAgree`. The inductive
  invariant `IInv` adds `Shape` to the properties: which fields are set at which status (a choice only once it is revealed, a first
  revealer only while one reveal is missing), and that the output holds one
  stake before the join and two after it. Without it the entries that compute the
  payments from the terms and not from the output's value could create or lose
  value. The refinement proof shows that `Init` maps to `W!Init` and that, under
  `IInv`, each entry maps to the step of `Wager` of the same meaning and a tick to
  a stutter. `OffersAgree` takes the JavaScript decision by decision: which moves are
  open follows from `Shape` (`Offers`), the winner the server names for the second reveal
  is the script's (`ServersWinner`), and each built output is the one its entry asks
  for (`FirstRevealIsExact`, `SecondRevealIsExact`, `TemplatesAreExact`).
  `CovenantImplementsEscrow` needs no more than `IInv`: each entry maps to the step of
  `Escrow` of its name, a tick to the clocks.
* `EconomicsProofs`: `AmountsCorrect`, `CovenantAcceptsBuilt`, `EveryWayOutBuilds`,
  `ReserveExact`. The key is the lemma `FeeAgreement`: the JavaScript threshold on the
  fee and the script's threshold on the pot are the same condition.
* `SettlementSchedulerProofs`: `LoopNeverForks` and `KeeperNeverStops`, for any games
  and from any store, the empty one included. The second rests on `Alive`: a keeper
  that rests, or whose scan is about to end after an empty list, leaves no game in the
  store that is not waking or overlooked.
* `MatchmakingProofs`: `TypeCorrect`, `QueueHoldsWaiting`, `SessionIsOne`, `CodeIsOneRoom`,
  `SecretIsKept`, and the action property `SeatIsFinal`, for any wallets, codes,
  matches and games. `IInv` adds to the properties what the store's rules rely
  on: `Allocated` (a match that exists has had its id drawn, so a new one is
  new), `SeatsOK` (one seat while a match waits, two and a publisher once it is
  matched), `StartedOK` (a started match has a stored game), `BotOK` (the bot sits
  only where nobody waits any more), and `HandlersOK`, which is the interesting one:
  what a handler checked before it waited, such as that the match of a game in
  `publishing` has left the queue for good, still holds when it goes on, although
  the match may have been cancelled or deleted since. Most actions change
  matches in one of few ways (cancel, seat, open), so lemmas about these
  (`MatchesKept`, `SessionsKept`, `HandlersKept`, ...) are cited by all of them.
  `BotPlaysOneGame` takes a second layer, `BotInv`. `PastOK`: a match somebody
  prepared a creation for never waits again, and the match of an ended game is
  gone for good. `Tidy`, as long as nothing was attached late or orphaned: the
  lease names the one match the bot sits in, plays in, or is joining; while it joins
  it has no live game; and a match the bot's snapshot calls cancelled is. Almost every
  step is `Quiet`: it gives the bot no seat, no game and no join, and gives the
  lease back only when nothing holds it; one lemma (`QuietKeeps`) serves them all,
  and the offer, the bot's check and its record are left. The model had to be
  corrected on the way: with two games TLC could not meet the case `orphaned`
  records, and the property without it is false.
* `GameBackendProofs`: `TypeCorrect` and `ConfirmedAreMined`, for any handlers, crashes,
  lost answers, dropped transactions and second submissions. `IInv` says what shape
  the lineage has (the creation first; a join, a creator's refund or `refund_open`
  only second), and that every record, the stored one and each snapshot a handler
  holds, is one in which whatever is confirmed is mined: a snapshot may be written
  back long after it was taken, and blocks stay. `JoinIsKept` holds under
  `SentOnceAndKept` (the mempool drops nothing, no creation is submitted twice), and needs
  both: section 3 has what happens without. `JInv` adds that no operation is called broadcast,
  and no join recorded, that the node did not take; that a reader's snapshot has the
  join once the escrow has; and that a game is opened once, by a handler that runs
  alone. `CompletedAreSpent` shows `CompletedOnceSpent` with `KInv`: only the last
  transaction of the lineage leaves no output (`TerminalLast`), and unless the end is
  on the chain neither the record nor what any handler holds says that the game is over
  (`StoreSilent`, `HandlersSilent`). The hard part is time: a handler may write the end of a game into the record long after it saw it, and
  only because the chain never takes the end back is that still true.
  `BlocksFollow` is the action property `BlocksFollowTheScript`, without a bound on
  crashes, lost answers and dropped transactions; with the initial state it gives
  `ChainImplementsEscrow` (for a `Start` without the join, since an escrow begins without
  one): the node of this model is no more permissive than the script. It checks a
  transaction when it takes it and the block comes later, so `LInv` says what
  stays of the check, of the whole lineage, mempool included (`LinksOK`): each
  transaction is on the one before and of a kind that follows it, which fixes its place
  (`InPosition`); its author may call the entry; the deadline it needs has passed and
  stays passed; and a timeout that waits for the age of its parent is the very next to be
  mined, so that no other block resets that clock. `JoinersOK` follows a join from its
  preparation through the handlers to the node. TLC checked `LInv` on the instances of
  `reveals` and `restart` before it was proved.
* `TransactionFundingProofs`: `PreparedPasses`, `SubmittedAsApproved`,
  `RefusedNearTheEdge`, for any purse, stake, fee rate and masses, and for any
  number of orders one after another (`FundingSpec`, which the `economics` run
  interleaves with the amounts). The invariant says of a draft that its coins are
  ordinary, its sums balance and its fee pays for its mass. The loops are recursive functions over the
  rounds, and the sums folds over finite sets; what is needed of them is shown with
  a least counterexample (`LeastNumber`, `EveryNumber`), since a set of
  numbers can stand for the property an induction is about. The heart is that
  with enough change the second round asks for the fee of the first, in both
  loops (`FeesKeep`, `ChangesKeep`).
* `FeedbackProofs`: `FeedbackNeverLost`. The inductive invariant counts: the copies an
  entry has, and those still `ToCome` from its request and from a drain that has
  it in hand, are at most two plus the mishaps; and an entry in nobody's hand is
  in the file or was delivered.
* `ClientProofs`: `TypeCorrect`, `NumberIsKept`, `JoinerReveals`, `RevealIsOne` and the
  action property `ScreensGoForward`, for any numbers, reveal buttons, attempts and requests in
  flight, and reloads. `IInv` adds to the properties: a role comes before a game and
  a game before a stake (`ServerOK`); a number is picked before anything is locked,
  and nothing is being locked on a page that was left (`LobbyOK`); while any attempt is between its draw and
  its submission (`Committing`), the number is in the store and, for a joiner, linked (`DrawnOK`);
  the reveal button is off the screen while a reveal is under way (`RevealOK`); an
  answer on its way is no older than the screen, no newer than the game, and
  belongs to the newest request (`ScreenOK`). TLC checked `IInv` on the instance
  of the `client` run before it was proved.

Only model-checked: the liveness properties (`EscrowReleased`, `GameIsConcluded`,
`BroadcastIsRecorded`, `DueIsScanned`, `LeaseIsReleased`, `OpponentIsShown`,
`PageCatchesUp`), which are out of the prover's reach.

## 5. Not modelled

* Bytes: script templates, hashes, address encoding, the SDK's exact mass,
  signatures. Test vectors and the pinned artifact cover them; in TLA+ they
  would be the same code once more.
* `recovery.js`, `join-game.js`, `terminal-lifecycle.js`, `invite.js` and the
  coordinator of `create-game.js`: a library that `index.js` exports and that the
  server and the pages do not call.
* HTTP routing, the rate limiter and the relay store: one synchronous map
  operation per request. What a route does is in the module of its service.
* Connecting to the node: a call without a connection fails like a lost request,
  which GameBackend has; reconnecting changes no state of a game.
* A joined game with crashes or with reveals submitted twice: the code loses
  there what it cannot restore (see section 3), so there is nothing to claim.
* Reorganised blocks: neither the server nor the pages handle them.
* Markup, wording, sounds, statistics, metrics, logs, configuration, deployment; the
  wallet extension beyond what it returns; the oracle and the pins, which
  compare build artefacts.
