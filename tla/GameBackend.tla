---------------------------- MODULE GameBackend ----------------------------
(***************************************************************************)
(* The life of one game in src/backend-game-service.js: the handlers that  *)
(* prepare and submit its transactions, the reads that follow the chain,   *)
(* the settlement keeper, the reconciler, and the durable record they all  *)
(* write (src/backend-game-store.js).                                      *)
(*                                                                         *)
(* A handler is a sequence of steps with an `await` between them.  Each    *)
(* works on the snapshot `seen` of the record it loaded, so whatever       *)
(* another handler saved meanwhile is visible only where the code reads    *)
(* the store again.  One store call is one step: the store runs mutations  *)
(* one at a time and writes the file atomically.                           *)
(***************************************************************************)
EXTENDS GameChain, FiniteSetsExt, SequencesExt

CONSTANTS
    Slots,          \* requests in progress at the same time
    Clients,        \* what the clients do: kinds of transaction, "read", and
                    \* "spend" the payout of an ended game
    Start,          \* how far the game is: "prepared", "created", "joined"
    LongOutages,    \* TRUE: the server may be down for longer than 15 minutes
    MaxResubmits,   \* submissions repeated for an operation already taken up
    MaxCrashes,     \* restarts of the server
    MaxLost,        \* node answers that never arrive
    MaxDrops        \* transactions the mempool forgets

ASSUME StartAssumption == Start \in {"prepared", "created", "joined"}

VARIABLES
    game,           \* the stored game record, None before it is saved
    ops,            \* the stored operations: status by transaction
    prepared,       \* stored preparations (prepared, joinPrepared, actionPrepared)
    ephemeral,      \* reveal preparations, in memory only
    claim,          \* the player who reserved the first reveal, in memory only
    lock,           \* the handler that holds the game lock
    proc,           \* the handlers
    up,             \* the server finished starting
    faults          \* how many of the bounded events happened

storeVars == <<game, ops, prepared>>
memory == <<ephemeral, claim, lock>>
vars == <<chainVars, storeVars, memory, proc, up, faults>>

Procs == Slots \cup {Keeper}

CreationTx == Tx("creation", Creator, 1, None)

-----------------------------------------------------------------------------
(***************************************************************************)
(* The game record                                                         *)
(***************************************************************************)
TerminalStatuses == {"settled", "creator_refunded", "refunded", "fallback_claimed"}

NewGame == [status |-> "broadcast", join |-> None, reveals |-> <<>>,
            refunds |-> {}, auto |-> None, completed |-> FALSE]

Entry(t) == [tx |-> t, status |-> "broadcast"]

\* The positions of the confirmed and of the pending reveals.
Confirmed(r) == {i \in 1..Len(r.reveals) : r.reveals[i].status = "confirmed"}
Pending(r) == {i \in 1..Len(r.reveals) : r.reveals[i].status # "confirmed"}
FirstConfirmed(r) == r.reveals[Min(Confirmed(r))].tx
PendingRefunds(r) == {e \in r.refunds : e.status # "confirmed"}

BroadcastStatus(kind) ==
    CASE kind = "creation" -> "broadcast"
      [] kind = "join" -> "join_broadcast"
      [] kind = "first" -> "reveal_broadcast"
      [] kind = "settlement" -> "settlement_broadcast"
      [] kind = "creator_refund" -> "creator_refund_broadcast"
      [] kind = "refund_open" -> "refund_open_broadcast"
      [] kind = "refund_all" -> "refund_all_broadcast"
      [] kind = "fallback_claim" -> "fallback_claim_broadcast"

AutomaticOutcome(kind) ==
    CASE kind = "fallback_claim" -> "fallback_claimed"
      [] kind = "refund_open" -> "creator_refunded"
      [] kind = "refund_all" -> "refunded"

\* A mutant of Recorded: the refund is listed among the reveals.
RecordedAmongReveals(r, t) ==
    CASE t.kind = "creation" -> NewGame
      [] t.kind = "join" ->
            [r EXCEPT !.join = t, !.status = BroadcastStatus(t.kind)]
      [] t.kind \in {"first", "settlement", "creator_refund"} ->
            [r EXCEPT !.reveals = Append(@, Entry(t)), !.status = BroadcastStatus(t.kind)]
      [] t.kind \in KeeperKinds ->
            [r EXCEPT !.auto = Entry(t), !.status = BroadcastStatus(t.kind)]

\* What a submit handler, or the reconciler, makes of the record r it loaded.
Recorded(r, t) ==
    CASE t.kind = "creation" -> NewGame
      [] t.kind = "join" ->
            [r EXCEPT !.join = t, !.status = BroadcastStatus(t.kind)]
      [] t.kind \in {"first", "settlement"} ->
            [r EXCEPT !.reveals = Append(@, Entry(t)), !.status = BroadcastStatus(t.kind)]
      [] t.kind = "creator_refund" ->
            [r EXCEPT !.refunds = @ \cup {Entry(t)}, !.status = BroadcastStatus(t.kind)]
      [] t.kind \in KeeperKinds ->
            [r EXCEPT !.auto = Entry(t), !.status = BroadcastStatus(t.kind)]

\* #assertJoinable: only a confirmed refund refuses a join.
Joinable(r) ==
    /\ \A e \in r.refunds : e.status # "confirmed"
    /\ r.auto # None => ~(r.auto.status = "confirmed" /\ r.auto.tx.kind # "fallback_claim")
    /\ r.status # "creator_refunded"

OpStatus(t) == IF t \in DOMAIN ops THEN ops[t] ELSE "none"
SetOp(t, status) == [x \in DOMAIN ops \cup {t} |-> IF x = t THEN status ELSE ops[x]]

-----------------------------------------------------------------------------
(***************************************************************************)
(* Handlers                                                                *)
(***************************************************************************)
Idle == [pc |-> "idle", task |-> "none", by |-> None, tx |-> None,
         seen |-> None, todo |-> <<>>, status |-> "none"]

Goto(h, pc) == proc' = [proc EXCEPT ![h].pc = pc]

Finish(h) ==
    /\ proc' = [proc EXCEPT ![h] = Idle]
    /\ lock' = IF lock = h THEN None ELSE lock

\* #releaseRevealClaim, the `finally` of submitReveal.
ReleasedClaim(t) ==
    IF t.kind \in {"first", "settlement"} /\ claim = t.by THEN None ELSE claim

ChainRefused == UNCHANGED chainVars

\* A submission of the same preparation was taken up already.
TookUp(t) ==
    \/ OpStatus(t) \in {"submitting", "broadcast"}
    \/ \E h \in Slots : proc[h].tx = t

\* The checks of submitCreation, submitJoin, submitReveal and
\* submitSafetyAction against what they load.
MaySubmit(t) ==
    CASE t.kind = "creation" -> t \in prepared
      [] t.kind = "join" ->
            /\ t \in prepared
            /\ game # None
            /\ Joinable(game)
            /\ game.join = None
            /\ OpStatus(CreationTx) \in {"broadcast", "none"}
      [] t.kind = "creator_refund" -> t \in prepared /\ game # None
      [] t.kind \in {"first", "settlement"} ->
            /\ t \in ephemeral
            /\ game # None
            /\ game.join # None

\* The first steps of #submitOperation: an operation already broadcast is not
\* sent again, one being submitted is refused.
Dispatch(h, task, t, r) ==
    LET next(pc) == proc' = [proc EXCEPT ![h].pc = pc, ![h].task = task, ![h].tx = t, ![h].seen = r]
    IN CASE OpStatus(t) = "broadcast" -> next("record") /\ UNCHANGED claim
         [] OpStatus(t) = "submitting" ->
               proc' = [proc EXCEPT ![h] = Idle] /\ claim' = ReleasedClaim(t)
         [] OTHER -> next("claim") /\ UNCHANGED claim

\* A client posts the signed transaction of a preparation it was given; the
\* handler loads what it needs, under the game lock when it is a join or a
\* creator refund.
Submit(s, t) ==
    LET locked == t.kind \in {"join", "creator_refund"}
    IN /\ up
       /\ proc[s] = Idle
       /\ t.kind \in Clients
       /\ locked => lock = None
       /\ MaySubmit(t)
       /\ TookUp(t) => faults.resubmits < MaxResubmits
       /\ faults' = [faults EXCEPT !.resubmits = IF TookUp(t) THEN @ + 1 ELSE @]
       /\ Dispatch(s, "submit", t, game)
       /\ lock' = IF locked /\ OpStatus(t) # "submitting" THEN s ELSE lock
       /\ UNCHANGED <<chainVars, storeVars, ephemeral, up>>

\* The operation is written down before the node hears of the transaction.
ClaimOperation(h) ==
    /\ proc[h].pc = "claim"
    /\ ops' = SetOp(proc[h].tx, "submitting")
    /\ Goto(h, "send")
    /\ UNCHANGED <<chainVars, game, prepared, memory, up, faults>>

\* The node answers.  A retry of a rejected transaction is a later Send.
Send(h) ==
    /\ proc[h].pc = "send"
    /\ \/ /\ Accept(proc[h].tx)
          /\ Goto(h, "saveBroadcast")
          /\ UNCHANGED faults
       \/ /\ ~Acceptable(proc[h].tx)
          /\ Goto(h, "saveFailed")
          /\ UNCHANGED <<chainVars, faults>>
       \/ /\ faults.lost < MaxLost
          /\ faults' = [faults EXCEPT !.lost = @ + 1]
          /\ Accept(proc[h].tx) \/ ChainRefused
          /\ Goto(h, "saveFailed")
    /\ UNCHANGED <<storeVars, memory, up>>

SaveBroadcast(h) ==
    /\ proc[h].pc = "saveBroadcast"
    /\ ops' = SetOp(proc[h].tx, "broadcast")
    /\ Goto(h, "record")
    /\ UNCHANGED <<chainVars, game, prepared, memory, up, faults>>

SaveFailed(h) ==
    /\ proc[h].pc = "saveFailed"
    /\ ops' = SetOp(proc[h].tx, "failed")
    /\ Finish(h)
    /\ claim' = ReleasedClaim(proc[h].tx)
    /\ UNCHANGED <<chainVars, game, prepared, ephemeral, up, faults>>

\* saveGame({ ...seen, ... }): the whole record is replaced.
Record(h) ==
    /\ proc[h].pc = "record"
    /\ game' = Recorded(proc[h].seen, proc[h].tx)
    /\ Finish(h)
    /\ claim' = IF proc[h].task = "submit" THEN ReleasedClaim(proc[h].tx) ELSE claim
    /\ UNCHANGED <<chainVars, ops, prepared, ephemeral, up, faults>>

-----------------------------------------------------------------------------
(***************************************************************************)
(* Following the chain                                                     *)
(***************************************************************************)
\* A mutant of Landed: an output in the mempool is good enough.
LandedInMempool(t) == t \in Accepted

\* #revealConfirmation and #safetyConfirmation: a first reveal is seen by its
\* continuation, a settlement or a refund by the payout; mined, and not spent
\* again yet.
Landed(t) == IF t.kind = "first" THEN Unspent(t) ELSE t \in Mined /\ ~cashed

\* The entries of q at the positions I, in their order: filter.
Those(q, I) ==
    LET from == CHOOSE f \in [1..Cardinality(I) -> I] :
                   \A j, k \in 1..Cardinality(I) : j < k => f[j] < f[k]
    IN [k \in 1..Cardinality(I) |-> q[from[k]]]

\* #refreshActionState keeps the attempt that landed and drops the other
\* unconfirmed attempts at the same stage.
AfterReveal(r, i) ==
    LET stage == r.reveals[i].tx.kind
        kept == [j \in 1..Len(r.reveals) |->
                   IF j = i THEN [r.reveals[j] EXCEPT !.status = "confirmed"] ELSE r.reveals[j]]
        reveals == Those(kept, {j \in 1..Len(kept) : kept[j].status = "confirmed" \/ kept[j].tx.kind # stage})
        settled == \E j \in 1..Len(reveals) :
                      reveals[j].status = "confirmed" /\ reveals[j].tx.kind = "settlement"
    IN [r EXCEPT !.reveals = reveals, !.status = IF settled THEN "settled" ELSE "first_revealed"]

\* #refreshSafetyState, for the creator's refunds.
AfterRefund(r, e) ==
    [r EXCEPT !.refunds = (@ \ PendingRefunds(r)) \cup {[e EXCEPT !.status = "confirmed"]},
              !.status = "creator_refunded"]

\* #refreshAutomaticSettlement.  It asks findExpectedUtxo for the payouts and,
\* unlike the other two, not for the DAA score they were mined at.
AutomaticLanded(r) ==
    r.auto # None /\ r.auto.status = "broadcast" /\ r.auto.tx \in Accepted /\ ~cashed
AfterAutomatic(r) ==
    [r EXCEPT !.auto.status = "confirmed", !.status = AutomaticOutcome(r.auto.tx.kind)]

\* The records one phase of a refresh may turn r into; none when the chain
\* has no news for it.
Findings(r, phase) ==
    CASE phase = "reveals" ->
            LET landed == {i \in 1..Len(r.reveals) :
                             r.reveals[i].status # "confirmed" /\ Landed(r.reveals[i].tx)}
            IN IF landed = {} THEN {} ELSE {AfterReveal(r, Min(landed))}
      [] phase = "safety" ->
            {AfterRefund(r, e) : e \in {p \in PendingRefunds(r) : Landed(p.tx)}}
      [] phase = "auto" ->
            IF AutomaticLanded(r) THEN {AfterAutomatic(r)} ELSE {}

\* A mutant of Phases: the keeper does not look for creator refunds.
PhasesWithoutSafety(task) ==
    CASE task = "read" -> <<"reveals", "auto", "safety">>
      [] task = "keep" -> <<"reveals", "auto">>
      [] task = "prepareReveal" -> <<"reveals">>
      [] task = "prepareRefund" -> <<"reveals", "safety">>

\* Each handler that refreshes, and the order it looks at the phases in.
Phases(task) ==
    CASE task = "read" -> <<"reveals", "auto", "safety">>
      [] task = "keep" -> <<"reveals", "safety", "auto">>
      [] task = "prepareReveal" -> <<"reveals">>
      [] task = "prepareRefund" -> <<"reveals", "safety">>

StartRefresh(h, task, p) ==
    /\ up
    /\ proc[h] = Idle
    /\ game # None
    /\ proc' = [proc EXCEPT ![h] = [Idle EXCEPT !.pc = "refresh", !.task = task, !.by = p,
                                               !.seen = game, !.todo = Phases(task)]]
    /\ UNCHANGED <<chainVars, storeVars, ephemeral, claim, up, faults>>

StartRead(s) ==
    /\ "read" \in Clients
    /\ StartRefresh(s, "read", None)
    /\ UNCHANGED lock
StartKeep == StartRefresh(Keeper, "keep", Keeper) /\ UNCHANGED lock
StartPrepareRefund(s) ==
    /\ "creator_refund" \in Clients
    /\ StartRefresh(s, "prepareRefund", Creator)
    /\ UNCHANGED lock
StartPrepareReveal(s, p) ==
    /\ {"first", "settlement"} \cap Clients # {}
    /\ lock = None
    /\ game # None /\ game.join # None
    /\ p \in {Creator, game.join.by}
    /\ StartRefresh(s, "prepareReveal", p)
    /\ lock' = s

\* The chain answers the phases in turn, up to the first with news.
Observe(h) ==
    /\ proc[h].pc = "refresh"
    /\ LET todo == proc[h].todo
           news == {i \in 1..Len(todo) : Findings(proc[h].seen, todo[i]) # {}}
       IN IF news = {}
          THEN proc' = [proc EXCEPT ![h].pc = "tail", ![h].todo = <<>>]
          ELSE \E r \in Findings(proc[h].seen, todo[Min(news)]) :
                  proc' = [proc EXCEPT ![h].pc = "save", ![h].seen = r,
                                       ![h].todo = SubSeq(todo, Min(news) + 1, Len(todo))]
    /\ UNCHANGED <<chainVars, storeVars, memory, up, faults>>

\* An operation carries the game id; that of a creation, once it is broadcast.
OfGame(t) == t.kind # "creation" \/ ops[t] = "broadcast"

\* #completeGame and the store's completeGame: the fields r carries replace the
\* stored ones, and what mattered only to the live game is deleted.
Complete(r) ==
    IF r.completed
    THEN UNCHANGED <<game, ops, prepared, ephemeral, claim>>
    ELSE /\ game' = [status |-> r.status,
                     join |-> IF r.join = None THEN game.join ELSE r.join,
                     reveals |-> IF r.reveals = <<>> THEN game.reveals ELSE r.reveals,
                     refunds |-> IF r.refunds = {} THEN game.refunds ELSE r.refunds,
                     auto |-> IF r.auto = None THEN game.auto ELSE r.auto,
                     completed |-> TRUE]
         /\ ops' = [t \in {x \in DOMAIN ops : ~OfGame(x)} |-> ops[t]]
         /\ prepared' = {}
         /\ ephemeral' = {}
         /\ claim' = None

SaveRefreshed(h) ==
    /\ proc[h].pc = "save"
    /\ LET r == proc[h].seen
       IN IF r.status \in TerminalStatuses
          THEN Complete(r)
          ELSE game' = r /\ UNCHANGED <<ops, prepared, ephemeral, claim>>
    /\ IF proc[h].task = "keep" /\ proc[h].todo = <<>>
       THEN proc' = [proc EXCEPT ![h] = Idle]
       ELSE Goto(h, "refresh")
    /\ UNCHANGED <<chainVars, lock, up, faults>>

\* deriveGameStatus, with the confirmation readGame asks the chain for.
DerivedStatus(r) ==
    CASE r.status \in TerminalStatuses \ {"settled"} -> r.status
      [] r.auto # None /\ r.auto.status = "broadcast" -> BroadcastStatus(r.auto.tx.kind)
      [] OTHER ->
         LET kinds(I) == {r.reveals[i].tx.kind : i \in I}
         IN CASE "settlement" \in kinds(Confirmed(r)) -> "settled"
              [] Confirmed(r) # {} -> "first_revealed"
              [] "settlement" \in kinds(Pending(r)) -> "settlement_broadcast"
              [] Pending(r) # {} -> "reveal_broadcast"
              [] PendingRefunds(r) # {} -> "creator_refund_broadcast"
              [] r.join # None -> IF Unspent(r.join) THEN "joined" ELSE r.status
              [] Unspent(CreationTx) -> "waiting_for_player_b"
              [] OTHER -> IF Listed(CreationTx) THEN "observed" ELSE "stale"

ReadTail(h) ==
    /\ proc[h].pc = "tail" /\ proc[h].task = "read"
    /\ LET status == DerivedStatus(proc[h].seen)
       IN IF status = proc[h].seen.status
          THEN proc' = [proc EXCEPT ![h] = Idle]
          ELSE proc' = [proc EXCEPT ![h].pc = "updateStatus", ![h].status = status]
    /\ UNCHANGED <<chainVars, storeVars, memory, up, faults>>

\* A mutant of UpdateStatus: saveGame({ ...seen, status }).
UpdateStatusOfSnapshot(h) ==
    /\ proc[h].pc = "updateStatus"
    /\ game' = [proc[h].seen EXCEPT !.status = proc[h].status]
    /\ proc' = [proc EXCEPT ![h] = Idle]
    /\ UNCHANGED <<chainVars, ops, prepared, memory, up, faults>>

\* updateGame: only the status, and only if nobody else moved it.
UpdateStatus(h) ==
    /\ proc[h].pc = "updateStatus"
    /\ game' = IF game.status = proc[h].seen.status
               THEN [game EXCEPT !.status = proc[h].status]
               ELSE game
    /\ proc' = [proc EXCEPT ![h] = Idle]
    /\ UNCHANGED <<chainVars, ops, prepared, memory, up, faults>>

-----------------------------------------------------------------------------
(***************************************************************************)
(* Preparing                                                               *)
(***************************************************************************)
PrepareJoin(p) ==
    /\ up
    /\ "join" \in Clients
    /\ game # None
    /\ game.join = None
    /\ Joinable(game)
    /\ OpStatus(CreationTx) \in {"broadcast", "none"}
    /\ ~expired
    /\ \E n \in 1..MaxPreparations :
          prepared' = prepared \cup {Tx("join", p, n, CreationTx)}
    /\ UNCHANGED <<chainVars, game, ops, memory, proc, up, faults>>

\* #assertMayLeadReveal.
MayLead(r, p) ==
    /\ \A i \in 1..Len(r.reveals) :
          LET e == r.reveals[i]
          IN ~(e.status # "confirmed" /\ e.tx.kind = "first" /\ e.tx.by # p)
    /\ claim \in {None, p}

\* The end of prepareReveal.  It may also fail for reasons that do not show
\* here: the player's own pending attempt is too young, or it has no funding.
PrepareRevealTail(h) ==
    /\ proc[h].pc = "tail" /\ proc[h].task = "prepareReveal"
    /\ LET r == proc[h].seen
           p == proc[h].by
           revealed == Confirmed(r)
           lead == revealed = {}
           output == IF lead THEN r.join ELSE FirstConfirmed(r)
           allowed == /\ r.status # "settled"
                      /\ \A i \in revealed : r.reveals[i].tx.by # p
                      /\ lead => MayLead(r, p)
                      /\ Listed(output)
       IN \/ /\ allowed
             /\ \E n \in 1..MaxPreparations :
                   ephemeral' = ephemeral \cup
                      {Tx(IF lead THEN "first" ELSE "settlement", p, n, output)}
             /\ claim' = IF lead THEN p ELSE claim
          \/ UNCHANGED <<ephemeral, claim>>
    /\ Finish(h)
    /\ UNCHANGED <<chainVars, storeVars, up, faults>>

\* REVEAL_CLAIM_TTL_MS passes.
ClaimExpires ==
    /\ claim # None
    /\ claim' = None
    /\ UNCHANGED <<chainVars, storeVars, ephemeral, lock, proc, up, faults>>

\* The end of prepareSafetyAction.
PrepareRefundTail(h) ==
    /\ proc[h].pc = "tail" /\ proc[h].task = "prepareRefund"
    /\ LET allowed == proc[h].seen.join = None /\ Unspent(CreationTx)
       IN \/ /\ allowed
             /\ \E n \in 1..MaxPreparations :
                   prepared' = prepared \cup {Tx("creator_refund", Creator, n, CreationTx)}
          \/ UNCHANGED prepared
    /\ proc' = [proc EXCEPT ![h] = Idle]
    /\ UNCHANGED <<chainVars, game, ops, memory, up, faults>>

-----------------------------------------------------------------------------
(***************************************************************************)
(* The keeper, the reconciler and the server                               *)
(***************************************************************************)
\* A mutant of DueTimeout: a game nobody joined is left alone.
NoOpenRefund(r) ==
    LET lead == Confirmed(r) = {}
        output == IF lead THEN r.join ELSE FirstConfirmed(r)
        kind == IF lead THEN "refund_all" ELSE "fallback_claim"
    IN IF r.join # None /\ Listed(output) /\ (Unspent(output) => aged)
       THEN {Tx(kind, Keeper, IF Unspent(output) THEN 1 ELSE 2, output)} ELSE {}

\* A mutant of DueTimeout: the first revealer has to claim by hand.
NoFallbackClaim(r) ==
    LET output == IF r.join = None THEN CreationTx ELSE r.join
        kind == IF r.join = None THEN "refund_open" ELSE "refund_all"
        due == IF r.join = None THEN Unspent(output) /\ expired
               ELSE Confirmed(r) = {} /\ Listed(output) /\ (Unspent(output) => aged)
    IN IF due THEN {Tx(kind, Keeper, IF Unspent(output) THEN 1 ELSE 2, output)} ELSE {}

\* The timeout that is due for the record r, if any.  An output still in the
\* mempool has DAA score 0 and so looks old enough; its score is part of the
\* transaction's JSON, hence of its identity.
DueTimeout(r) ==
    LET lead == Confirmed(r) = {}
        output == IF r.join = None THEN CreationTx
                  ELSE IF lead THEN r.join ELSE FirstConfirmed(r)
        kind == IF r.join = None THEN "refund_open"
                ELSE IF lead THEN "refund_all" ELSE "fallback_claim"
        due == IF kind = "refund_open" THEN Unspent(output) /\ expired
               ELSE Listed(output) /\ (Unspent(output) => aged)
    IN IF due THEN {Tx(kind, Keeper, IF Unspent(output) THEN 1 ELSE 2, output)} ELSE {}

\* settleAutomaticGames after its refreshes.  The transaction it built may need
\* more than the reserved fee, which depends on its mass and on the network's
\* fee rate: #validateAutomaticFee then sends nothing this time.
KeepTail ==
    /\ proc[Keeper].pc = "tail"
    /\ LET r == proc[Keeper].seen
           stop == proc' = [proc EXCEPT ![Keeper] = Idle]
           watching == r.auto # None /\ r.auto.status = "broadcast"
       IN CASE watching \/ Cardinality(Confirmed(r)) > 1 ->
                 stop /\ UNCHANGED <<storeVars, ephemeral, claim>>
            [] ~watching /\ Cardinality(Confirmed(r)) <= 1 /\ r.status \in TerminalStatuses ->
                 Complete(r) /\ stop
            [] OTHER ->
                 /\ UNCHANGED <<storeVars, ephemeral>>
                 /\ \/ stop /\ UNCHANGED claim
                    \/ \E t \in DueTimeout(r) : Dispatch(Keeper, "keep", t, r)
    /\ UNCHANGED <<chainVars, lock, up, faults>>

\* A mutant of Unrecorded: only creations are reconciled.
UnrecordedCreation(t) ==
    OpStatus(t) = "broadcast" /\ t.kind = "creation" /\ game = None /\ t \in prepared

\* An operation the node took whose record was never written.
Unrecorded(t) ==
    /\ OpStatus(t) = "broadcast"
    /\ CASE t.kind = "creation" -> game = None /\ t \in prepared
         [] t.kind = "join" -> game # None /\ game.join = None
         [] t.kind = "creator_refund" -> game # None /\ \A e \in game.refunds : e.tx # t
         [] t.kind \in KeeperKinds -> game # None /\ (game.auto # None => game.auto.tx # t)
         [] OTHER -> FALSE

\* reconcilePendingSubmissions, for one operation.  It waits for the store
\* only, never for the node or a client, so that its reads and its write are
\* one step here; and an operation whose own handler is one store call away
\* from the record is left to it, since both write the same.
Reconcile ==
    /\ \E t \in DOMAIN ops :
          /\ Unrecorded(t)
          /\ \A h \in Procs : ~(proc[h].pc = "record" /\ proc[h].tx = t)
          /\ game' = Recorded(game, t)
    /\ UNCHANGED <<chainVars, ops, prepared, memory, proc, up, faults>>

\* The process dies with everything it held in memory.  An outage longer than
\* PREPARATION_RETENTION_MS also costs stored preparations, the oldest first:
\* the creation's before those of the game it opened.
Crash ==
    /\ faults.crashes < MaxCrashes
    /\ faults' = [faults EXCEPT !.crashes = @ + 1]
    /\ proc' = [h \in Procs |-> Idle]
    /\ ephemeral' = {} /\ claim' = None /\ lock' = None
    /\ prepared' \in {q \in SUBSET prepared :
                        q = prepared \/ (LongOutages /\ CreationTx \notin q)}
    /\ up' = FALSE
    /\ UNCHANGED <<chainVars, game, ops>>

\* server.js: the store is opened and the submissions reconciled before the
\* schedulers start and the server listens.
Restart ==
    /\ ~up
    /\ \A t \in DOMAIN ops : ~Unrecorded(t)
    /\ up' = TRUE
    /\ UNCHANGED <<chainVars, storeVars, memory, proc, faults>>

Environment ==
    /\ \/ (Mine \/ DeadlinePasses \/ AgePasses) /\ UNCHANGED faults
       \/ "spend" \in Clients /\ SpendPayout /\ UNCHANGED faults
       \/ /\ faults.drops < MaxDrops
          /\ faults' = [faults EXCEPT !.drops = @ + 1]
          /\ Drop
    /\ UNCHANGED <<storeVars, memory, proc, up>>

JoinTx == Tx("join", CHOOSE p \in Joiners : TRUE, 1, CreationTx)

\* The game so far: nothing but a prepared creation, a creation the network
\* confirmed, or a join it confirmed.
History ==
    CASE Start = "prepared" -> <<>>
      [] Start = "created" -> <<CreationTx>>
      [] Start = "joined" -> <<CreationTx, JoinTx>>

Init ==
    /\ lineage = History
    /\ mined = Len(History)
    /\ expired = FALSE /\ aged = FALSE /\ cashed = FALSE
    /\ game = CASE Start = "prepared" -> None
                [] Start = "created" -> NewGame
                [] Start = "joined" -> Recorded(NewGame, JoinTx)
    /\ ops = [t \in ToSet(History) |-> "broadcast"]
    /\ prepared = {CreationTx} \cup ToSet(History)
    /\ ephemeral = {} /\ claim = None /\ lock = None
    /\ proc = [h \in Procs |-> Idle]
    /\ up = TRUE
    /\ faults = [resubmits |-> 0, crashes |-> 0, lost |-> 0, drops |-> 0]

\* What a handler does next, once it is running.
Step(h) ==
    \/ ClaimOperation(h) \/ Send(h) \/ SaveBroadcast(h) \/ SaveFailed(h) \/ Record(h)
    \/ Observe(h) \/ SaveRefreshed(h) \/ ReadTail(h) \/ UpdateStatus(h)
    \/ PrepareRevealTail(h) \/ PrepareRefundTail(h)
    \/ h = Keeper /\ KeepTail

Next ==
    \/ \E s \in Slots :
          \/ \E t \in prepared \cup ephemeral : Submit(s, t)
          \/ StartRead(s)
          \/ StartPrepareRefund(s)
          \/ \E p \in Players : StartPrepareReveal(s, p)
    \/ \E p \in Joiners : PrepareJoin(p)
    \/ \E h \in Procs : Step(h)
    \/ StartKeep
    \/ Reconcile
    \/ ClaimExpires
    \/ Crash
    \/ Restart
    \/ Environment

Spec == Init /\ [][Next]_vars

BlocksGoOn ==
    /\ Mine \/ DeadlinePasses \/ AgePasses
    /\ UNCHANGED <<storeVars, memory, proc, up, faults>>

KeeperSends == KeepTail /\ proc'[Keeper].pc \in {"claim", "record"}

\* Handlers run to their end, the schedulers keep starting the keeper and the
\* reconciler, the network does not ask for more than the reserved fee for
\* ever, and the chain moves on.  No client is obliged to do anything.
Fairness ==
    /\ \A h \in Procs : WF_vars(Step(h))
    /\ SF_vars(KeeperSends)
    /\ WF_vars(StartKeep)
    /\ WF_vars(Reconcile)
    /\ WF_vars(Restart)
    /\ WF_vars(BlocksGoOn)

FairSpec == Spec /\ Fairness

-----------------------------------------------------------------------------
(***************************************************************************)
(* Properties                                                              *)
(***************************************************************************)
Statuses ==
    {BroadcastStatus(kind) : kind \in Kinds} \cup TerminalStatuses
        \cup {"waiting_for_player_b", "observed", "stale", "joined", "first_revealed"}

\* Every variable has its type.
TypeOK ==
    /\ mined \in 0..Len(lineage)
    /\ \A i \in 1..Len(lineage) : lineage[i].kind \in Kinds
    /\ expired \in BOOLEAN /\ aged \in BOOLEAN /\ cashed \in BOOLEAN
    /\ game # None =>
          /\ game.status \in Statuses
          /\ game.join # None => game.join.kind = "join"
          /\ \A e \in ToSet(game.reveals) : e.tx.kind \in {"first", "settlement"}
          /\ \A e \in game.refunds : e.tx.kind = "creator_refund"
          /\ game.auto # None => game.auto.tx.kind \in KeeperKinds
          /\ game.completed \in BOOLEAN
    /\ \A t \in DOMAIN ops : t.kind \in Kinds /\ ops[t] \in {"submitting", "broadcast", "failed"}
    /\ \A t \in prepared : t.kind \in {"creation", "join", "creator_refund"}
    /\ \A t \in ephemeral : t.kind \in {"first", "settlement"}
    /\ claim \in Players \cup {None}
    /\ lock \in Slots \cup {None}
    /\ up \in BOOLEAN

\* A player's transaction the record calls confirmed is in a block, whatever
\* was retried, lost, dropped or forgotten in a restart: the record follows
\* the chain, not the submissions (#refreshActionState, #refreshSafetyState).
ConfirmedIsMined ==
    game # None =>
        \A e \in ToSet(game.reveals) \cup game.refunds :
            e.status = "confirmed" => e.tx \in Mined

\* A record is closed for good only when the chain closed the game, by the
\* keeper or by a player: an output in the mempool "is visible but not mined,
\* so it must not count as confirmed" (backend-game-service.js:1400-1402).
CompletedIsOver ==
    game # None /\ game.completed => Closed

\* That goes wrong for a timeout in the mempool (#refreshAutomaticSettlement)
\* and nowhere else: as long as the mempool forgets nothing, a record is closed
\* only when a player's settlement or refund is in a block or the node took the
\* keeper's timeout, so that no other transaction can spend the escrow.
CompletedOnceSpent ==
    game # None /\ game.completed /\ faults.drops = 0 =>
        Closed \/ (lineage # <<>> /\ Tip.kind \in KeeperKinds)

\* Nobody who read the record before the join - a status read, a refresh, a
\* refund, the keeper, the reconciler - writes it back without the join, once
\* the joiner's stake is in the escrow (updateGame,
\* backend-game-service.js:769-773).
JoinNeverForgotten ==
    [][game # None /\ game.join # None /\ game.join \in Accepted => game'.join = game.join]_vars

\* A creation or join that the operation log calls broadcast and that was
\* mined ends up in the game record, even when the server dies between the two
\* writes (reconcilePendingSubmissions) - unless an outage outlived what was
\* prepared, or the mempool forgot a transaction, so that another took its
\* place.
NothingLost(T) == T \subseteq prepared /\ faults.drops = 0

BroadcastIsRecorded ==
    /\ OpStatus(CreationTx) = "broadcast" /\ CreationTx \in Mined
          ~> game # None \/ ~NothingLost({CreationTx})
    /\ \A p \in Joiners, n \in 1..MaxPreparations :
          LET t == Tx("join", p, n, CreationTx)
          IN OpStatus(t) = "broadcast" /\ t \in Mined
                ~> (game # None /\ game.join = t) \/ ~NothingLost({CreationTx, t})

\* "A crash window never strands a creation or join that already reached the
\* network" (server-schedulers.js:46-48).
CreationNeverStranded ==
    CreationTx \in Accepted ~> game # None

\* Whatever the players do or leave undone, the escrow of a recorded game is
\* spent in the end: the keeper covers every timeout (architecture.md:82-83).
EscrowReleased ==
    (game # None /\ CreationTx \in Mined) ~> Closed

\* A recorded game comes to its end on the chain and in the record, also one
\* that nobody reads any more (backend-game-service.js:458-460), unless the
\* payout was spent before the backend looked: it asks for the payout, unspent,
\* and a record that missed it stays open for ever.
GameIsConcluded ==
    (game # None /\ CreationTx \in Mined)
        ~> (Closed /\ game # None /\ (game.completed \/ cashed))
=============================================================================
