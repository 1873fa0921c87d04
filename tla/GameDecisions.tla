--------------------------- MODULE GameDecisions ---------------------------
(***************************************************************************)
(* What the JavaScript says may be done with a game, next to the covenant  *)
(* that has the last word: the projection the pages are drawn from         *)
(* (src/game-projection.js), the decisions about reveals and claims        *)
(* (src/reveal.js, src/terminal-actions.js), the outputs the server builds *)
(* for them and the choice of the keeper (src/backend-game-service.js).    *)
(* None of it has state of its own.  The server's reading of the chain is  *)
(* taken to be up to date here, but for the moment it noticed a reveal;    *)
(* how it falls behind is in GameBackend.                                  *)
(***************************************************************************)
EXTENDS KasOddsCovenant

\* deriveGameStatus
GameStatus ==
    CASE status = 0 -> "waiting_for_player_b"
      [] status = 1 -> "joined"
      [] status = 2 -> "first_revealed"
      [] exit = "reveal" -> "settled"
      [] exit = "fallback_claim" -> "fallback_claimed"
      [] exit \in {"refund", "refund_open"} -> "creator_refunded"
      [] OTHER -> "refunded"

\* deriveAvailableActions
CanReveal == GameStatus \in {"joined", "first_revealed"}
CanCancel == GameStatus = "waiting_for_player_b"
AutomaticAction ==
    CASE GameStatus = "waiting_for_player_b" -> "refund_open"
      [] GameStatus = "joined" -> "refund_all"
      [] GameStatus = "first_revealed" -> "fallback_claim"
      [] OTHER -> "none"

\* How long ago the server may have noticed the first reveal.  It writes down
\* the DAA score of that moment, at least one after the score of the output; 0
\* stands for a reveal it has not noticed.
SinceNoticed == IF age = 0 THEN {0} ELSE IF age < Wait THEN 0..(age - 1) ELSE 0..Wait

\* safetyReadiness: what the countdown of the page runs to.  A refund counts from
\* the deadline or from the score of the output, a claim from the moment the
\* reveal was noticed.
Reached(current, readyAt) == current >= readyAt
Ready(action, noticed) ==
    CASE action = "refund_open" -> Reached(daa, Deadline)
      [] action = "refund_all" -> Reached(age, Wait)
      [] action = "fallback_claim" -> Reached(noticed, Wait)
      [] OTHER -> FALSE

\* settleAutomaticGames: the timeout the keeper sends.  The mutant counts from
\* one DAA score earlier.
SentEarly ==
    CASE status = 0 /\ daa >= Deadline -> "refund_open"
      [] status = 1 /\ age + 1 >= Wait -> "refund_all"
      [] status = 2 /\ age + 1 >= Wait -> "fallback_claim"
      [] OTHER -> "none"
Sent ==
    CASE status = 0 /\ daa >= Deadline -> "refund_open"
      [] status = 1 /\ age >= Wait -> "refund_all"
      [] status = 2 /\ age >= Wait -> "fallback_claim"
      [] OTHER -> "none"

-----------------------------------------------------------------------------
\* resolveReveal of player p, who has his secret.  An output is spent no
\* earlier than one DAA score after it was mined.
ResolveReveal(p) ==
    CASE p \notin {Creator, joiner} -> "refused"
      [] GameStatus \in {"settled", "fallback_claimed"} -> "settled"
      [] ~CanReveal \/ age = 0 -> "waiting_for_locks"
      [] p = first_revealer -> "already_revealed"
      [] OTHER -> "available"

\* resolveFallbackClaim: of the players only the first revealer.
ResolveFallbackClaim(p) ==
    CASE GameStatus = "settled" -> "already_complete"
      [] GameStatus = "fallback_claimed" -> "confirmed"
      [] first_revealer = NoPlayer -> "unavailable"
      [] p # first_revealer -> "refused"
      [] status = 3 \/ ~Reached(age, Wait) -> "unavailable"
      [] OTHER -> "available"

parityOutcome(creatorChoice, joinerChoice) ==
    IF (creatorChoice + joinerChoice) % 2 = (IF CreatorEven = 1 THEN 0 ELSE 1)
    THEN Creator ELSE joiner

\* #revealContinuation and #revealGameState: the choice of the player who
\* reveals, and the other's if he has; 0 if not.
ChoicesWith(p) ==
    [q \in {Creator, joiner} |-> IF q \in {p, first_revealer} THEN commit[q] ELSE 0]

\* The state the continuation of a first reveal is derived for.
Continuation(p) ==
    /\ status' = 2 /\ first_revealer' = p
    /\ creator_choice' = ChoicesWith(p)[Creator]
    /\ joiner_choice' = ChoicesWith(p)[joiner]
    /\ value' = gross_pot

\* Outputs of values, given as a function of the addresses paid.
Pay(outs) == paid' = [a \in Addresses |-> IF a \in DOMAIN outs THEN outs[a] ELSE 0]

PotTo(p, reserve) ==
    Pay([a \in {p, Wallet} |-> IF a = Wallet THEN GameFee ELSE gross_pot - GameFee - reserve])

\* validateRevealTemplate
RevealTemplate(p) ==
    IF first_revealer = NoPlayer THEN Continuation(p)
    ELSE PotTo(parityOutcome(ChoicesWith(p)[Creator], ChoicesWith(p)[joiner]), 0)

\* prepareOpenRefundTransaction, prepareRefundAllTransaction and
\* prepareFallbackClaimTransaction
TimeoutTemplate(action) ==
    CASE action = "refund_open" -> Pay([a \in {Creator} |-> Stake - SettleFee])
      [] action = "refund_all" -> Pay([a \in {Creator, joiner} |-> Stake - SettleFee \div 2])
      [] action = "fallback_claim" -> PotTo(first_revealer, SettleFee)

-----------------------------------------------------------------------------
(***************************************************************************)
(* Properties                                                              *)
(***************************************************************************)
MayReveal(p) == MayRevealFirst(p) \/ MayRevealSecond(p)
MayTimeout(action) ==
    CASE action = "refund_open" -> MayRefundOpen
      [] action = "refund_all" -> MayRefundAll
      [] action = "fallback_claim" -> MayFallbackClaim

\* What is offered a player, announced or sent is open, and what is open to
\* a player or a relayer is offered and sent, but for a block that is just
\* mined.  The countdown of a refund ends when the keeper sends it; that of a
\* claim no earlier, whenever the server noticed the reveal.
OffersAreOpen ==
    /\ \A p \in Players :
          IF ResolveReveal(p) = "available" THEN MayReveal(p) ELSE age > 0 => ~MayReveal(p)
    /\ \A p \in Players : ResolveFallbackClaim(p) = "available" => MayFallbackClaim
    /\ \A action \in {"refund_open", "refund_all", "fallback_claim"} :
          Sent = action <=> MayTimeout(action)
    /\ Sent \in {"none", AutomaticAction}
    /\ \A noticed \in SinceNoticed :
          /\ Ready(AutomaticAction, noticed) => Sent = AutomaticAction
          /\ Sent \notin {"none", "fallback_claim"} => Ready(Sent, noticed)
    /\ CanCancel <=> MayRefund

\* What the server builds for an entry is what the entry accepts, to the sompi.
OffersAreExact ==
    /\ \A p \in Players : RevealFirst(p) \/ RevealSecond(p) => RevealTemplate(p)
    /\ RefundOpen => TimeoutTemplate("refund_open")
    /\ RefundAll => TimeoutTemplate("refund_all")
    /\ FallbackClaim => TimeoutTemplate("fallback_claim")

\* The two programs agree before, at and after every step a game can take:
\* what the JavaScript offers is what the covenant accepts, with exactly these
\* outputs.  An entry of the covenant is a condition (May...) and one value for
\* every variable, so that its condition says when there is a transaction to
\* accept.
OffersAreTheCovenants == [][OffersAreOpen /\ OffersAreOpen' /\ OffersAreExact]_vars
=============================================================================
