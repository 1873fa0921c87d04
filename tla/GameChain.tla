----------------------------- MODULE GameChain -----------------------------
(***************************************************************************)
(* The network as the backend sees it through chain-adapter.js: the        *)
(* transactions that spend one game's covenant output, one after another,  *)
(* in mempool or in a block.                                               *)
(*                                                                         *)
(* `lineage` is the sequence of transactions the node accepted, each       *)
(* spending the covenant output of the one before; the first `mined` of    *)
(* them are in a block and one DAA score old.  An amount never matters     *)
(* here: KasOddsCovenant is about amounts.                                 *)
(***************************************************************************)
EXTENDS Naturals, Sequences

CONSTANTS
    Creator,        \* the wallet that funds the game
    Joiners,        \* the other wallets
    Keeper,         \* the author of permissionless spends
    None,
    MaxPreparations \* different transactions one wallet builds per purpose

\* There is somebody to play with, and nobody plays alone.
ASSUME JoinersAssumption == Joiners # {} /\ Creator \notin Joiners

Players == {Creator} \cup Joiners

\* Covenant entries by the transaction that uses them.  "first" and
\* "settlement" are the two uses of entry reveal.
PlayerKinds == {"creation", "join", "creator_refund", "first", "settlement"}
KeeperKinds == {"refund_open", "refund_all", "fallback_claim"}
Kinds == PlayerKinds \cup KeeperKinds

\* Kinds that leave no covenant output behind.
TerminalKinds == {"creator_refund", "settlement"} \cup KeeperKinds

\* The output a kind spends: that of a transaction of kind Parent(kind).
Parent(kind) ==
    CASE kind = "creation" -> "nothing"
      [] kind \in {"join", "creator_refund", "refund_open"} -> "creation"
      [] kind \in {"first", "refund_all"} -> "join"
      [] kind \in {"settlement", "fallback_claim"} -> "first"

VARIABLES
    lineage,        \* accepted transactions
    mined,          \* how many of them are confirmed
    expired,        \* the DAA score reached deadline_daa
    aged,           \* the last mined output is 3000 DAA old
    cashed          \* the payout that ended the game was spent by its owner

chainVars == <<lineage, mined, expired, aged, cashed>>

\* A transaction: its kind, who built it, which of their builds it is, and
\* the transaction whose output it spends.
Tx(kind, by, n, on) == [kind |-> kind, by |-> by, n |-> n, on |-> on]

Accepted == {lineage[i] : i \in 1..Len(lineage)}
Mined == {lineage[i] : i \in 1..mined}
Tip == IF lineage = <<>> THEN None ELSE lineage[Len(lineage)]
LastMined == IF mined = 0 THEN None ELSE lineage[mined]

\* What the node lists for the covenant address of t: its output, from the
\* moment t is in the mempool (with DAA score 0) until a block spends it.
Listed(t) == t \in {lineage[i] : i \in mined..Len(lineage) \ {0}}

\* Listed, mined and one DAA score old (isDaaConfirmed).
Unspent(t) == t # None /\ LastMined = t

\* The player whose hash the covenant holds as joiner_hash.
JoinerOf(t) == IF t.kind = "join" THEN t.by ELSE t.on.by

\* require() statements of the entry, for a transaction on top of output o.
CovenantAllows(t, o) ==
    CASE t.kind = "creation" -> t.by = Creator
      [] t.kind = "join" -> t.by # Creator
      [] t.kind = "creator_refund" -> t.by = Creator
      [] t.kind = "first" -> t.by \in {Creator, JoinerOf(o)}
      [] t.kind = "settlement" -> t.by \in {Creator, JoinerOf(o)} \ {o.by}
      [] t.kind = "refund_open" -> expired
      [] t.kind \in {"refund_all", "fallback_claim"} -> aged /\ Unspent(o)

\* A mutant of Acceptable: the outputs fit and the script is not run.
AcceptableUnchecked(t) ==
    /\ t.on = Tip
    /\ t.kind = "creation" => lineage = <<>>
    /\ t.kind # "creation" => t.on # None /\ t.on.kind = Parent(t.kind)

\* The node takes t into its mempool: t spends the last output (a mempool
\* parent is fine) and the script succeeds.
Acceptable(t) ==
    /\ t.on = Tip
    /\ t.kind = "creation" => lineage = <<>>
    /\ t.kind # "creation" => t.on # None /\ t.on.kind = Parent(t.kind)
    /\ CovenantAllows(t, t.on)

Accept(t) ==
    /\ Acceptable(t)
    /\ lineage' = Append(lineage, t)
    /\ UNCHANGED <<mined, expired, aged, cashed>>

\* A block takes the next transaction and a further one confirms it.
Mine ==
    /\ mined < Len(lineage)
    /\ mined' = mined + 1
    /\ aged' = FALSE
    /\ UNCHANGED <<lineage, expired, cashed>>

DeadlinePasses ==
    /\ lineage # <<>>
    /\ ~expired
    /\ expired' = TRUE
    /\ UNCHANGED <<lineage, mined, aged, cashed>>

\* The last mined output reaches an age of 3000 DAA.
AgePasses ==
    /\ ~aged
    /\ LastMined # None /\ LastMined.kind \in {"join", "first"}
    /\ aged' = TRUE
    /\ UNCHANGED <<lineage, mined, expired, cashed>>

\* The mempool forgets the last transaction before it is mined.
Drop ==
    /\ mined < Len(lineage)
    /\ lineage' = SubSeq(lineage, 1, Len(lineage) - 1)
    /\ UNCHANGED <<mined, expired, aged, cashed>>

Closed == mined > 0 /\ lineage[mined].kind \in TerminalKinds

\* The winner, or a player who was paid back, uses the money.
SpendPayout ==
    /\ Closed
    /\ ~cashed
    /\ cashed' = TRUE
    /\ UNCHANGED <<lineage, mined, expired, aged>>

-----------------------------------------------------------------------------
(***************************************************************************)
(* The blocks as a history of the escrow                                   *)
(***************************************************************************)
\* A game whose creation is not mined yet waits like one whose creation is.
LastKind == IF mined = 0 THEN "creation" ELSE lineage[mined].kind

Phase ==
    CASE LastKind = "creation" -> "waiting"
      [] LastKind = "join" -> "joined"
      [] LastKind = "first" -> "revealed"
      [] OTHER -> "over"

\* Who built block i, if it is one of this kind.
AuthorOf(i, kind) == IF i \in 1..mined /\ lineage[i].kind = kind THEN lineage[i].by ELSE None

\* The entry of the script that a transaction uses which leaves no output.
EntryOf(kind) ==
    CASE kind = "creator_refund" -> "refund"
      [] kind = "settlement" -> "reveal"
      [] OTHER -> kind

Ending == IF LastKind \in TerminalKinds THEN EntryOf(LastKind) ELSE "none"

E == INSTANCE Escrow WITH
        Nobody <- None,
        phase <- Phase,
        joiner <- AuthorOf(2, "join"),
        leader <- AuthorOf(3, "first"),
        end <- Ending

\* Whatever is sent, dropped and sent again, the blocks tell a history that the
\* script allows (covenant/kasodds.sil): each transaction that is mined is the next
\* entry, by a player who may call it, and no timeout before its clock.
BlocksFollowTheScript == [][E!Next]_(E!vars)
=============================================================================
