-------------------------- MODULE GameBackendProofs --------------------------
(***************************************************************************)
(* The record of a game has its type and calls confirmed only what is in a *)
(* block, for any number of requests, crashes, lost answers and dropped    *)
(* transactions; it never forgets the join, as long as the mempool drops   *)
(* nothing and no creation is submitted twice; it is closed only when the  *)
(* escrow is as good as spent; and the blocks follow the script.           *)
(***************************************************************************)
EXTENDS GameBackend, Integers, FiniteSetTheorems, SequenceTheorems, WellFoundedInduction, TLAPS

-----------------------------------------------------------------------------
(***************************************************************************)
(* The inductive invariant                                                 *)
(***************************************************************************)
\* A transaction on the creation is the second one; only the creation is first.
OnCreation == {"join", "creator_refund", "refund_open"}

ChainOK ==
    /\ lineage \in Seq(ToSet(lineage))
    /\ mined \in 0..Len(lineage)
    /\ \A i \in 1..Len(lineage) :
          /\ lineage[i].kind \in Kinds
          /\ lineage[i].kind = "creation" => i = 1
          /\ lineage[i].kind \in OnCreation => i = 2
    /\ expired \in BOOLEAN /\ aged \in BOOLEAN /\ cashed \in BOOLEAN

EntryOK(e, M) ==
    /\ DOMAIN e = {"tx", "status"}
    /\ e.status = "confirmed" => e.tx \in M

\* A record, stored or held by a handler, when M is mined: nothing confirmed
\* that is not.
RecordOK(r, M) ==
    /\ DOMAIN r = {"status", "join", "reveals", "refunds", "auto", "completed"}
    /\ r.status \in Statuses
    /\ r.join # None => r.join.kind = "join"
    /\ r.reveals \in Seq(ToSet(r.reveals))
    /\ \A i \in 1..Len(r.reveals) :
          EntryOK(r.reveals[i], M) /\ r.reveals[i].tx.kind \in {"first", "settlement"}
    /\ \A e \in r.refunds : EntryOK(e, M) /\ e.tx.kind = "creator_refund"
    /\ r.auto # None =>
          /\ DOMAIN r.auto = {"tx", "status"}
          /\ r.auto.tx.kind \in KeeperKinds
    /\ r.completed \in BOOLEAN

StoreOK ==
    /\ game # None => RecordOK(game, Mined)
    /\ \A t \in DOMAIN ops : t.kind \in Kinds /\ ops[t] \in {"submitting", "broadcast", "failed"}
    /\ \A t \in prepared :
          t.kind \in {"creation", "join", "creator_refund"} /\ (t.kind = "creation" => t = CreationTx)
    /\ \A t \in ephemeral : t.kind \in {"first", "settlement"}
    /\ claim \in Players \cup {None}
    /\ lock \in Slots \cup {None}
    /\ up \in BOOLEAN
    /\ faults \in [resubmits : Nat, crashes : Nat, lost : Nat, drops : Nat]

Submitting == {"claim", "send", "saveBroadcast", "saveFailed", "record"}
Refreshing == {"refresh", "save", "tail", "updateStatus"}

\* What handler h in state p knows when the stored record is g and M is mined:
\* a handler that loaded a record holds one, and the record is still there.
HandlerOK(h, p, g, M) ==
    LET loaded == RecordOK(p.seen, M) /\ RecordOK(g, M)
    IN /\ DOMAIN p = {"pc", "task", "by", "tx", "seen", "todo", "status"}
       /\ p.pc \in {"idle"} \cup Submitting \cup Refreshing
       /\ p.pc \in Submitting =>
             /\ p.tx.kind \in Kinds
             /\ p.tx.kind = "creation" => p.tx = CreationTx
             /\ p.tx.kind # "creation" => loaded
             /\ h \notin Slots => p.tx.kind \in KeeperKinds
       /\ p.pc \in Refreshing => loaded /\ p.todo \in Seq({"reveals", "safety", "auto"})
       /\ p.pc = "updateStatus" => p.status \in Statuses
       /\ p.task = "prepareReveal" => p.by \in Players

ProcOK ==
    /\ DOMAIN proc = Procs
    /\ \A h \in Procs : HandlerOK(h, proc[h], game, Mined)

IInv == ChainOK /\ StoreOK /\ ProcOK

-----------------------------------------------------------------------------
(***************************************************************************)
(* Positions of a sequence                                                 *)
(***************************************************************************)
\* A non-empty set of numbers has a least one.
LEMMA LeastNumber ==
    ASSUME NEW I \in SUBSET Nat, I # {}
    PROVE  \E m \in I : \A i \in I : m <= i
<1> DEFINE less == OpToRel(<, Nat)
<1>1. IsWellFoundedOn(less, Nat)
  BY NatLessThanWellFounded
<1> HIDE DEF less
<1>2. PICK m \in I : \A i \in I : ~(<<i, m>> \in less)
  BY <1>1, WFMin, Zenon
<1>3. \A i \in I : <<i, m>> \in less <=> i < m
  BY DEF less, OpToRel
<1>4. m \in Nat /\ \A i \in I : i \in Nat /\ ~(i < m)
  BY <1>2, <1>3
<1>5. \A i \in I : m <= i
  BY <1>4
<1> QED
  BY <1>5

LEMMA MinIsLeast ==
    ASSUME NEW I \in SUBSET Nat, I # {}
    PROVE  Min(I) \in I /\ \A i \in I : Min(I) <= i
  BY LeastNumber DEF Min

\* A finite set of positions can be put in order.
InOrder(f, I) ==
    /\ f \in [1..Cardinality(I) -> I]
    /\ \A j, k \in 1..Cardinality(I) : j < k => f[j] < f[k]

LEMMA OrderExists ==
    ASSUME NEW I \in SUBSET Nat, IsFiniteSet(I)
    PROVE  \E f : InOrder(f, I)
<1> DEFINE Sizes == {n \in Nat : \E J \in SUBSET Nat :
                        IsFiniteSet(J) /\ Cardinality(J) = n /\ ~\E f : InOrder(f, J)}
<1>1. SUFFICES ASSUME Sizes # {} PROVE FALSE
  BY FS_CardinalityType
<1>2. PICK n \in Sizes : \A k \in Sizes : n <= k
  BY <1>1, LeastNumber
<1>3. PICK J \in SUBSET Nat : IsFiniteSet(J) /\ Cardinality(J) = n /\ ~\E f : InOrder(f, J)
  BY <1>2
<1>4. CASE J = {}
  <2>1. Cardinality(J) = 0
    BY <1>4, FS_EmptySet
  <2>2. InOrder([k \in 1..0 |-> k], J)
    BY <1>4, <2>1 DEF InOrder
  <2> QED
    BY <1>3, <2>2
<1>5. CASE J # {}
  <2>1. PICK m \in J : \A i \in J : m <= i
    BY <1>5, LeastNumber
  <2> DEFINE rest == J \ {m}
  <2>2. IsFiniteSet(rest) /\ Cardinality(rest) = n - 1 /\ n \in Nat /\ n - 1 \in Nat
    <3>1. IsFiniteSet(rest) /\ Cardinality(rest) = n - 1
      BY <1>3, <2>1, FS_RemoveElement
    <3>2. n \in Nat /\ Cardinality(rest) \in Nat
      BY <1>2, <3>1, FS_CardinalityType
    <3> QED
      BY <3>1, <3>2
  <2>3. PICK g : InOrder(g, rest)
    BY <1>2, <2>2
  <2> DEFINE f == [k \in 1..n |-> IF k = 1 THEN m ELSE g[k - 1]]
  <2>4. \A k \in 1..n : k # 1 => k - 1 \in 1..(n - 1)
    BY <2>2
  <2>5. \A k \in 1..(n - 1) : g[k] \in rest
    BY <2>2, <2>3 DEF InOrder
  <2>6. f \in [1..n -> J]
    BY <2>1, <2>4, <2>5
  <2>7. ASSUME NEW j \in 1..n, NEW k \in 1..n, j < k PROVE f[j] < f[k]
    <3>1. k # 1 /\ f[k] = g[k - 1] /\ g[k - 1] \in rest
      BY <2>2, <2>4, <2>5, <2>7
    <3>2. CASE j = 1
      <4>1. f[j] = m /\ m \in Nat /\ g[k - 1] \in Nat /\ g[k - 1] # m /\ m <= g[k - 1]
        BY <2>1, <3>1, <3>2
      <4> QED
        BY <3>1, <4>1
    <3>3. CASE j # 1
      <4>1. f[j] = g[j - 1] /\ j - 1 \in 1..(n - 1) /\ k - 1 \in 1..(n - 1) /\ j - 1 < k - 1
        BY <2>2, <2>4, <2>7, <3>1, <3>3
      <4>2. g[j - 1] < g[k - 1]
        BY <2>2, <2>3, <4>1 DEF InOrder
      <4> QED
        BY <3>1, <4>1, <4>2
    <3> QED
      BY <3>2, <3>3
  <2>8. InOrder(f, J)
    BY <1>3, <2>6, <2>7 DEF InOrder
  <2> QED
    BY <1>3, <2>8
<1> QED
  BY <1>4, <1>5

LEMMA ElementsOf ==
    ASSUME NEW q, NEW S, q \in Seq(S), NEW e \in ToSet(q)
    PROVE  \E i \in 1..Len(q) : e = q[i]
  BY DEF ToSet

\* A sequence has the type of its elements.
LEMMA SeqOfItsElements == ASSUME NEW S, NEW q \in Seq(S) PROVE q \in Seq(ToSet(q))
<1>1. q = [k \in 1..Len(q) |-> q[k]] /\ Len(q) \in Nat /\ DOMAIN q = 1..Len(q)
  OBVIOUS
<1>2. \A k \in 1..Len(q) : q[k] \in ToSet(q)
  BY <1>1 DEF ToSet
<1> QED
  BY <1>1, <1>2

\* What Those keeps was there.
LEMMA ThoseWereThere ==
    ASSUME NEW q, NEW n, n \in Nat, NEW I, I \subseteq 1..n
    PROVE  /\ \A k \in 1..Len(Those(q, I)) : \E i \in I : Those(q, I)[k] = q[i]
           /\ Those(q, I) \in Seq(ToSet(Those(q, I)))
<1>1. IsFiniteSet(I) /\ Cardinality(I) \in Nat /\ I \in SUBSET Nat
  <2>1. IsFiniteSet(1..n)
    BY FS_Interval
  <2>2. IsFiniteSet(I)
    BY <2>1, FS_Subset
  <2> QED
    BY <2>2, FS_CardinalityType
<1> DEFINE from == CHOOSE f \in [1..Cardinality(I) -> I] :
                      \A j, k \in 1..Cardinality(I) : j < k => f[j] < f[k]
<1>2. from \in [1..Cardinality(I) -> I]
  BY <1>1, OrderExists DEF InOrder
<1>3. Those(q, I) = [k \in 1..Cardinality(I) |-> q[from[k]]]
  BY DEF Those
<1> HIDE DEF from
<1>4. Those(q, I) \in Seq({q[i] : i \in I}) /\ Len(Those(q, I)) = Cardinality(I)
  BY <1>1, <1>2, <1>3
<1>5. \A k \in 1..Cardinality(I) : from[k] \in I /\ Those(q, I)[k] = q[from[k]]
  BY <1>2, <1>3
<1>6. Those(q, I) \in Seq(ToSet(Those(q, I)))
  BY <1>4, SeqOfItsElements
<1> QED
  BY <1>4, <1>5, <1>6

\* A part of a sequence.
LEMMA PartOfSeq ==
    ASSUME NEW S, NEW q, q \in Seq(S), NEW a \in Nat, NEW b \in Nat, 1 <= a, a <= b + 1, b <= Len(q)
    PROVE  SubSeq(q, a, b) \in Seq(S) /\ Len(SubSeq(q, a, b)) = b + 1 - a
<1>1. a \in Int /\ b \in Int /\ \A i \in a..b : q[i] \in S
  OBVIOUS
<1>2. SubSeq(q, a, b) \in Seq(S)
  BY <1>1, SubSeqProperties, Zenon
<1>3. Len(SubSeq(q, a, b)) = b + 1 - a
  OBVIOUS
<1> QED
  BY <1>2, <1>3

-----------------------------------------------------------------------------
(***************************************************************************)
(* Records                                                                 *)
(***************************************************************************)
\* A block does not undo what an earlier one holds.
LEMMA RecordStays ==
    ASSUME NEW r, NEW M, NEW N, M \subseteq N, RecordOK(r, M)
    PROVE  RecordOK(r, N)
  BY DEF RecordOK, EntryOK

LEMMA StatusKnown ==
    /\ TerminalStatuses \subseteq Statuses
    /\ \A kind \in Kinds : BroadcastStatus(kind) \in Statuses
    /\ {"broadcast", "observed", "stale", "joined", "waiting_for_player_b", "first_revealed", "settled",
        "creator_refunded", "settlement_broadcast", "reveal_broadcast", "creator_refund_broadcast"}
          \subseteq Statuses
    /\ \A kind \in KeeperKinds : AutomaticOutcome(kind) \in TerminalStatuses
<1>1. \A kind \in Kinds : BroadcastStatus(kind) \in Statuses
  BY DEF Statuses
<1>2. /\ BroadcastStatus("creation") = "broadcast"
      /\ BroadcastStatus("settlement") = "settlement_broadcast"
      /\ BroadcastStatus("first") = "reveal_broadcast"
      /\ BroadcastStatus("creator_refund") = "creator_refund_broadcast"
  BY DEF BroadcastStatus
<1>3. {"creation", "settlement", "first", "creator_refund"} \subseteq Kinds
  BY DEF Kinds, PlayerKinds
<1>4. \A kind \in KeeperKinds : AutomaticOutcome(kind) \in TerminalStatuses
  BY DEF KeeperKinds, AutomaticOutcome, TerminalStatuses
<1> QED
  BY <1>1, <1>2, <1>3, <1>4 DEF Statuses, TerminalStatuses

LEMMA EntryIsPending == ASSUME NEW t, NEW M PROVE EntryOK(Entry(t), M) /\ Entry(t).tx = t
  BY DEF EntryOK, Entry

LEMMA NewGameOK == ASSUME NEW M PROVE RecordOK(NewGame, M)
<1>1. NewGame.status \in Statuses
  BY StatusKnown DEF NewGame
<1>2. <<>> \in Seq(ToSet(<<>>)) /\ Len(<<>>) = 0
  OBVIOUS
<1> QED
  BY <1>1, <1>2 DEF RecordOK, NewGame

\* A record with these fields.
Is(u, s, j, q, R, a, c) ==
    /\ DOMAIN u = {"status", "join", "reveals", "refunds", "auto", "completed"}
    /\ u.status = s /\ u.join = j /\ u.reveals = q /\ u.refunds = R /\ u.auto = a /\ u.completed = c

LEMMA Changed ==
    ASSUME NEW r, NEW M, RecordOK(r, M), NEW x, NEW y
    PROVE  /\ Is([r EXCEPT !.join = x, !.status = y], y, x, r.reveals, r.refunds, r.auto, r.completed)
           /\ Is([r EXCEPT !.reveals = x, !.status = y], y, r.join, x, r.refunds, r.auto, r.completed)
           /\ Is([r EXCEPT !.refunds = x, !.status = y], y, r.join, r.reveals, x, r.auto, r.completed)
           /\ Is([r EXCEPT !.auto = x, !.status = y], y, r.join, r.reveals, r.refunds, x, r.completed)
           /\ Is([r EXCEPT !.status = y], y, r.join, r.reveals, r.refunds, r.auto, r.completed)
<1>1. DOMAIN r = {"status", "join", "reveals", "refunds", "auto", "completed"}
  BY DEF RecordOK
<1>2. Is([r EXCEPT !.join = x, !.status = y], y, x, r.reveals, r.refunds, r.auto, r.completed)
  BY <1>1 DEF Is
<1>3. Is([r EXCEPT !.reveals = x, !.status = y], y, r.join, x, r.refunds, r.auto, r.completed)
  BY <1>1 DEF Is
<1>4. Is([r EXCEPT !.refunds = x, !.status = y], y, r.join, r.reveals, x, r.auto, r.completed)
  BY <1>1 DEF Is
<1>5. Is([r EXCEPT !.auto = x, !.status = y], y, r.join, r.reveals, r.refunds, x, r.completed)
  BY <1>1 DEF Is
<1>6. Is([r EXCEPT !.status = y], y, r.join, r.reveals, r.refunds, r.auto, r.completed)
  BY <1>1 DEF Is
<1> QED
  BY <1>2, <1>3, <1>4, <1>5, <1>6

\* A submission is recorded.
LEMMA RecordedIs ==
    ASSUME NEW r, NEW M, RecordOK(r, M), NEW t
    PROVE  LET s == BroadcastStatus(t.kind) IN
           /\ t.kind = "join" =>
                 Is(Recorded(r, t), s, t, r.reveals, r.refunds, r.auto, r.completed)
           /\ t.kind \in {"first", "settlement"} =>
                 Is(Recorded(r, t), s, r.join, Append(r.reveals, Entry(t)), r.refunds, r.auto, r.completed)
           /\ t.kind = "creator_refund" =>
                 Is(Recorded(r, t), s, r.join, r.reveals, r.refunds \cup {Entry(t)}, r.auto, r.completed)
           /\ t.kind \in KeeperKinds =>
                 Is(Recorded(r, t), s, r.join, r.reveals, r.refunds, Entry(t), r.completed)
<1> DEFINE s == BroadcastStatus(t.kind)
<1> HIDE DEF s
<1>1. CASE t.kind = "join"
  <2>1. Recorded(r, t) = [r EXCEPT !.join = t, !.status = s]
    BY <1>1 DEF Recorded, KeeperKinds, s
  <2>2. Is([r EXCEPT !.join = t, !.status = s], s, t, r.reveals, r.refunds, r.auto, r.completed)
    BY Changed
  <2>3. Is(Recorded(r, t), s, t, r.reveals, r.refunds, r.auto, r.completed)
    BY <2>1, <2>2
  <2> QED
    BY <1>1, <2>3 DEF KeeperKinds, s
<1>2. CASE t.kind \in {"first", "settlement"}
  <2>1. Recorded(r, t) = [r EXCEPT !.reveals = Append(r.reveals, Entry(t)), !.status = s]
    BY <1>2 DEF Recorded, KeeperKinds, s
  <2>2. Is([r EXCEPT !.reveals = Append(r.reveals, Entry(t)), !.status = s], s, r.join, Append(r.reveals, Entry(t)), r.refunds, r.auto, r.completed)
    BY Changed
  <2>3. Is(Recorded(r, t), s, r.join, Append(r.reveals, Entry(t)), r.refunds, r.auto, r.completed)
    BY <2>1, <2>2
  <2> QED
    BY <1>2, <2>3 DEF KeeperKinds, s
<1>3. CASE t.kind = "creator_refund"
  <2>1. Recorded(r, t) = [r EXCEPT !.refunds = r.refunds \cup {Entry(t)}, !.status = s]
    BY <1>3 DEF Recorded, KeeperKinds, s
  <2>2. Is([r EXCEPT !.refunds = r.refunds \cup {Entry(t)}, !.status = s], s, r.join, r.reveals, r.refunds \cup {Entry(t)}, r.auto, r.completed)
    BY Changed
  <2>3. Is(Recorded(r, t), s, r.join, r.reveals, r.refunds \cup {Entry(t)}, r.auto, r.completed)
    BY <2>1, <2>2
  <2> QED
    BY <1>3, <2>3 DEF KeeperKinds, s
<1>4. CASE t.kind \in KeeperKinds
  <2>1. Recorded(r, t) = [r EXCEPT !.auto = Entry(t), !.status = s]
    BY <1>4 DEF Recorded, KeeperKinds, s
  <2>2. Is([r EXCEPT !.auto = Entry(t), !.status = s], s, r.join, r.reveals, r.refunds, Entry(t), r.completed)
    BY Changed
  <2>3. Is(Recorded(r, t), s, r.join, r.reveals, r.refunds, Entry(t), r.completed)
    BY <2>1, <2>2
  <2> QED
    BY <1>4, <2>3 DEF KeeperKinds, s
<1> QED
  BY <1>1, <1>2, <1>3, <1>4

LEMMA RecordedCreation == ASSUME NEW r, NEW t, t.kind = "creation" PROVE Recorded(r, t) = NewGame
  BY DEF Recorded, KeeperKinds

LEMMA RecordedOK ==
    ASSUME NEW r, NEW t, NEW M, t.kind \in Kinds,
           t.kind # "creation" => RecordOK(r, M)
    PROVE  RecordOK(Recorded(r, t), M)
<1> DEFINE s == BroadcastStatus(t.kind)
<1>0. s \in Statuses
  BY StatusKnown
<1> HIDE DEF s
<1>1. CASE t.kind = "creation"
  BY <1>1, NewGameOK, RecordedCreation
<1>2. CASE t.kind = "join"
  <2>1. Is(Recorded(r, t), s, t, r.reveals, r.refunds, r.auto, r.completed)
    BY <1>2, RecordedIs DEF s
  <2> QED
    BY <1>0, <1>2, <2>1 DEF RecordOK, Is
<1>3. CASE t.kind \in {"first", "settlement"}
  <2> DEFINE q == Append(r.reveals, Entry(t))
  <2>1. Is(Recorded(r, t), s, r.join, q, r.refunds, r.auto, r.completed)
    BY <1>3, RecordedIs DEF s
  <2>2. RecordOK(r, M) /\ r.reveals \in Seq(ToSet(r.reveals))
    BY <1>3 DEF RecordOK
  <2>3. q \in Seq(ToSet(r.reveals) \cup {Entry(t)}) /\ Len(q) = Len(r.reveals) + 1 /\ Len(r.reveals) \in Nat
    BY <2>2
  <2>4. \A i \in 1..Len(q) : q[i] = IF i = Len(q) THEN Entry(t) ELSE r.reveals[i]
    BY <2>2
  <2> HIDE DEF q
  <2>5. \A i \in 1..Len(q) : EntryOK(q[i], M) /\ q[i].tx.kind \in {"first", "settlement"}
    <3> SUFFICES ASSUME NEW i \in 1..Len(q)
                 PROVE  EntryOK(q[i], M) /\ q[i].tx.kind \in {"first", "settlement"}
      OBVIOUS
    <3>1. CASE i = Len(q)
      BY <1>3, <2>4, <3>1, EntryIsPending
    <3>2. CASE i # Len(q)
      BY <2>2, <2>3, <2>4, <3>2 DEF RecordOK
    <3> QED
      BY <3>1, <3>2
  <2>6. q \in Seq(ToSet(q))
    BY <2>3, SeqOfItsElements
  <2> QED
    BY <1>0, <1>3, <2>1, <2>2, <2>5, <2>6 DEF RecordOK, Is
<1>4. CASE t.kind = "creator_refund"
  <2>1. Is(Recorded(r, t), s, r.join, r.reveals, r.refunds \cup {Entry(t)}, r.auto, r.completed)
    BY <1>4, RecordedIs DEF s
  <2> QED
    BY <1>0, <1>4, <2>1, EntryIsPending DEF RecordOK, Is
<1>5. CASE t.kind \in KeeperKinds
  <2>1. Is(Recorded(r, t), s, r.join, r.reveals, r.refunds, Entry(t), r.completed)
    BY <1>5, RecordedIs DEF s, KeeperKinds
  <2>2. DOMAIN Entry(t) = {"tx", "status"} /\ Entry(t).tx = t
    BY DEF Entry
  <2> QED
    BY <1>0, <1>5, <2>1, <2>2 DEF RecordOK, Is, KeeperKinds
<1> QED
  BY <1>1, <1>2, <1>3, <1>4, <1>5 DEF Kinds, PlayerKinds

-----------------------------------------------------------------------------
(***************************************************************************)
(* What the chain says of a record                                         *)
(***************************************************************************)
LEMMA UnspentIsMined ==
    ASSUME ChainOK, NEW t, Unspent(t)
    PROVE  t \in Mined
  BY DEF ChainOK, Unspent, LastMined, Mined

LEMMA LandedIsMined ==
    ASSUME ChainOK, NEW t, Landed(t)
    PROVE  t \in Mined
  BY UnspentIsMined DEF Landed

LEMMA EntryConfirmed ==
    ASSUME NEW e, NEW M, EntryOK(e, M), e.tx \in M
    PROVE  LET f == [e EXCEPT !.status = "confirmed"]
           IN EntryOK(f, M) /\ f.tx = e.tx
  BY DEF EntryOK

\* The chain ended the game: in a block, or by a timeout the node took.
EndOnChain ==
    \/ \E t \in Mined : t.kind \in TerminalKinds
    \/ \E t \in Accepted : t.kind \in KeeperKinds

LEMMA AfterRevealIs ==
    ASSUME ChainOK, NEW r, RecordOK(r, Mined), NEW i \in 1..Len(r.reveals), Landed(r.reveals[i].tx)
    PROVE  /\ RecordOK(AfterReveal(r, i), Mined)
           /\ AfterReveal(r, i).join = r.join
           /\ AfterReveal(r, i).completed = r.completed
           /\ AfterReveal(r, i).status = "first_revealed" \/ EndOnChain
           /\ r.reveals # <<>>
<1> DEFINE n == Len(r.reveals)
           stage == r.reveals[i].tx.kind
           kept == [j \in 1..n |->
                      IF j = i THEN [r.reveals[j] EXCEPT !.status = "confirmed"] ELSE r.reveals[j]]
           I == {j \in 1..Len(kept) : kept[j].status = "confirmed" \/ kept[j].tx.kind # stage}
           reveals == Those(kept, I)
           settled == \E j \in 1..Len(reveals) :
                         reveals[j].status = "confirmed" /\ reveals[j].tx.kind = "settlement"
           s == IF settled THEN "settled" ELSE "first_revealed"
           Good(e) == EntryOK(e, Mined) /\ e.tx.kind \in {"first", "settlement"}
<1>1. AfterReveal(r, i) = [r EXCEPT !.reveals = reveals, !.status = s]
  BY DEF AfterReveal
<1>2. n \in Nat /\ \A j \in 1..n : Good(r.reveals[j])
  BY DEF RecordOK
<1>3. Len(kept) = n /\ I \in SUBSET (1..n)
  BY <1>2
<1>4. \A j \in 1..n : Good(kept[j])
  <2> SUFFICES ASSUME NEW j \in 1..n PROVE Good(kept[j])
    OBVIOUS
  <2>1. CASE j = i
    <3>1. kept[j] = [r.reveals[j] EXCEPT !.status = "confirmed"]
      BY <2>1
    <3>2. r.reveals[j].tx \in Mined /\ Good(r.reveals[j])
      BY <1>2, <2>1, LandedIsMined
    <3> HIDE DEF kept
    <3> QED
      BY <3>1, <3>2, EntryConfirmed
  <2>2. CASE j # i
    BY <1>2, <2>2
  <2> QED
    BY <2>1, <2>2
<1> HIDE DEF n, stage, kept, I
<1>5. /\ \A k \in 1..Len(reveals) : \E j \in I : reveals[k] = kept[j]
      /\ reveals \in Seq(ToSet(reveals))
  <2>1. n \in Nat /\ I \subseteq 1..n
    BY <1>2, <1>3
  <2> QED
    BY <2>1, ThoseWereThere
<1> HIDE DEF reveals
<1>6. \A k \in 1..Len(reveals) : Good(reveals[k])
  BY <1>3, <1>4, <1>5
<1>7. s \in Statuses /\ (s = "first_revealed" \/ EndOnChain)
  <2>1. CASE settled
    <3>1. PICK j \in 1..Len(reveals) :
             reveals[j].status = "confirmed" /\ reveals[j].tx.kind = "settlement"
      BY <2>1
    <3>2. reveals[j].tx \in Mined /\ "settlement" \in TerminalKinds
      BY <1>6, <3>1 DEF EntryOK, TerminalKinds
    <3> QED
      BY <3>1, <3>2, StatusKnown DEF EndOnChain
  <2>2. CASE ~settled
    BY <2>2, StatusKnown
  <2> QED
    BY <2>1, <2>2
<1> HIDE DEF s
<1> USE DEF n
<1>8. Is(AfterReveal(r, i), s, r.join, reveals, r.refunds, r.auto, r.completed)
  <2>1. Is([r EXCEPT !.reveals = reveals, !.status = s], s, r.join, reveals, r.refunds, r.auto, r.completed)
    BY Changed
  <2> QED
    BY <1>1, <2>1
<1>9. /\ RecordOK(AfterReveal(r, i), Mined)
      /\ AfterReveal(r, i).join = r.join /\ AfterReveal(r, i).completed = r.completed
      /\ AfterReveal(r, i).status = s
  BY <1>5, <1>6, <1>7, <1>8 DEF RecordOK, Is
<1>10. r.reveals # <<>>
  OBVIOUS
<1> QED
  BY <1>7, <1>9, <1>10

LEMMA AfterRefundIs ==
    ASSUME ChainOK, NEW r, RecordOK(r, Mined), NEW e \in r.refunds, Landed(e.tx)
    PROVE  RecordOK(AfterRefund(r, e), Mined) /\ AfterRefund(r, e).status \in TerminalStatuses
           /\ AfterRefund(r, e).join = r.join /\ AfterRefund(r, e).reveals = r.reveals
           /\ AfterRefund(r, e).completed = r.completed
           /\ EndOnChain
<1> DEFINE f == [e EXCEPT !.status = "confirmed"]
           x == (r.refunds \ PendingRefunds(r)) \cup {f}
<1>1. AfterRefund(r, e) = [r EXCEPT !.refunds = x, !.status = "creator_refunded"]
  BY DEF AfterRefund
<1>2. EntryOK(e, Mined) /\ e.tx.kind = "creator_refund" /\ e.tx \in Mined
  BY LandedIsMined DEF RecordOK
<1>3. EntryOK(f, Mined) /\ f.tx = e.tx
  BY <1>2, EntryConfirmed
<1> HIDE DEF f
<1>4. \A d \in x : EntryOK(d, Mined) /\ d.tx.kind = "creator_refund"
  BY <1>2, <1>3 DEF RecordOK
<1> HIDE DEF x
<1>5. Is(AfterRefund(r, e), "creator_refunded", r.join, r.reveals, x, r.auto, r.completed)
  <2>1. Is([r EXCEPT !.refunds = x, !.status = "creator_refunded"],
           "creator_refunded", r.join, r.reveals, x, r.auto, r.completed)
    BY Changed
  <2> QED
    BY <1>1, <2>1
<1>6. EndOnChain
  BY <1>2 DEF EndOnChain, TerminalKinds
<1> QED
  BY <1>4, <1>5, <1>6, StatusKnown DEF RecordOK, Is, TerminalStatuses

LEMMA AfterAutomaticIs ==
    ASSUME NEW r, RecordOK(r, Mined), AutomaticLanded(r)
    PROVE  RecordOK(AfterAutomatic(r), Mined) /\ AfterAutomatic(r).status \in TerminalStatuses
           /\ AfterAutomatic(r).join = r.join /\ AfterAutomatic(r).reveals = r.reveals
           /\ AfterAutomatic(r).completed = r.completed
           /\ EndOnChain
<1> DEFINE s == AutomaticOutcome(r.auto.tx.kind)
           a == [r.auto EXCEPT !.status = "confirmed"]
<1>1. r.auto.tx.kind \in KeeperKinds /\ DOMAIN r.auto = {"tx", "status"}
  BY DEF RecordOK, AutomaticLanded
<1>2. s \in TerminalStatuses /\ s \in Statuses
  BY <1>1, StatusKnown
<1> HIDE DEF s
<1>3. DOMAIN a = {"tx", "status"} /\ a.tx = r.auto.tx
  BY <1>1
<1> HIDE DEF a
<1>4. AfterAutomatic(r) = [r EXCEPT !.auto = a, !.status = s]
  BY DEF AfterAutomatic, a, s
<1>5. Is(AfterAutomatic(r), s, r.join, r.reveals, r.refunds, a, r.completed)
  <2>1. Is([r EXCEPT !.auto = a, !.status = s], s, r.join, r.reveals, r.refunds, a, r.completed)
    BY Changed
  <2> QED
    BY <1>4, <2>1
<1>6. EndOnChain
  BY <1>1 DEF AutomaticLanded, EndOnChain
<1> QED
  BY <1>1, <1>2, <1>3, <1>5, <1>6 DEF RecordOK, Is

\* What a refresh finds is a record again, it never touches the join, and it
\* ends the game only with the chain.
LEMMA FindingsOK ==
    ASSUME ChainOK, NEW r, RecordOK(r, Mined), NEW phase \in {"reveals", "safety", "auto"},
           NEW f \in Findings(r, phase)
    PROVE  /\ RecordOK(f, Mined)
           /\ f.join = r.join
           /\ f.status \in TerminalStatuses \/ r.reveals # <<>>
           /\ f.reveals # <<>> => r.reveals # <<>>
           /\ f.completed = r.completed
           /\ f.status \in TerminalStatuses => EndOnChain
<1>0. "first_revealed" \notin TerminalStatuses
  BY DEF TerminalStatuses
<1>1. CASE phase = "reveals"
  <2> DEFINE landed == {i \in 1..Len(r.reveals) : r.reveals[i].status # "confirmed" /\ Landed(r.reveals[i].tx)}
  <2>1. landed # {} /\ f = AfterReveal(r, Min(landed))
    BY <1>1 DEF Findings
  <2>2. Min(landed) \in landed
    <3>1. landed \in SUBSET Nat
      OBVIOUS
    <3> QED
      BY <2>1, <3>1, MinIsLeast
  <2> QED
    BY <1>0, <2>1, <2>2, AfterRevealIs
<1>2. CASE phase = "safety"
  <2>1. PICK e \in PendingRefunds(r) : Landed(e.tx) /\ f = AfterRefund(r, e)
    BY <1>2 DEF Findings
  <2> QED
    BY <2>1, AfterRefundIs DEF PendingRefunds
<1>3. CASE phase = "auto"
  <2>1. AutomaticLanded(r) /\ f = AfterAutomatic(r)
    BY <1>3 DEF Findings
  <2> QED
    BY <2>1, AfterAutomaticIs
<1> QED
  BY <1>1, <1>2, <1>3

LEMMA DerivedStatusKnown ==
    ASSUME NEW r, RecordOK(r, Mined)
    PROVE  DerivedStatus(r) \in Statuses
<1>1. r.status \in Statuses
  BY DEF RecordOK
<1>2. r.auto # None => BroadcastStatus(r.auto.tx.kind) \in Statuses
  <2>1. KeeperKinds \subseteq Kinds
    BY DEF Kinds
  <2> QED
    BY <2>1, StatusKnown DEF RecordOK
<1> QED
  BY <1>1, <1>2, StatusKnown DEF DerivedStatus

LEMMA DueTimeoutIs ==
    ASSUME NEW r, NEW t \in DueTimeout(r)
    PROVE  t.kind \in KeeperKinds /\ (r.join = None => t.kind = "refund_open")
  BY DEF DueTimeout, Tx, KeeperKinds

LEMMA PhasesAre ==
    \A task \in {"read", "keep", "prepareReveal", "prepareRefund"} :
        Phases(task) \in Seq({"reveals", "safety", "auto"})
<1>1. <<"reveals", "auto", "safety">> \in Seq({"reveals", "safety", "auto"})
  OBVIOUS
<1>2. <<"reveals", "safety", "auto">> \in Seq({"reveals", "safety", "auto"})
  OBVIOUS
<1>3. <<"reveals">> \in Seq({"reveals", "safety", "auto"})
  OBVIOUS
<1>4. <<"reveals", "safety">> \in Seq({"reveals", "safety", "auto"})
  OBVIOUS
<1>5. /\ Phases("read") = <<"reveals", "auto", "safety">>
      /\ Phases("keep") = <<"reveals", "safety", "auto">>
      /\ Phases("prepareReveal") = <<"reveals">>
      /\ Phases("prepareRefund") = <<"reveals", "safety">>
  BY DEF Phases
<1> QED
  BY <1>1, <1>2, <1>3, <1>4, <1>5

-----------------------------------------------------------------------------
(***************************************************************************)
(* The chain                                                               *)
(***************************************************************************)
LEMMA ChainKept ==
    ASSUME ChainOK, UNCHANGED chainVars
    PROVE  ChainOK' /\ Mined' = Mined /\ Accepted' = Accepted
  BY DEF ChainOK, chainVars, Mined, Accepted

LEMMA AcceptOK ==
    ASSUME ChainOK, NEW t, t.kind \in Kinds, Accept(t)
    PROVE  ChainOK' /\ Mined' = Mined /\ Accepted' = Accepted \cup {t}
<1> DEFINE n == Len(lineage)
<1>1. lineage \in Seq(ToSet(lineage)) /\ n \in Nat /\ mined \in 0..n
  BY DEF ChainOK
<1>2. lineage' \in Seq(ToSet(lineage) \cup {t}) /\ Len(lineage') = n + 1
  BY <1>1 DEF Accept
<1>3. \A i \in 1..(n + 1) : lineage'[i] = IF i = n + 1 THEN t ELSE lineage[i]
  BY <1>1 DEF Accept
<1>4. lineage' \in Seq(ToSet(lineage'))
  BY <1>2, SeqOfItsElements
<1>5. t.kind = "creation" => n = 0
  BY DEF Accept, Acceptable
<1>6. t.kind \in OnCreation => n = 1
  <2> SUFFICES ASSUME t.kind \in OnCreation PROVE n = 1
    OBVIOUS
  <2>1. t.on = Tip /\ t.on # None /\ t.on.kind = "creation"
    BY DEF Accept, Acceptable, Parent, OnCreation
  <2>2. n # 0 /\ lineage[n].kind = "creation"
    BY <1>1, <2>1 DEF Tip
  <2>3. n \in 1..n
    BY <1>1, <2>2
  <2> QED
    BY <2>2, <2>3 DEF ChainOK
<1>7. mined' = mined /\ expired' = expired /\ aged' = aged /\ cashed' = cashed
  BY DEF Accept
<1>8. ChainOK'
  <2>1. ASSUME NEW i \in 1..(n + 1)
        PROVE  /\ lineage'[i].kind \in Kinds
               /\ lineage'[i].kind = "creation" => i = 1
               /\ lineage'[i].kind \in OnCreation => i = 2
    <3>1. CASE i = n + 1
      BY <1>1, <1>3, <1>5, <1>6, <3>1
    <3>2. CASE i # n + 1
      BY <1>1, <1>3, <3>2 DEF ChainOK
    <3> QED
      BY <3>1, <3>2
  <2> QED
    BY <1>1, <1>2, <1>4, <1>7, <2>1 DEF ChainOK
<1>9. Mined' = Mined
  <2>1. \A i \in 1..mined : lineage'[i] = lineage[i]
    BY <1>1, <1>3
  <2> QED
    BY <1>7, <2>1 DEF Mined
<1>10. Accepted' = Accepted \cup {t}
  <2> HIDE DEF n
  <2>1. Accepted' = {lineage'[i] : i \in 1..(n + 1)}
    BY <1>2 DEF Accepted
  <2>2. Accepted = {lineage[i] : i \in 1..n}
    BY DEF Accepted, n
  <2>3. ASSUME NEW x \in Accepted' PROVE x \in Accepted \cup {t}
    BY <1>1, <1>3, <2>1, <2>2
  <2>4. ASSUME NEW x \in Accepted \cup {t} PROVE x \in Accepted'
    BY <1>1, <1>3, <2>1, <2>2
  <2> QED
    BY <2>3, <2>4
<1> QED
  BY <1>8, <1>9, <1>10

\* The mempool forgets the last transaction.
LEMMA DropIs ==
    ASSUME ChainOK, Drop
    PROVE  LET n == Len(lineage)
           IN /\ n \in Nat /\ mined \in 0..n /\ mined < n
              /\ lineage' \in Seq(ToSet(lineage)) /\ Len(lineage') = n - 1
              /\ \A i \in 1..(n - 1) : lineage'[i] = lineage[i]
<1> DEFINE n == Len(lineage)
<1>1. lineage \in Seq(ToSet(lineage)) /\ n \in Nat /\ mined \in 0..n /\ mined < n
  BY DEF ChainOK, Drop
<1>2. lineage' \in Seq(ToSet(lineage)) /\ Len(lineage') = n - 1
  <2>1. n - 1 \in 0..n /\ lineage' = SubSeq(lineage, 1, n - 1)
    BY <1>1 DEF Drop
  <2> HIDE DEF n
  <2>2. SubSeq(lineage, 1, n - 1) \in Seq(ToSet(lineage)) /\ Len(SubSeq(lineage, 1, n - 1)) = n - 1
    <3> DEFINE k == n - 1
    <3>1. k \in Nat /\ 1 \in Nat /\ 1 <= 1 /\ 1 <= k + 1 /\ k <= Len(lineage) /\ k + 1 - 1 = k
      BY <1>1, <2>1 DEF n
    <3> HIDE DEF k
    <3>2. SubSeq(lineage, 1, k) \in Seq(ToSet(lineage)) /\ Len(SubSeq(lineage, 1, k)) = k
      BY <1>1, <3>1, PartOfSeq
    <3> QED
      BY <3>2 DEF k
  <2> QED
    BY <2>1, <2>2
<1>3. \A i \in 1..(n - 1) : lineage'[i] = lineage[i]
  BY <1>1 DEF Drop
<1> QED
  BY <1>1, <1>2, <1>3

\* What is mined stays mined.
LEMMA EnvironmentOK ==
    ASSUME ChainOK, Mine \/ DeadlinePasses \/ AgePasses \/ SpendPayout \/ Drop
    PROVE  ChainOK' /\ Mined \subseteq Mined'
<1>1. CASE Mine
  <2>1. ChainOK'
    <3>1. /\ lineage' = lineage /\ mined' \in 0..Len(lineage)
          /\ expired' = expired /\ aged' = FALSE /\ cashed' = cashed /\ Len(lineage) \in Nat
      BY <1>1 DEF ChainOK, Mine
    <3> QED
      BY <3>1 DEF ChainOK
  <2>2. Mined \subseteq Mined'
    BY <1>1 DEF ChainOK, Mine, Mined
  <2> QED
    BY <2>1, <2>2
<1>2. CASE DeadlinePasses \/ AgePasses \/ SpendPayout
  BY <1>2 DEF ChainOK, DeadlinePasses, AgePasses, SpendPayout, Mined
<1>3. CASE Drop
  <2> DEFINE n == Len(lineage)
  <2>1. n \in Nat /\ mined \in 0..n /\ mined < n
    BY <1>3, DropIs
  <2>2. lineage' \in Seq(ToSet(lineage)) /\ Len(lineage') = n - 1
    BY <1>3, DropIs
  <2>3. \A i \in 1..(n - 1) : lineage'[i] = lineage[i]
    BY <1>3, DropIs
  <2>4. lineage' \in Seq(ToSet(lineage'))
    BY <2>2, SeqOfItsElements
  <2>5. mined' = mined /\ expired' = expired /\ aged' = aged /\ cashed' = cashed
    BY <1>3 DEF Drop
  <2>6. ChainOK'
    BY <2>1, <2>2, <2>3, <2>4, <2>5 DEF ChainOK
  <2>7. Mined \subseteq Mined'
    BY <2>1, <2>3, <2>5 DEF Mined
  <2> QED
    BY <2>6, <2>7
<1> QED
  BY <1>1, <1>2, <1>3

-----------------------------------------------------------------------------
(***************************************************************************)
(* Handlers                                                                *)
(***************************************************************************)
LEMMA IdleOK == ASSUME NEW h, NEW g, NEW M PROVE HandlerOK(h, Idle, g, M)
  BY DEF HandlerOK, Idle, Submitting, Refreshing

\* What the other handlers know stays true.
LEMMA HandlerStays ==
    ASSUME NEW h, NEW p, NEW g, NEW f, NEW M, NEW N,
           HandlerOK(h, p, g, M), M \subseteq N, f = g \/ RecordOK(f, N)
    PROVE  HandlerOK(h, p, f, N)
<1>1. RecordOK(p.seen, M) /\ RecordOK(g, M) => RecordOK(p.seen, N) /\ RecordOK(f, N)
  BY RecordStays
<1> QED
  BY <1>1 DEF HandlerOK

LEMMA OneMoves ==
    ASSUME IInv, NEW h \in Procs, ChainOK', Mined \subseteq Mined', StoreOK',
           game' = game \/ RecordOK(game', Mined'),
           DOMAIN proc' = Procs, \A i \in Procs \ {h} : proc'[i] = proc[i],
           HandlerOK(h, proc'[h], game', Mined')
    PROVE  IInv'
<1>1. ASSUME NEW i \in Procs \ {h} PROVE HandlerOK(i, proc'[i], game', Mined')
  <2>1. HandlerOK(i, proc[i], game, Mined)
    BY <1>1 DEF IInv, ProcOK
  <2>2. HandlerOK(i, proc[i], game', Mined')
    BY <2>1, HandlerStays
  <2> QED
    BY <2>2
<1>2. \A i \in Procs : HandlerOK(i, proc'[i], game', Mined')
  BY <1>1
<1> QED
  BY <1>2 DEF IInv, ProcOK

LEMMA NoneMoves ==
    ASSUME IInv, ChainOK', Mined \subseteq Mined', StoreOK', UNCHANGED proc,
           game' = game \/ RecordOK(game', Mined')
    PROVE  IInv'
<1>1. ASSUME NEW i \in Procs PROVE HandlerOK(i, proc'[i], game', Mined')
  <2>1. HandlerOK(i, proc[i], game, Mined)
    BY DEF IInv, ProcOK
  <2>2. HandlerOK(i, proc[i], game', Mined')
    BY <2>1, HandlerStays
  <2> QED
    BY <2>2
<1> QED
  BY <1>1 DEF IInv, ProcOK

LEMMA GotoMoves ==
    ASSUME IInv, NEW h \in Procs, NEW pc, Goto(h, pc)
    PROVE  /\ DOMAIN proc' = Procs
           /\ \A i \in Procs \ {h} : proc'[i] = proc[i]
           /\ LET p == proc[h]  q == proc'[h]
              IN /\ DOMAIN q = {"pc", "task", "by", "tx", "seen", "todo", "status"}
                 /\ q.pc = pc /\ q.task = p.task /\ q.by = p.by /\ q.tx = p.tx
                 /\ q.seen = p.seen /\ q.todo = p.todo /\ q.status = p.status
<1>1. DOMAIN proc = Procs /\ DOMAIN proc[h] = {"pc", "task", "by", "tx", "seen", "todo", "status"}
  BY DEF IInv, ProcOK, HandlerOK
<1>2. DOMAIN proc' = Procs /\ \A i \in Procs \ {h} : proc'[i] = proc[i]
  BY <1>1 DEF Goto
<1>3. proc'[h] = [proc[h] EXCEPT !.pc = pc]
  BY <1>1 DEF Goto
<1> QED
  BY <1>1, <1>2, <1>3

LEMMA IdleMoves ==
    ASSUME IInv, NEW h \in Procs, proc' = [proc EXCEPT ![h] = Idle]
    PROVE  /\ DOMAIN proc' = Procs
           /\ \A i \in Procs \ {h} : proc'[i] = proc[i]
           /\ HandlerOK(h, proc'[h], game', Mined')
<1>1. DOMAIN proc = Procs
  BY DEF IInv, ProcOK
<1>2. DOMAIN proc' = Procs /\ (\A i \in Procs \ {h} : proc'[i] = proc[i]) /\ proc'[h] = Idle
  BY <1>1
<1>3. HandlerOK(h, Idle, game', Mined')
  BY IdleOK
<1> QED
  BY <1>2, <1>3

-----------------------------------------------------------------------------
(***************************************************************************)
(* The actions keep the inductive invariant                                *)
(***************************************************************************)
LEMMA ReleasedClaimOK == ASSUME StoreOK, NEW t PROVE ReleasedClaim(t) \in Players \cup {None}
  BY DEF StoreOK, ReleasedClaim

LEMMA SetOpOK ==
    ASSUME StoreOK, NEW t, t.kind \in Kinds, NEW s \in {"submitting", "broadcast", "failed"}, ops' = SetOp(t, s)
    PROVE  \A x \in DOMAIN ops' : x.kind \in Kinds /\ ops'[x] \in {"submitting", "broadcast", "failed"}
  BY DEF StoreOK, SetOp

LEMMA SubmitterOK ==
    ASSUME IInv, NEW h \in Procs, proc[h].pc \in Submitting
    PROVE  proc[h].tx.kind \in Kinds
  BY DEF IInv, ProcOK, HandlerOK

\* A submission starts, or is refused.
LEMMA DispatchIs ==
    ASSUME IInv, NEW h \in Procs, NEW task, NEW t, NEW r, Dispatch(h, task, t, r)
    PROVE  \/ proc' = [proc EXCEPT ![h] = Idle] /\ claim' = ReleasedClaim(t)
           \/ /\ claim' = claim
              /\ DOMAIN proc' = Procs
              /\ \A i \in Procs \ {h} : proc'[i] = proc[i]
              /\ DOMAIN proc'[h] = {"pc", "task", "by", "tx", "seen", "todo", "status"}
              /\ \/ proc'[h].pc = "record" /\ OpStatus(t) = "broadcast"
                 \/ proc'[h].pc = "claim" /\ OpStatus(t) \notin {"submitting", "broadcast"}
              /\ proc'[h].task = task /\ proc'[h].tx = t /\ proc'[h].seen = r
<1>1. CASE OpStatus(t) = "submitting"
  BY <1>1 DEF Dispatch
<1>2. CASE OpStatus(t) # "submitting"
  <2>1. PICK pc :
           /\ proc' = [proc EXCEPT ![h].pc = pc, ![h].task = task, ![h].tx = t, ![h].seen = r]
           /\ claim' = claim
           /\ \/ pc = "record" /\ OpStatus(t) = "broadcast"
              \/ pc = "claim" /\ OpStatus(t) # "broadcast"
    BY <1>2 DEF Dispatch
  <2>2. DOMAIN proc = Procs /\ DOMAIN proc[h] = {"pc", "task", "by", "tx", "seen", "todo", "status"}
    BY DEF IInv, ProcOK, HandlerOK
  <2>3. DOMAIN proc' = Procs /\ \A i \in Procs \ {h} : proc'[i] = proc[i]
    BY <2>1, <2>2
  <2>4. /\ DOMAIN proc'[h] = {"pc", "task", "by", "tx", "seen", "todo", "status"}
        /\ proc'[h].pc = pc /\ proc'[h].task = task /\ proc'[h].tx = t /\ proc'[h].seen = r
    BY <2>1, <2>2
  <2> QED
    BY <1>2, <2>1, <2>3, <2>4
<1> QED
  BY <1>1, <1>2

LEMMA DispatchOK ==
    ASSUME IInv, NEW h \in Procs, NEW task \in {"submit", "keep"}, NEW t, NEW r, Dispatch(h, task, t, r),
           UNCHANGED <<chainVars, game>>,
           t.kind \in Kinds, t.kind = "creation" => t = CreationTx,
           t.kind # "creation" => RecordOK(r, Mined) /\ RecordOK(game, Mined),
           h \notin Slots => t.kind \in KeeperKinds
    PROVE  /\ claim' \in Players \cup {None}
           /\ DOMAIN proc' = Procs
           /\ \A i \in Procs \ {h} : proc'[i] = proc[i]
           /\ HandlerOK(h, proc'[h], game', Mined')
<1>1. Mined' = Mined /\ StoreOK /\ claim \in Players \cup {None} /\ game' = game
  BY ChainKept DEF IInv, StoreOK
<1>2. CASE proc' = [proc EXCEPT ![h] = Idle] /\ claim' = ReleasedClaim(t)
  BY <1>1, <1>2, IdleMoves, ReleasedClaimOK
<1>3. CASE /\ claim' = claim
           /\ DOMAIN proc' = Procs
           /\ \A i \in Procs \ {h} : proc'[i] = proc[i]
           /\ DOMAIN proc'[h] = {"pc", "task", "by", "tx", "seen", "todo", "status"}
           /\ proc'[h].pc \in {"claim", "record"}
           /\ proc'[h].task = task /\ proc'[h].tx = t /\ proc'[h].seen = r
  <2>1. HandlerOK(h, proc'[h], game', Mined')
    BY <1>1, <1>3 DEF HandlerOK, Submitting, Refreshing
  <2> QED
    BY <1>1, <1>3, <2>1
<1> QED
  BY <1>2, <1>3, DispatchIs

LEMMA SubmitOK ==
    ASSUME IInv, NEW s \in Slots, NEW t \in prepared \cup ephemeral, Submit(s, t)
    PROVE  IInv'
<1>1. ChainOK' /\ Mined' = Mined
  BY ChainKept DEF IInv, Submit
<1>2. s \in Procs /\ Dispatch(s, "submit", t, game) /\ UNCHANGED <<chainVars, game>>
  BY DEF Submit, Procs, storeVars
<1>3. /\ t.kind \in Kinds
      /\ t.kind = "creation" => t = CreationTx
  <2>1. \/ t.kind \in {"creation", "join", "creator_refund"} /\ (t.kind = "creation" => t = CreationTx)
        \/ t.kind \in {"first", "settlement"}
    BY DEF IInv, StoreOK
  <2> QED
    BY <2>1 DEF Kinds, PlayerKinds
<1>4. t.kind # "creation" => RecordOK(game, Mined)
  <2>1. t.kind \in {"creation", "join", "creator_refund", "first", "settlement"}
    BY DEF IInv, StoreOK
  <2> QED
    BY <2>1 DEF Submit, MaySubmit, IInv, StoreOK
<1>5. /\ claim' \in Players \cup {None}
      /\ DOMAIN proc' = Procs
      /\ \A i \in Procs \ {s} : proc'[i] = proc[i]
      /\ HandlerOK(s, proc'[s], game', Mined')
  BY <1>2, <1>3, <1>4, DispatchOK
<1>6. faults' \in [resubmits : Nat, crashes : Nat, lost : Nat, drops : Nat]
  BY DEF Submit, IInv, StoreOK
<1>7. lock' \in Slots \cup {None}
  BY DEF Submit, IInv, StoreOK
<1>8. UNCHANGED <<game, ops, prepared, ephemeral, up>>
  BY DEF Submit, storeVars
<1>9. StoreOK'
  BY <1>1, <1>5, <1>6, <1>7, <1>8 DEF IInv, StoreOK
<1> QED
  BY <1>1, <1>2, <1>5, <1>8, <1>9, OneMoves

LEMMA ClaimOperationOK ==
    ASSUME IInv, NEW h \in Procs, ClaimOperation(h)
    PROVE  IInv'
<1>1. ChainOK' /\ Mined' = Mined
  BY ChainKept DEF IInv, ClaimOperation
<1>2. proc[h].tx.kind \in Kinds
  BY SubmitterOK DEF ClaimOperation, Submitting
<1>3. StoreOK'
  <2>1. ops' = SetOp(proc[h].tx, "submitting") /\ UNCHANGED <<game, prepared, memory, up, faults>>
    BY DEF ClaimOperation
  <2>2. \A x \in DOMAIN ops' : x.kind \in Kinds /\ ops'[x] \in {"submitting", "broadcast", "failed"}
    BY <1>2, <2>1, SetOpOK DEF IInv
  <2> QED
    BY <1>1, <2>1, <2>2 DEF IInv, StoreOK, memory
<1>4. Goto(h, "send") /\ game' = game /\ proc[h].pc = "claim"
  BY DEF ClaimOperation
<1>5. HandlerOK(h, proc'[h], game', Mined')
  BY <1>1, <1>4, GotoMoves DEF IInv, ProcOK, HandlerOK, Submitting, Refreshing
<1> QED
  BY <1>1, <1>3, <1>4, <1>5, GotoMoves, OneMoves

LEMMA SendOK ==
    ASSUME IInv, NEW h \in Procs, Send(h)
    PROVE  IInv'
<1>1. proc[h].tx.kind \in Kinds /\ proc[h].pc = "send"
  BY SubmitterOK DEF Send, Submitting
<1>2. ChainOK' /\ Mined' = Mined
  <2>1. Accept(proc[h].tx) \/ UNCHANGED chainVars
    BY DEF Send, ChainRefused
  <2> QED
    BY <1>1, <2>1, AcceptOK, ChainKept DEF IInv
<1>3. faults' \in [resubmits : Nat, crashes : Nat, lost : Nat, drops : Nat]
  BY DEF Send, IInv, StoreOK
<1>4. StoreOK' /\ game' = game
  BY <1>2, <1>3 DEF Send, IInv, StoreOK, storeVars, memory
<1>5. PICK pc \in {"saveBroadcast", "saveFailed"} : Goto(h, pc)
  BY DEF Send
<1>6. HandlerOK(h, proc'[h], game', Mined')
  BY <1>1, <1>2, <1>4, <1>5, GotoMoves DEF IInv, ProcOK, HandlerOK, Submitting, Refreshing
<1> QED
  BY <1>2, <1>4, <1>5, <1>6, GotoMoves, OneMoves

LEMMA SaveBroadcastOK ==
    ASSUME IInv, NEW h \in Procs, SaveBroadcast(h)
    PROVE  IInv'
<1>1. ChainOK' /\ Mined' = Mined
  BY ChainKept DEF IInv, SaveBroadcast
<1>2. proc[h].tx.kind \in Kinds
  BY SubmitterOK DEF SaveBroadcast, Submitting
<1>3. StoreOK'
  <2>1. ops' = SetOp(proc[h].tx, "broadcast") /\ UNCHANGED <<game, prepared, memory, up, faults>>
    BY DEF SaveBroadcast
  <2>2. \A x \in DOMAIN ops' : x.kind \in Kinds /\ ops'[x] \in {"submitting", "broadcast", "failed"}
    BY <1>2, <2>1, SetOpOK DEF IInv
  <2> QED
    BY <1>1, <2>1, <2>2 DEF IInv, StoreOK, memory
<1>4. Goto(h, "record") /\ game' = game /\ proc[h].pc = "saveBroadcast"
  BY DEF SaveBroadcast
<1>5. HandlerOK(h, proc'[h], game', Mined')
  BY <1>1, <1>4, GotoMoves DEF IInv, ProcOK, HandlerOK, Submitting, Refreshing
<1> QED
  BY <1>1, <1>3, <1>4, <1>5, GotoMoves, OneMoves

LEMMA SaveFailedOK ==
    ASSUME IInv, NEW h \in Procs, SaveFailed(h)
    PROVE  IInv'
<1>1. ChainOK' /\ Mined' = Mined
  BY ChainKept DEF IInv, SaveFailed
<1>2. proc[h].tx.kind \in Kinds
  BY SubmitterOK DEF SaveFailed, Submitting
<1>3. /\ ops' = SetOp(proc[h].tx, "failed") /\ claim' = ReleasedClaim(proc[h].tx)
      /\ proc' = [proc EXCEPT ![h] = Idle] /\ lock' \in {lock, None}
      /\ UNCHANGED <<game, prepared, ephemeral, up, faults>>
  BY DEF SaveFailed, Finish
<1>4. StoreOK'
  <2>1. \A x \in DOMAIN ops' : x.kind \in Kinds /\ ops'[x] \in {"submitting", "broadcast", "failed"}
    BY <1>2, <1>3, SetOpOK DEF IInv
  <2>2. claim' \in Players \cup {None}
    BY <1>3, ReleasedClaimOK DEF IInv
  <2> QED
    BY <1>1, <1>3, <2>1, <2>2 DEF IInv, StoreOK
<1> QED
  BY <1>1, <1>3, <1>4, IdleMoves, OneMoves

LEMMA RecordKeeps ==
    ASSUME IInv, NEW h \in Procs, Record(h)
    PROVE  IInv'
<1>1. ChainOK' /\ Mined' = Mined
  BY ChainKept DEF IInv, Record
<1>2. proc[h].tx.kind \in Kinds
  BY SubmitterOK DEF Record, Submitting
<1>3. /\ game' = Recorded(proc[h].seen, proc[h].tx) /\ claim' \in {claim, ReleasedClaim(proc[h].tx)}
      /\ proc' = [proc EXCEPT ![h] = Idle] /\ lock' \in {lock, None}
      /\ UNCHANGED <<ops, prepared, ephemeral, up, faults>>
  BY DEF Record, Finish
<1>4. proc[h].tx.kind # "creation" => RecordOK(proc[h].seen, Mined)
  BY DEF IInv, ProcOK, HandlerOK, Record, Submitting
<1>5. RecordOK(game', Mined')
  BY <1>1, <1>2, <1>3, <1>4, RecordedOK
<1>6. StoreOK'
  <2>1. claim' \in Players \cup {None}
    BY <1>3, ReleasedClaimOK DEF IInv, StoreOK
  <2> QED
    BY <1>3, <1>5, <2>1 DEF IInv, StoreOK
<1> QED
  BY <1>1, <1>3, <1>5, <1>6, IdleMoves, OneMoves

LEMMA StartRefreshOK ==
    ASSUME IInv, NEW h \in Procs, NEW task \in {"read", "keep", "prepareReveal", "prepareRefund"}, NEW p,
           StartRefresh(h, task, p), task = "prepareReveal" => p \in Players,
           lock' \in Slots \cup {None}
    PROVE  IInv'
<1>1. ChainOK' /\ Mined' = Mined
  BY ChainKept DEF IInv, StartRefresh
<1>2. /\ UNCHANGED <<game, ops, prepared, ephemeral, claim, up, faults>> /\ game # None
      /\ proc' = [proc EXCEPT ![h] = [Idle EXCEPT !.pc = "refresh", !.task = task, !.by = p,
                                               !.seen = game, !.todo = Phases(task)]]
  BY DEF StartRefresh, storeVars
<1>3. StoreOK'
  BY <1>1, <1>2 DEF IInv, StoreOK
<1>4. DOMAIN proc' = Procs /\ \A i \in Procs \ {h} : proc'[i] = proc[i]
  BY <1>2 DEF IInv, ProcOK
<1>5. /\ DOMAIN proc'[h] = {"pc", "task", "by", "tx", "seen", "todo", "status"}
      /\ proc'[h].pc = "refresh" /\ proc'[h].task = task /\ proc'[h].by = p
      /\ proc'[h].seen = game /\ proc'[h].todo = Phases(task)
  BY <1>2 DEF Idle, IInv, ProcOK
<1>6. Phases(task) \in Seq({"reveals", "safety", "auto"})
  BY PhasesAre
<1>7. RecordOK(game, Mined)
  BY <1>2 DEF IInv, StoreOK
<1>8. HandlerOK(h, proc'[h], game', Mined')
  BY <1>1, <1>2, <1>5, <1>6, <1>7 DEF HandlerOK, Submitting, Refreshing
<1> QED
  BY <1>1, <1>2, <1>3, <1>4, <1>8, OneMoves

LEMMA StartsOK ==
    ASSUME IInv
    PROVE  /\ StartKeep => IInv'
           /\ \A s \in Slots : StartRead(s) \/ StartPrepareRefund(s) => IInv'
           /\ \A s \in Slots, p \in Players : StartPrepareReveal(s, p) => IInv'
<1>1. lock \in Slots \cup {None}
  BY DEF IInv, StoreOK
<1>2. StartKeep => IInv'
  BY <1>1, StartRefreshOK DEF StartKeep, Procs
<1>3. ASSUME NEW s \in Slots, StartRead(s) \/ StartPrepareRefund(s) PROVE IInv'
  BY <1>1, <1>3, StartRefreshOK DEF StartRead, StartPrepareRefund, Procs
<1>4. ASSUME NEW s \in Slots, NEW p \in Players, StartPrepareReveal(s, p) PROVE IInv'
  BY <1>4, StartRefreshOK DEF StartPrepareReveal, Procs
<1> QED
  BY <1>2, <1>3, <1>4

LEMMA ObserveOK ==
    ASSUME IInv, NEW h \in Procs, Observe(h)
    PROVE  IInv'
<1> DEFINE todo == proc[h].todo
           news == {i \in 1..Len(todo) : Findings(proc[h].seen, todo[i]) # {}}
<1>1. ChainOK' /\ Mined' = Mined
  BY ChainKept DEF IInv, Observe
<1>2. StoreOK' /\ game' = game
  BY <1>1 DEF IInv, StoreOK, Observe, storeVars, memory
<1>3. /\ DOMAIN proc = Procs /\ DOMAIN proc[h] = {"pc", "task", "by", "tx", "seen", "todo", "status"}
      /\ RecordOK(proc[h].seen, Mined) /\ RecordOK(game, Mined)
      /\ todo \in Seq({"reveals", "safety", "auto"})
      /\ proc[h].task = "prepareReveal" => proc[h].by \in Players
  BY DEF IInv, ProcOK, HandlerOK, Observe, Refreshing
<1>4. CASE news = {}
  <2>1. proc' = [proc EXCEPT ![h].pc = "tail", ![h].todo = <<>>]
    BY <1>4 DEF Observe
  <2>2. DOMAIN proc' = Procs /\ \A i \in Procs \ {h} : proc'[i] = proc[i]
    BY <1>3, <2>1
  <2>3. /\ DOMAIN proc'[h] = {"pc", "task", "by", "tx", "seen", "todo", "status"}
        /\ proc'[h].pc = "tail" /\ proc'[h].task = proc[h].task /\ proc'[h].by = proc[h].by
        /\ proc'[h].seen = proc[h].seen /\ proc'[h].todo = <<>>
    BY <1>3, <2>1
  <2>4. <<>> \in Seq({"reveals", "safety", "auto"})
    OBVIOUS
  <2>5. HandlerOK(h, proc'[h], game', Mined')
    BY <1>1, <1>2, <1>3, <2>3, <2>4 DEF HandlerOK, Submitting, Refreshing
  <2> QED
    BY <1>1, <1>2, <2>2, <2>5, OneMoves
<1>5. CASE news # {}
  <2> DEFINE m == Min(news)
             rest == SubSeq(todo, m + 1, Len(todo))
  <2>1. m \in 1..Len(todo)
    <3>1. news \in SUBSET Nat
      OBVIOUS
    <3> QED
      BY <1>5, <3>1, MinIsLeast
  <2>2. PICK r \in Findings(proc[h].seen, todo[m]) :
           proc' = [proc EXCEPT ![h].pc = "save", ![h].seen = r, ![h].todo = rest]
    BY <1>5 DEF Observe
  <2>3. rest \in Seq({"reveals", "safety", "auto"}) /\ todo[m] \in {"reveals", "safety", "auto"}
    <3>1. /\ m + 1 \in Nat /\ Len(todo) \in Nat /\ 1 <= m + 1 /\ m + 1 <= Len(todo) + 1
          /\ Len(todo) <= Len(todo)
      <4> HIDE DEF m, todo
      <4> QED
        BY <1>3, <2>1
    <3> HIDE DEF m, todo
    <3>2. todo[m] \in {"reveals", "safety", "auto"}
      BY <1>3, <2>1
    <3>3. rest \in Seq({"reveals", "safety", "auto"})
      BY <1>3, <3>1, PartOfSeq
    <3> QED
      BY <3>2, <3>3
  <2> HIDE DEF rest, m
  <2>4. RecordOK(r, Mined)
    BY <1>3, <2>2, <2>3, FindingsOK DEF IInv
  <2>5. DOMAIN proc' = Procs /\ \A i \in Procs \ {h} : proc'[i] = proc[i]
    BY <1>3, <2>2
  <2>6. /\ DOMAIN proc'[h] = {"pc", "task", "by", "tx", "seen", "todo", "status"}
        /\ proc'[h].pc = "save" /\ proc'[h].task = proc[h].task /\ proc'[h].by = proc[h].by
        /\ proc'[h].seen = r /\ proc'[h].todo = rest
    BY <1>3, <2>2
  <2>7. HandlerOK(h, proc'[h], game', Mined')
    BY <1>1, <1>2, <1>3, <2>3, <2>4, <2>6 DEF HandlerOK, Submitting, Refreshing
  <2> QED
    BY <1>1, <1>2, <2>5, <2>7, OneMoves
<1> QED
  BY <1>4, <1>5

\* A finished game is closed in the store.
LEMMA CompleteIs ==
    ASSUME NEW r, Complete(r)
    PROVE  \/ UNCHANGED <<game, ops, prepared, ephemeral, claim>>
           \/ /\ Is(game', r.status, IF r.join = None THEN game.join ELSE r.join,
                    IF r.reveals = <<>> THEN game.reveals ELSE r.reveals,
                    IF r.refunds = {} THEN game.refunds ELSE r.refunds,
                    IF r.auto = None THEN game.auto ELSE r.auto, TRUE)
              /\ DOMAIN ops' \subseteq DOMAIN ops /\ \A t \in DOMAIN ops' : ops'[t] = ops[t]
              /\ prepared' = {} /\ ephemeral' = {} /\ claim' = None
<1>1. CASE r.completed
  BY <1>1 DEF Complete
<1>2. CASE ~r.completed
  <2>1. /\ game' = [status |-> r.status,
                    join |-> IF r.join = None THEN game.join ELSE r.join,
                    reveals |-> IF r.reveals = <<>> THEN game.reveals ELSE r.reveals,
                    refunds |-> IF r.refunds = {} THEN game.refunds ELSE r.refunds,
                    auto |-> IF r.auto = None THEN game.auto ELSE r.auto,
                    completed |-> TRUE]
        /\ ops' = [t \in {x \in DOMAIN ops : ~OfGame(x)} |-> ops[t]]
        /\ prepared' = {} /\ ephemeral' = {} /\ claim' = None
    BY <1>2 DEF Complete
  <2>2. Is(game', r.status, IF r.join = None THEN game.join ELSE r.join,
           IF r.reveals = <<>> THEN game.reveals ELSE r.reveals,
           IF r.refunds = {} THEN game.refunds ELSE r.refunds,
           IF r.auto = None THEN game.auto ELSE r.auto, TRUE)
    BY <2>1 DEF Is
  <2>3. DOMAIN ops' \subseteq DOMAIN ops /\ \A t \in DOMAIN ops' : ops'[t] = ops[t]
    BY <2>1
  <2> QED
    BY <2>1, <2>2, <2>3
<1> QED
  BY <1>1, <1>2

LEMMA CompleteOK ==
    ASSUME IInv, NEW r, RecordOK(r, Mined), RecordOK(game, Mined), Complete(r),
           UNCHANGED <<chainVars, lock, up, faults>>
    PROVE  StoreOK' /\ RecordOK(game', Mined')
<1>1. Mined' = Mined
  BY ChainKept DEF IInv
<1>2. CASE UNCHANGED <<game, ops, prepared, ephemeral, claim>>
  BY <1>1, <1>2 DEF IInv, StoreOK
<1>3. CASE /\ Is(game', r.status, IF r.join = None THEN game.join ELSE r.join,
                 IF r.reveals = <<>> THEN game.reveals ELSE r.reveals,
                 IF r.refunds = {} THEN game.refunds ELSE r.refunds,
                 IF r.auto = None THEN game.auto ELSE r.auto, TRUE)
           /\ DOMAIN ops' \subseteq DOMAIN ops /\ \A t \in DOMAIN ops' : ops'[t] = ops[t]
           /\ prepared' = {} /\ ephemeral' = {} /\ claim' = None
  <2>1. RecordOK(game', Mined)
    BY <1>3 DEF RecordOK, Is
  <2>2. \A t \in DOMAIN ops' : t.kind \in Kinds /\ ops'[t] \in {"submitting", "broadcast", "failed"}
    BY <1>3 DEF IInv, StoreOK
  <2> QED
    BY <1>1, <1>3, <2>1, <2>2 DEF IInv, StoreOK
<1> QED
  BY <1>2, <1>3, CompleteIs

LEMMA SaveRefreshedOK ==
    ASSUME IInv, NEW h \in Procs, SaveRefreshed(h)
    PROVE  IInv'
<1> DEFINE r == proc[h].seen
<1>1. ChainOK' /\ Mined' = Mined
  BY ChainKept DEF IInv, SaveRefreshed
<1>2. RecordOK(r, Mined) /\ RecordOK(game, Mined) /\ proc[h].todo \in Seq({"reveals", "safety", "auto"})
  BY DEF IInv, ProcOK, HandlerOK, SaveRefreshed, Refreshing
<1>3. StoreOK' /\ RecordOK(game', Mined')
  <2>1. UNCHANGED <<chainVars, lock, up, faults>>
    BY DEF SaveRefreshed
  <2>2. CASE r.status \in TerminalStatuses
    <3>1. Complete(r)
      BY <2>2 DEF SaveRefreshed
    <3> QED
      BY <1>2, <2>1, <3>1, CompleteOK
  <2>3. CASE r.status \notin TerminalStatuses
    <3>1. game' = r /\ UNCHANGED <<ops, prepared, ephemeral, claim>>
      BY <2>3 DEF SaveRefreshed
    <3> QED
      BY <1>1, <1>2, <2>1, <3>1 DEF IInv, StoreOK
  <2> QED
    BY <2>2, <2>3
<1>4. CASE proc' = [proc EXCEPT ![h] = Idle]
  BY <1>1, <1>3, <1>4, IdleMoves, OneMoves
<1>5. CASE Goto(h, "refresh")
  <2>1. HandlerOK(h, proc'[h], game', Mined')
    <3>1. proc[h].task = "prepareReveal" => proc[h].by \in Players
      BY DEF IInv, ProcOK, HandlerOK
    <3> QED
      BY <1>1, <1>2, <1>3, <1>5, <3>1, GotoMoves DEF HandlerOK, Submitting, Refreshing
  <2> QED
    BY <1>1, <1>3, <1>5, <2>1, GotoMoves, OneMoves
<1> QED
  BY <1>4, <1>5 DEF SaveRefreshed

LEMMA ReadTailOK ==
    ASSUME IInv, NEW h \in Procs, ReadTail(h)
    PROVE  IInv'
<1>1. ChainOK' /\ Mined' = Mined
  BY ChainKept DEF IInv, ReadTail
<1>2. StoreOK' /\ game' = game
  BY <1>1 DEF IInv, StoreOK, ReadTail, storeVars, memory
<1>3. /\ RecordOK(proc[h].seen, Mined) /\ RecordOK(game, Mined)
      /\ proc[h].todo \in Seq({"reveals", "safety", "auto"})
      /\ DOMAIN proc = Procs /\ DOMAIN proc[h] = {"pc", "task", "by", "tx", "seen", "todo", "status"}
  BY DEF IInv, ProcOK, HandlerOK, ReadTail, Refreshing
<1> DEFINE s == DerivedStatus(proc[h].seen)
<1>4. s \in Statuses
  BY <1>3, DerivedStatusKnown
<1> HIDE DEF s
<1>5. CASE proc' = [proc EXCEPT ![h] = Idle]
  BY <1>1, <1>2, <1>5, IdleMoves, OneMoves
<1>6. CASE proc' = [proc EXCEPT ![h].pc = "updateStatus", ![h].status = s]
  <2>1. DOMAIN proc' = Procs /\ \A i \in Procs \ {h} : proc'[i] = proc[i]
    BY <1>3, <1>6
  <2>2. /\ DOMAIN proc'[h] = {"pc", "task", "by", "tx", "seen", "todo", "status"}
        /\ proc'[h].pc = "updateStatus" /\ proc'[h].task = "read" /\ proc'[h].status = s
        /\ proc'[h].seen = proc[h].seen /\ proc'[h].todo = proc[h].todo
    BY <1>3, <1>6 DEF ReadTail
  <2>3. HandlerOK(h, proc'[h], game', Mined')
    BY <1>1, <1>2, <1>3, <1>4, <2>2 DEF HandlerOK, Submitting, Refreshing
  <2> QED
    BY <1>1, <1>2, <2>1, <2>3, OneMoves
<1> QED
  BY <1>5, <1>6 DEF ReadTail, s

LEMMA UpdateStatusOK ==
    ASSUME IInv, NEW h \in Procs, UpdateStatus(h)
    PROVE  IInv'
<1>1. ChainOK' /\ Mined' = Mined
  BY ChainKept DEF IInv, UpdateStatus
<1>2. RecordOK(game, Mined) /\ proc[h].status \in Statuses
  BY DEF IInv, ProcOK, HandlerOK, UpdateStatus, Refreshing
<1>3. RecordOK(game', Mined')
  <2>1. CASE game' = game
    BY <1>1, <1>2, <2>1
  <2>2. CASE game' = [game EXCEPT !.status = proc[h].status]
    <3>1. Is(game', proc[h].status, game.join, game.reveals, game.refunds, game.auto, game.completed)
      BY <1>2, <2>2 DEF Is, RecordOK
    <3> QED
      BY <1>1, <1>2, <3>1 DEF RecordOK, Is
  <2> QED
    BY <2>1, <2>2 DEF UpdateStatus
<1>4. StoreOK' /\ proc' = [proc EXCEPT ![h] = Idle]
  BY <1>3 DEF UpdateStatus, IInv, StoreOK, memory
<1> QED
  BY <1>1, <1>3, <1>4, IdleMoves, OneMoves

LEMMA PrepareRevealTailOK ==
    ASSUME IInv, NEW h \in Procs, PrepareRevealTail(h)
    PROVE  IInv'
<1>1. ChainOK' /\ Mined' = Mined
  BY ChainKept DEF IInv, PrepareRevealTail
<1>2. proc[h].by \in Players
  BY DEF IInv, ProcOK, HandlerOK, PrepareRevealTail
<1>3. /\ proc' = [proc EXCEPT ![h] = Idle] /\ lock' \in {lock, None}
      /\ UNCHANGED <<game, ops, prepared, up, faults>>
      /\ claim' \in {claim, proc[h].by}
  BY DEF PrepareRevealTail, Finish, storeVars
<1>4. \A t \in ephemeral' : t.kind \in {"first", "settlement"}
  <2>1. \A kind, by, n, on : Tx(kind, by, n, on).kind = kind
    BY DEF Tx
  <2>2. ephemeral' = ephemeral \/
           \E kind \in {"first", "settlement"} : \E by, n, on : ephemeral' = ephemeral \cup {Tx(kind, by, n, on)}
    BY DEF PrepareRevealTail
  <2> QED
    BY <2>1, <2>2 DEF IInv, StoreOK
<1>5. StoreOK'
  BY <1>1, <1>2, <1>3, <1>4 DEF IInv, StoreOK
<1> QED
  BY <1>1, <1>3, <1>5, IdleMoves, OneMoves

LEMMA PrepareRefundTailOK ==
    ASSUME IInv, NEW h \in Procs, PrepareRefundTail(h)
    PROVE  IInv'
<1>1. ChainOK' /\ Mined' = Mined
  BY ChainKept DEF IInv, PrepareRefundTail
<1>2. proc' = [proc EXCEPT ![h] = Idle] /\ UNCHANGED <<game, ops, memory, up, faults>>
  BY DEF PrepareRefundTail
<1>3. \A t \in prepared' :
         t.kind \in {"creation", "join", "creator_refund"} /\ (t.kind = "creation" => t = CreationTx)
  <2>1. \A by, n, on : Tx("creator_refund", by, n, on).kind = "creator_refund"
    BY DEF Tx
  <2>2. prepared' = prepared \/ \E by, n, on : prepared' = prepared \cup {Tx("creator_refund", by, n, on)}
    BY DEF PrepareRefundTail
  <2> QED
    BY <2>1, <2>2 DEF IInv, StoreOK
<1>4. StoreOK'
  BY <1>1, <1>2, <1>3 DEF IInv, StoreOK, memory
<1> QED
  BY <1>1, <1>2, <1>4, IdleMoves, OneMoves

LEMMA PrepareJoinOK ==
    ASSUME IInv, NEW p, PrepareJoin(p)
    PROVE  IInv'
<1>1. ChainOK' /\ Mined' = Mined /\ UNCHANGED <<game, ops, memory, proc, up, faults>>
  BY ChainKept DEF IInv, PrepareJoin
<1>2. \A t \in prepared' :
         t.kind \in {"creation", "join", "creator_refund"} /\ (t.kind = "creation" => t = CreationTx)
  <2>1. \A n, on : Tx("join", p, n, on).kind = "join"
    BY DEF Tx
  <2>2. \E n, on : prepared' = prepared \cup {Tx("join", p, n, on)}
    BY DEF PrepareJoin
  <2> QED
    BY <2>1, <2>2 DEF IInv, StoreOK
<1>3. StoreOK'
  BY <1>1, <1>2 DEF IInv, StoreOK, memory
<1> QED
  BY <1>1, <1>3, NoneMoves

LEMMA KeepTailOK ==
    ASSUME IInv, Keeper \in Procs, KeepTail
    PROVE  IInv'
<1> DEFINE r == proc[Keeper].seen
<1>1. ChainOK' /\ Mined' = Mined
  BY ChainKept DEF IInv, KeepTail
<1>2. RecordOK(r, Mined) /\ RecordOK(game, Mined)
  BY DEF IInv, ProcOK, HandlerOK, KeepTail, Refreshing
<1>3. CASE proc' = [proc EXCEPT ![Keeper] = Idle] /\ UNCHANGED <<storeVars, ephemeral, claim>>
  <2>1. StoreOK' /\ game' = game
    BY <1>1, <1>3 DEF IInv, StoreOK, storeVars, KeepTail
  <2> QED
    BY <1>1, <1>3, <2>1, IdleMoves, OneMoves
<1>4. CASE proc' = [proc EXCEPT ![Keeper] = Idle] /\ Complete(r)
  <2>1. StoreOK' /\ RecordOK(game', Mined')
    BY <1>2, <1>4, CompleteOK DEF KeepTail
  <2> QED
    BY <1>1, <1>4, <2>1, IdleMoves, OneMoves
<1>5. CASE UNCHANGED <<storeVars, ephemeral>> /\ \E t \in DueTimeout(r) : Dispatch(Keeper, "keep", t, r)
  <2>1. PICK t \in DueTimeout(r) : Dispatch(Keeper, "keep", t, r)
    BY <1>5
  <2>2. t.kind \in KeeperKinds
    BY DueTimeoutIs
  <2>3. t.kind \in Kinds /\ t.kind # "creation"
    BY <2>2 DEF Kinds, KeeperKinds
  <2>4. UNCHANGED <<chainVars, game, ops, prepared, ephemeral, lock, up, faults>>
    BY <1>5 DEF KeepTail, storeVars
  <2>5. /\ claim' \in Players \cup {None}
        /\ DOMAIN proc' = Procs
        /\ \A i \in Procs \ {Keeper} : proc'[i] = proc[i]
        /\ HandlerOK(Keeper, proc'[Keeper], game', Mined')
    BY <1>2, <2>1, <2>2, <2>3, <2>4, DispatchOK
  <2>6. StoreOK'
    BY <1>1, <2>4, <2>5 DEF IInv, StoreOK
  <2> QED
    BY <1>1, <2>4, <2>5, <2>6, OneMoves
<1> QED
  BY <1>3, <1>4, <1>5 DEF KeepTail

LEMMA ReconcileOK ==
    ASSUME IInv, Reconcile
    PROVE  IInv'
<1>1. ChainOK' /\ Mined' = Mined /\ UNCHANGED <<ops, prepared, memory, proc, up, faults>>
  BY ChainKept DEF IInv, Reconcile
<1>2. PICK t \in DOMAIN ops : Unrecorded(t) /\ game' = Recorded(game, t)
  BY DEF Reconcile
<1>3. t.kind \in Kinds
  BY DEF IInv, StoreOK
<1>4. t.kind # "creation" => RecordOK(game, Mined)
  BY <1>2, <1>3 DEF Unrecorded, IInv, StoreOK, Kinds, PlayerKinds
<1>5. RecordOK(game', Mined')
  BY <1>1, <1>2, <1>3, <1>4, RecordedOK
<1>6. StoreOK'
  BY <1>1, <1>5 DEF IInv, StoreOK, memory
<1> QED
  BY <1>1, <1>5, <1>6, NoneMoves

LEMMA CrashOK ==
    ASSUME IInv, Crash
    PROVE  IInv'
<1>1. ChainOK' /\ Mined' = Mined /\ UNCHANGED <<game, ops>>
  BY ChainKept DEF IInv, Crash
<1>2. prepared' \subseteq prepared /\ ephemeral' = {} /\ claim' = None /\ lock' = None /\ up' = FALSE
  BY DEF Crash
<1>3. faults' \in [resubmits : Nat, crashes : Nat, lost : Nat, drops : Nat]
  BY DEF Crash, IInv, StoreOK
<1>4. StoreOK'
  BY <1>1, <1>2, <1>3 DEF IInv, StoreOK
<1>5. ProcOK'
  BY IdleOK DEF Crash, ProcOK
<1> QED
  BY <1>1, <1>4, <1>5 DEF IInv

LEMMA OthersOK ==
    ASSUME IInv, ClaimExpires \/ Restart \/ Environment
    PROVE  IInv'
<1>1. CASE ClaimExpires \/ Restart
  <2>1. ChainOK' /\ Mined' = Mined /\ UNCHANGED <<game, proc>>
    BY <1>1, ChainKept DEF IInv, ClaimExpires, Restart, storeVars
  <2>2. StoreOK'
    BY <1>1, <2>1 DEF IInv, StoreOK, ClaimExpires, Restart, storeVars, memory
  <2> QED
    BY <2>1, <2>2, NoneMoves
<1>2. CASE Environment
  <2>1. ChainOK' /\ Mined \subseteq Mined'
    BY <1>2, EnvironmentOK DEF IInv, Environment
  <2>2. faults' \in [resubmits : Nat, crashes : Nat, lost : Nat, drops : Nat]
    BY <1>2 DEF Environment, IInv, StoreOK
  <2>3. UNCHANGED <<game, ops, prepared, ephemeral, claim, lock, proc, up>>
    BY <1>2 DEF Environment, storeVars, memory
  <2>4. game' # None => RecordOK(game', Mined')
    BY <2>1, <2>3, RecordStays DEF IInv, StoreOK
  <2>5. StoreOK'
    BY <2>2, <2>3, <2>4 DEF IInv, StoreOK
  <2> QED
    BY <2>1, <2>3, <2>5, NoneMoves
<1> QED
  BY <1>1, <1>2

LEMMA HistoryIs ==
    /\ History \in Seq(ToSet(History)) /\ Len(History) \in Nat
    /\ \A i \in 1..Len(History) :
          /\ i \in {1, 2}
          /\ History[i] = IF i = 1 THEN CreationTx ELSE JoinTx
<1>1. <<>> \in Seq({CreationTx, JoinTx}) /\ Len(<<>>) = 0 /\ 0 # 2
  OBVIOUS
<1>2. /\ <<CreationTx>> \in Seq({CreationTx, JoinTx}) /\ Len(<<CreationTx>>) = 1 /\ 1 # 2 /\ 1 # 0
      /\ <<CreationTx>>[1] = CreationTx
  OBVIOUS
<1>3. /\ <<CreationTx, JoinTx>> \in Seq({CreationTx, JoinTx}) /\ Len(<<CreationTx, JoinTx>>) = 2 /\ 2 # 0
      /\ <<CreationTx, JoinTx>>[1] = CreationTx /\ <<CreationTx, JoinTx>>[2] = JoinTx
  OBVIOUS
<1>4. History \in {<<>>, <<CreationTx>>, <<CreationTx, JoinTx>>}
  BY StartAssumption DEF History
<1>5. /\ History \in Seq({CreationTx, JoinTx}) /\ Len(History) \in {0, 1, 2}
      /\ Len(History) # 0 => History[1] = CreationTx
      /\ Len(History) = 2 => History[2] = JoinTx
  BY <1>1, <1>2, <1>3, <1>4, Zenon
<1>6. History \in Seq(ToSet(History))
  BY <1>5, SeqOfItsElements
<1>7. \A i \in 1..Len(History) : i \in {1, 2} /\ (i = 2 => Len(History) = 2)
  <2> DEFINE n == Len(History)
  <2>1. n \in {0, 1, 2}
    BY <1>5
  <2> HIDE DEF n
  <2>2. \A i \in 1..n : i \in {1, 2} /\ (i = 2 => n = 2)
    <3>1. n \in Nat /\ n <= 2
      BY <2>1
    <3> QED
      BY <3>1
  <2> QED
    BY <2>2 DEF n
<1> QED
  BY <1>5, <1>6, <1>7

LEMMA HistoryKinds ==
    /\ CreationTx.kind = "creation" /\ JoinTx.kind = "join"
    /\ \A i \in 1..Len(History) :
          /\ i \in {1, 2}
          /\ History[i].kind = IF i = 1 THEN "creation" ELSE "join"
          /\ History[i].kind = "creation" => History[i] = CreationTx
<1>1. CreationTx.kind = "creation" /\ JoinTx.kind = "join"
  BY DEF CreationTx, JoinTx, Tx
<1> QED
  BY <1>1, HistoryIs

LEMMA InitInv == Init => IInv
<1> SUFFICES ASSUME Init PROVE IInv
  OBVIOUS
<1>1. ChainOK
  <2>1. \A i \in 1..Len(History) :
          /\ History[i].kind \in Kinds
          /\ History[i].kind = "creation" => i = 1
          /\ History[i].kind \in OnCreation => i = 2
    BY HistoryKinds DEF Kinds, PlayerKinds, OnCreation
  <2>2. lineage = History /\ mined = Len(History) /\ expired = FALSE /\ aged = FALSE /\ cashed = FALSE
    BY DEF Init
  <2>3. Len(History) \in 0..Len(History)
    BY HistoryIs
  <2> QED
    BY <2>1, <2>2, <2>3, HistoryIs DEF ChainOK
<1>2. game # None => RecordOK(game, Mined)
  <2>1. RecordOK(NewGame, Mined) /\ RecordOK(Recorded(NewGame, JoinTx), Mined)
    <3>1. JoinTx.kind = "join" /\ JoinTx.kind \in Kinds
      BY DEF JoinTx, Tx, Kinds, PlayerKinds
    <3> QED
      BY <3>1, NewGameOK, RecordedOK
  <2>2. game \in {None, NewGame, Recorded(NewGame, JoinTx)}
    BY StartAssumption DEF Init
  <2> QED
    BY <2>1, <2>2
<1>3. \A t \in ToSet(History) \cup {CreationTx} :
         t.kind \in {"creation", "join"} /\ (t.kind = "creation" => t = CreationTx)
  BY HistoryIs, HistoryKinds, ElementsOf
<1>4. faults \in [resubmits : Nat, crashes : Nat, lost : Nat, drops : Nat]
  BY DEF Init
<1>5. StoreOK
  BY <1>2, <1>3, <1>4 DEF Init, StoreOK, Kinds, PlayerKinds
<1>6. ProcOK
  BY IdleOK DEF Init, ProcOK
<1> QED
  BY <1>1, <1>5, <1>6 DEF IInv

LEMMA StepOK ==
    ASSUME IInv, NEW h \in Procs, Step(h)
    PROVE  IInv'
  BY ClaimOperationOK, SendOK, SaveBroadcastOK, SaveFailedOK, RecordKeeps, ObserveOK, SaveRefreshedOK,
     ReadTailOK, UpdateStatusOK, PrepareRevealTailOK, PrepareRefundTailOK, KeepTailOK DEF Step

LEMMA NextInv == IInv /\ [Next]_vars => IInv'
<1> SUFFICES ASSUME IInv, [Next]_vars PROVE IInv'
  OBVIOUS
<1>1. CASE UNCHANGED vars
  <2>1. ChainOK' /\ Mined' = Mined /\ UNCHANGED <<game, proc>>
    BY <1>1, ChainKept DEF IInv, vars, storeVars
  <2>2. StoreOK'
    BY <1>1, <2>1 DEF IInv, StoreOK, vars, storeVars, memory
  <2> QED
    BY <2>1, <2>2, NoneMoves
<1>2. ASSUME NEW s \in Slots, NEW t \in prepared \cup ephemeral, Submit(s, t) PROVE IInv'
  BY <1>2, SubmitOK
<1>3. ASSUME NEW s \in Slots, \/ StartRead(s) \/ StartPrepareRefund(s)
                              \/ \E p \in Players : StartPrepareReveal(s, p)
      PROVE  IInv'
  BY <1>3, StartsOK
<1>4. ASSUME NEW p \in Joiners, PrepareJoin(p) PROVE IInv'
  BY <1>4, PrepareJoinOK
<1>5. ASSUME NEW h \in Procs, Step(h) PROVE IInv'
  BY <1>5, StepOK
<1>6. CASE StartKeep
  BY <1>6, StartsOK
<1>7. CASE Reconcile \/ Crash
  BY <1>7, ReconcileOK, CrashOK
<1>8. CASE ClaimExpires \/ Restart \/ Environment
  BY <1>8, OthersOK
<1> QED
  BY <1>1, <1>2, <1>3, <1>4, <1>5, <1>6, <1>7, <1>8 DEF Next

-----------------------------------------------------------------------------
(***************************************************************************)
(* The theorems                                                            *)
(***************************************************************************)
\* Every variable of the game service has its type, however many requests,
\* crashes, lost answers and dropped transactions there are.
THEOREM TypeCorrect == Spec => []TypeOK
<1>1. IInv => TypeOK
  <2> SUFFICES ASSUME IInv PROVE TypeOK
    OBVIOUS
  <2>1. game # None =>
          /\ game.status \in Statuses
          /\ game.join # None => game.join.kind = "join"
          /\ \A e \in ToSet(game.reveals) : e.tx.kind \in {"first", "settlement"}
          /\ \A e \in game.refunds : e.tx.kind = "creator_refund"
          /\ game.auto # None => game.auto.tx.kind \in KeeperKinds
          /\ game.completed \in BOOLEAN
    <3> SUFFICES ASSUME game # None PROVE
          /\ game.status \in Statuses
          /\ game.join # None => game.join.kind = "join"
          /\ \A e \in ToSet(game.reveals) : e.tx.kind \in {"first", "settlement"}
          /\ \A e \in game.refunds : e.tx.kind = "creator_refund"
          /\ game.auto # None => game.auto.tx.kind \in KeeperKinds
          /\ game.completed \in BOOLEAN
      OBVIOUS
    <3>1. RecordOK(game, Mined)
      BY DEF IInv, StoreOK
    <3> QED
      BY <3>1, ElementsOf DEF RecordOK
  <2>2. \A t \in prepared : t.kind \in {"creation", "join", "creator_refund"}
    BY DEF IInv, StoreOK
  <2> QED
    BY <2>1, <2>2 DEF IInv, ChainOK, StoreOK, TypeOK
<1> QED
  BY <1>1, InitInv, NextInv, PTL DEF Spec

\* Whatever was retried, lost, dropped or forgotten in a restart, a player's
\* transaction that the record calls confirmed is in a block
\* (#refreshActionState, #refreshSafetyState).
THEOREM ConfirmedAreMined == Spec => []ConfirmedIsMined
<1>1. IInv => ConfirmedIsMined
  <2> SUFFICES ASSUME IInv, game # None,
                      NEW e \in ToSet(game.reveals) \cup game.refunds, e.status = "confirmed"
               PROVE  e.tx \in Mined
    BY DEF ConfirmedIsMined
  <2>1. RecordOK(game, Mined)
    BY DEF IInv, StoreOK
  <2>2. EntryOK(e, Mined)
    BY <2>1, ElementsOf DEF RecordOK
  <2> QED
    BY <2>2 DEF EntryOK
<1> QED
  BY <1>1, InitInv, NextInv, PTL DEF Spec

-----------------------------------------------------------------------------
(***************************************************************************)
(* What the join rests on: nothing is called broadcast, and no join is     *)
(* recorded, that the node did not take; and the game is opened once.      *)
(***************************************************************************)
AfterJoin == {"first", "settlement", "refund_all", "fallback_claim"}

JoinIn(r, A) == r.join \in A /\ r.join.kind = "join"

\* A record, stored or held by a handler, when the node took A.
JoinedOK(r, A) == r.join # None \/ r.reveals # <<>> => JoinIn(r, A)

SenderOK(p, A) ==
    /\ p.pc \in Refreshing \/ (p.pc \in Submitting /\ p.tx.kind # "creation") => JoinedOK(p.seen, A)
    /\ p.pc \in Submitting /\ p.tx.kind \in AfterJoin => JoinIn(p.seen, A)
    /\ p.pc = "save" => p.seen.status \in TerminalStatuses \/ JoinIn(p.seen, A)
    /\ p.pc \in {"saveBroadcast", "record"} => p.tx \in A

Opening(p) == p.pc \in Submitting /\ p.tx.kind = "creation"

\* The creation cannot be submitted any more.
Opened == CreationTx \notin prepared \/ OpStatus(CreationTx) \in {"submitting", "broadcast"}

\* There is a game, or a handler works on one.
Live == game # None \/ \E h \in Procs : proc[h].pc # "idle" /\ ~Opening(proc[h])

\* The status of the creation while the handler that opens the game is at pc.
OpeningStatus(pc) ==
    IF pc = "claim" THEN {"none", "failed"}
    ELSE IF pc = "record" THEN {"broadcast"} ELSE {"submitting"}

TakenOK == \A t \in DOMAIN ops : ops[t] = "broadcast" => t \in Accepted

SendersOK == \A h \in Procs : SenderOK(proc[h], Accepted)

OpeningOK ==
    \A h \in Procs : Opening(proc[h]) =>
        /\ game = None
        /\ OpStatus(CreationTx) \in OpeningStatus(proc[h].pc)
        /\ \A i \in Procs \ {h} : proc[i].pc = "idle"

JInv == TakenOK /\ SendersOK /\ OpeningOK /\ (Live => JoinedOK(game, Accepted) /\ Opened)

-----------------------------------------------------------------------------
(***************************************************************************)
(* The join is kept                                                        *)
(***************************************************************************)
\* What a step may not do.
JoinStays ==
    game # None /\ game.join # None /\ game.join \in Accepted => game'.join = game.join

LEMMA OneOnCreation ==
    ASSUME ChainOK, NEW x \in Accepted, NEW y \in Accepted, x.kind \in OnCreation, y.kind \in OnCreation
    PROVE  x = y
  BY DEF ChainOK, Accepted

LEMMA MoreTaken ==
    ASSUME NEW A, NEW B, A \subseteq B
    PROVE  /\ \A r : JoinIn(r, A) => JoinIn(r, B)
           /\ \A r : JoinedOK(r, A) => JoinedOK(r, B)
           /\ \A p : SenderOK(p, A) => SenderOK(p, B)
  BY DEF JoinIn, JoinedOK, SenderOK

LEMMA IdleSender == \A A : SenderOK(Idle, A) /\ ~Opening(Idle) /\ Idle.pc = "idle"
  BY DEF SenderOK, Opening, Idle, Submitting, Refreshing

\* Nobody opens the game once there is one.
LEMMA LiveIsOpened ==
    ASSUME JInv, Live
    PROVE  /\ JoinedOK(game, Accepted) /\ Opened
           /\ \A i \in Procs : ~Opening(proc[i])
  BY DEF JInv, OpeningOK, Live

LEMMA WorkerIsLive ==
    ASSUME NEW h \in Procs, proc[h].pc \in Refreshing \/ (proc[h].pc \in Submitting /\ ~Opening(proc[h]))
    PROVE  Live
  BY DEF Live, Opening, Submitting, Refreshing

LEMMA LiveMoves ==
    ASSUME JInv, Live, NEW h \in Procs, Accepted \subseteq Accepted',
           \A i \in Procs \ {h} : proc'[i] = proc[i],
           ~Opening(proc'[h]), SenderOK(proc'[h], Accepted'),
           TakenOK', JoinedOK(game', Accepted'), Opened'
    PROVE  JInv'
<1>1. \A i \in Procs : ~Opening(proc[i])
  BY LiveIsOpened
<1>2. \A i \in Procs : ~Opening(proc'[i])
  BY <1>1
<1>3. \A i \in Procs : SenderOK(proc'[i], Accepted')
  BY MoreTaken DEF JInv, SendersOK
<1> QED
  BY <1>2, <1>3 DEF JInv, SendersOK, OpeningOK

LEMMA OpenerMoves ==
    ASSUME JInv, NEW h \in Procs, Opening(proc[h]), Accepted \subseteq Accepted', game' = game,
           \A i \in Procs \ {h} : proc'[i] = proc[i],
           SenderOK(proc'[h], Accepted'), TakenOK',
           \/ proc'[h].pc = "idle"
           \/ Opening(proc'[h]) /\ OpStatus(CreationTx)' \in OpeningStatus(proc'[h].pc)
    PROVE  JInv'
<1>1. game = None /\ \A i \in Procs \ {h} : proc[i].pc = "idle"
  BY DEF JInv, OpeningOK
<1>2. \A i \in Procs \ {h} : proc'[i].pc = "idle" /\ ~Opening(proc'[i])
  BY <1>1 DEF Opening, Submitting
<1>3. ~Live'
  BY <1>1, <1>2 DEF Live
<1>4. SendersOK'
  BY MoreTaken DEF JInv, SendersOK
<1>5. OpeningOK'
  BY <1>1, <1>2 DEF OpeningOK, Opening, Submitting
<1> QED
  BY <1>3, <1>4, <1>5 DEF JInv

LEMMA ChainSame == ASSUME ChainOK, UNCHANGED chainVars PROVE Accepted' = Accepted
  BY ChainKept

LEMMA OpsSame ==
    ASSUME JInv, UNCHANGED ops, Accepted \subseteq Accepted'
    PROVE  TakenOK' /\ OpStatus(CreationTx)' = OpStatus(CreationTx)
  BY DEF JInv, TakenOK, OpStatus

LEMMA OpsSet ==
    ASSUME JInv, NEW t, NEW s, ops' = SetOp(t, s), Accepted' = Accepted, s = "broadcast" => t \in Accepted
    PROVE  /\ TakenOK'
           /\ OpStatus(CreationTx)' = IF t = CreationTx THEN s ELSE OpStatus(CreationTx)
  BY DEF JInv, TakenOK, OpStatus, SetOp

\* An opener works on the creation of the game.
LEMMA OpenerIs ==
    ASSUME IInv, NEW h \in Procs, Opening(proc[h])
    PROVE  proc[h].tx = CreationTx /\ h \in Slots
<1>1. HandlerOK(h, proc[h], game, Mined)
  BY DEF IInv, ProcOK
<1> QED
  BY <1>1 DEF HandlerOK, Opening, KeeperKinds

LEMMA NotOpenerIs == ASSUME NEW p, p.pc \in Submitting, ~Opening(p) PROVE p.tx # CreationTx
  BY DEF Opening, CreationTx, Tx

\* The mempool forgets nothing, and no creation is submitted twice.
SentOnceAndKept == MaxDrops = 0 /\ (MaxResubmits = 0 \/ "creation" \notin Clients)

\* A submission of anything but the creation starts.
LEMMA DispatchSends ==
    ASSUME IInv, JInv, Live, NEW h \in Procs, NEW task, NEW t, NEW r, Dispatch(h, task, t, r),
           UNCHANGED <<chainVars, game, ops, prepared>>, t.kind # "creation", JoinedOK(r, Accepted),
           t.kind \in AfterJoin => JoinIn(r, Accepted)
    PROVE  JInv'
<1>1. Accepted' = Accepted
  BY ChainSame DEF IInv
<1>2. TakenOK' /\ JoinedOK(game', Accepted') /\ Opened'
  <2>1. TakenOK' /\ OpStatus(CreationTx)' = OpStatus(CreationTx)
    BY <1>1, OpsSame
  <2>2. JoinedOK(game, Accepted) /\ Opened /\ game' = game /\ prepared' = prepared
    BY LiveIsOpened
  <2> QED
    BY <1>1, <2>1, <2>2 DEF Opened
<1>3. CASE proc' = [proc EXCEPT ![h] = Idle]
  <2>1. proc'[h] = Idle /\ \A i \in Procs \ {h} : proc'[i] = proc[i]
    BY <1>3 DEF IInv, ProcOK
  <2> QED
    BY <1>1, <1>2, <2>1, IdleSender, LiveMoves
<1>4. CASE /\ \A i \in Procs \ {h} : proc'[i] = proc[i]
           /\ \/ proc'[h].pc = "record" /\ OpStatus(t) = "broadcast"
              \/ proc'[h].pc = "claim"
           /\ proc'[h].tx = t /\ proc'[h].seen = r
  <2>1. proc'[h].pc = "record" => t \in Accepted
    BY <1>4 DEF JInv, TakenOK, OpStatus
  <2>2. SenderOK(proc'[h], Accepted')
    BY <1>1, <1>4, <2>1 DEF SenderOK, Refreshing
  <2>3. ~Opening(proc'[h])
    BY <1>4 DEF Opening
  <2> QED
    BY <1>1, <1>2, <1>4, <2>2, <2>3, LiveMoves
<1> QED
  BY <1>3, <1>4, DispatchIs

\* The first submission of a creation starts, and finds everybody idle.
LEMMA SubmitCreationSends ==
    ASSUME IInv, JInv, SentOnceAndKept, NEW s \in Slots, NEW t \in prepared \cup ephemeral, Submit(s, t), t.kind = "creation"
    PROVE  JInv'
<1>1. Accepted' = Accepted /\ UNCHANGED <<game, ops, prepared>> /\ s \in Procs
  BY ChainSame DEF IInv, Submit, storeVars, Procs
<1>2. t = CreationTx /\ t \in prepared
  BY DEF IInv, StoreOK, Submit, MaySubmit
<1>3. ~TookUp(t)
  BY DEF SentOnceAndKept, Submit, IInv, StoreOK
<1>4. ~Opened
  BY <1>2, <1>3 DEF Opened, TookUp
<1>5. \A i \in Procs : proc[i].pc = "idle"
  <2>1. \A i \in Procs : proc[i].pc # "idle" => Opening(proc[i])
    BY <1>4 DEF JInv, Live
  <2>2. \A i \in Procs : ~Opening(proc[i])
    BY <1>2, <1>3, OpenerIs DEF TookUp
  <2> QED
    BY <2>1, <2>2
<1>6. game = None
  BY <1>4 DEF JInv, Live
<1>7. /\ DOMAIN proc' = Procs /\ \A i \in Procs \ {s} : proc'[i] = proc[i]
      /\ proc'[s].pc = "claim" /\ proc'[s].tx = t
      /\ OpStatus(t) \notin {"submitting", "broadcast"}
  <2>1. Dispatch(s, "submit", t, game) /\ OpStatus(t) \notin {"submitting", "broadcast"}
    BY <1>3 DEF Submit, TookUp
  <2>2. DOMAIN proc = Procs
    BY DEF IInv, ProcOK
  <2>3. proc' = [proc EXCEPT ![s].pc = "claim", ![s].task = "submit", ![s].tx = t, ![s].seen = game]
    BY <2>1 DEF Dispatch
  <2>4. DOMAIN proc[s] = {"pc", "task", "by", "tx", "seen", "todo", "status"}
    BY <1>1 DEF IInv, ProcOK, HandlerOK
  <2>5. DOMAIN proc' = Procs /\ \A i \in Procs \ {s} : proc'[i] = proc[i]
    BY <2>2, <2>3
  <2>6. proc'[s].pc = "claim" /\ proc'[s].tx = t
    BY <1>1, <2>2, <2>3, <2>4
  <2> QED
    BY <2>1, <2>5, <2>6
<1>8. \A i \in Procs \ {s} : proc'[i].pc = "idle" /\ ~Opening(proc'[i])
  BY <1>5, <1>7 DEF Opening, Submitting
<1>9. Opening(proc'[s])
  BY <1>7 DEF Opening, Submitting
<1>10. ~Live'
  BY <1>1, <1>6, <1>8, <1>9 DEF Live
<1>11. SendersOK'
  <2>1. SenderOK(proc'[s], Accepted')
    BY <1>7 DEF SenderOK, Submitting, Refreshing, AfterJoin
  <2> QED
    BY <1>1, <1>7, <2>1 DEF JInv, SendersOK
<1>12. OpStatus(CreationTx) \in {"none", "failed"} /\ OpStatus(CreationTx)' = OpStatus(CreationTx)
  BY <1>1, <1>2, <1>7 DEF IInv, StoreOK, OpStatus
<1>13. OpeningOK'
  BY <1>1, <1>6, <1>7, <1>8, <1>12 DEF OpeningOK, OpeningStatus
<1>14. TakenOK'
  BY <1>1, OpsSame
<1> QED
  BY <1>10, <1>11, <1>13, <1>14 DEF JInv

LEMMA SubmitSends ==
    ASSUME IInv, JInv, SentOnceAndKept, NEW s \in Slots, NEW t \in prepared \cup ephemeral, Submit(s, t)
    PROVE  JInv' /\ JoinStays
<1>1. game' = game /\ UNCHANGED <<chainVars, game, ops, prepared>> /\ s \in Procs
  BY DEF Submit, storeVars, Procs
<1>2. CASE t.kind # "creation"
  <2>1. t.kind \in {"creation", "join", "creator_refund", "first", "settlement"}
    BY DEF IInv, StoreOK
  <2>2. game # None /\ (t.kind \in AfterJoin => game.join # None) /\ Dispatch(s, "submit", t, game)
    BY <1>2, <2>1 DEF Submit, MaySubmit, AfterJoin
  <2>3. Live
    BY <2>2 DEF Live
  <2>4. JoinedOK(game, Accepted) /\ (t.kind \in AfterJoin => JoinIn(game, Accepted))
    BY <2>2, <2>3, LiveIsOpened DEF JoinedOK
  <2> QED
    BY <1>1, <1>2, <2>2, <2>3, <2>4, DispatchSends DEF JoinStays
<1> QED
  BY <1>1, <1>2, SubmitCreationSends DEF JoinStays

LEMMA ClaimSends ==
    ASSUME IInv, JInv, NEW h \in Procs, ClaimOperation(h)
    PROVE  JInv' /\ JoinStays
<1>1. /\ Accepted' = Accepted /\ game' = game /\ prepared' = prepared
      /\ ops' = SetOp(proc[h].tx, "submitting")
      /\ Goto(h, "send") /\ proc[h].pc = "claim"
  BY ChainSame DEF IInv, ClaimOperation
<1>2. /\ \A i \in Procs \ {h} : proc'[i] = proc[i]
      /\ proc'[h].pc = "send" /\ proc'[h].tx = proc[h].tx /\ proc'[h].seen = proc[h].seen
  BY <1>1, GotoMoves
<1>3. SenderOK(proc'[h], Accepted')
  BY <1>1, <1>2 DEF JInv, SendersOK, SenderOK, Submitting, Refreshing
<1>4. TakenOK' /\ OpStatus(CreationTx)' = IF proc[h].tx = CreationTx THEN "submitting" ELSE OpStatus(CreationTx)
  BY <1>1, OpsSet
<1>5. CASE Opening(proc[h])
  <2>1. Opening(proc'[h]) /\ OpStatus(CreationTx)' \in OpeningStatus(proc'[h].pc)
    BY <1>2, <1>4, <1>5, OpenerIs DEF Opening, Submitting, OpeningStatus
  <2> QED
    BY <1>1, <1>2, <1>3, <1>4, <1>5, <2>1, OpenerMoves DEF JoinStays
<1>6. CASE ~Opening(proc[h])
  <2>1. Live /\ ~Opening(proc'[h])
    BY <1>1, <1>2, <1>6, WorkerIsLive DEF Opening, Submitting
  <2>2. proc[h].tx # CreationTx
    BY <1>1, <1>6, NotOpenerIs DEF Submitting
  <2>3. JoinedOK(game', Accepted') /\ Opened'
    BY <1>1, <1>4, <2>1, <2>2, LiveIsOpened DEF Opened
  <2> QED
    BY <1>1, <1>2, <1>3, <1>4, <2>1, <2>3, LiveMoves DEF JoinStays
<1> QED
  BY <1>5, <1>6

LEMMA SendSends ==
    ASSUME IInv, JInv, NEW h \in Procs, Send(h)
    PROVE  JInv' /\ JoinStays
<1>1. proc[h].pc = "send" /\ proc[h].tx.kind \in Kinds /\ game' = game /\ ops' = ops /\ prepared' = prepared
  BY SubmitterOK DEF Send, Submitting, storeVars
<1>2. PICK pc \in {"saveBroadcast", "saveFailed"} :
         /\ Goto(h, pc)
         /\ Accept(proc[h].tx) \/ UNCHANGED chainVars
         /\ pc = "saveBroadcast" => Accept(proc[h].tx)
  BY DEF Send, ChainRefused
<1>3. Accepted \subseteq Accepted' /\ (pc = "saveBroadcast" => proc[h].tx \in Accepted')
  BY <1>1, <1>2, AcceptOK, ChainSame DEF IInv
<1>4. /\ \A i \in Procs \ {h} : proc'[i] = proc[i]
      /\ proc'[h].pc = pc /\ proc'[h].tx = proc[h].tx /\ proc'[h].seen = proc[h].seen
  BY <1>2, GotoMoves
<1>5. SenderOK(proc[h], Accepted')
  BY <1>3, MoreTaken DEF JInv, SendersOK
<1>6. SenderOK(proc'[h], Accepted')
  BY <1>1, <1>3, <1>4, <1>5 DEF SenderOK, Submitting, Refreshing
<1>7. TakenOK' /\ OpStatus(CreationTx)' = OpStatus(CreationTx)
  BY <1>1, <1>3, OpsSame
<1>8. CASE Opening(proc[h])
  <2>1. OpStatus(CreationTx) \in OpeningStatus(proc[h].pc)
    BY <1>8 DEF JInv, OpeningOK
  <2>2. Opening(proc'[h]) /\ OpStatus(CreationTx)' \in OpeningStatus(proc'[h].pc)
    BY <1>1, <1>4, <1>7, <1>8, <2>1 DEF Opening, Submitting, OpeningStatus
  <2> QED
    BY <1>1, <1>3, <1>4, <1>6, <1>7, <1>8, <2>2, OpenerMoves DEF JoinStays
<1>9. CASE ~Opening(proc[h])
  <2>1. Live /\ ~Opening(proc'[h])
    BY <1>1, <1>4, <1>9, WorkerIsLive DEF Opening, Submitting
  <2>2. JoinedOK(game', Accepted') /\ Opened'
    BY <1>1, <1>3, <1>7, <2>1, LiveIsOpened, MoreTaken DEF Opened
  <2> QED
    BY <1>1, <1>3, <1>4, <1>6, <1>7, <2>1, <2>2, LiveMoves DEF JoinStays
<1> QED
  BY <1>8, <1>9

LEMMA SaveBroadcastSends ==
    ASSUME IInv, JInv, NEW h \in Procs, SaveBroadcast(h)
    PROVE  JInv' /\ JoinStays
<1>1. /\ Accepted' = Accepted /\ game' = game /\ prepared' = prepared
      /\ ops' = SetOp(proc[h].tx, "broadcast")
      /\ Goto(h, "record") /\ proc[h].pc = "saveBroadcast"
  BY ChainSame DEF IInv, SaveBroadcast
<1>2. /\ \A i \in Procs \ {h} : proc'[i] = proc[i]
      /\ proc'[h].pc = "record" /\ proc'[h].tx = proc[h].tx /\ proc'[h].seen = proc[h].seen
  BY <1>1, GotoMoves
<1>3. SenderOK(proc'[h], Accepted') /\ proc[h].tx \in Accepted
  BY <1>1, <1>2 DEF JInv, SendersOK, SenderOK, Submitting, Refreshing
<1>4. TakenOK' /\ OpStatus(CreationTx)' = IF proc[h].tx = CreationTx THEN "broadcast" ELSE OpStatus(CreationTx)
  BY <1>1, <1>3, OpsSet
<1>5. CASE Opening(proc[h])
  <2>1. Opening(proc'[h]) /\ OpStatus(CreationTx)' \in OpeningStatus(proc'[h].pc)
    BY <1>2, <1>4, <1>5, OpenerIs DEF Opening, Submitting, OpeningStatus
  <2> QED
    BY <1>1, <1>2, <1>3, <1>4, <1>5, <2>1, OpenerMoves DEF JoinStays
<1>6. CASE ~Opening(proc[h])
  <2>1. Live /\ ~Opening(proc'[h])
    BY <1>1, <1>2, <1>6, WorkerIsLive DEF Opening, Submitting
  <2>2. proc[h].tx # CreationTx
    BY <1>1, <1>6, NotOpenerIs DEF Submitting
  <2>3. JoinedOK(game', Accepted') /\ Opened'
    BY <1>1, <1>4, <2>1, <2>2, LiveIsOpened DEF Opened
  <2> QED
    BY <1>1, <1>2, <1>3, <1>4, <2>1, <2>3, LiveMoves DEF JoinStays
<1> QED
  BY <1>5, <1>6

LEMMA SaveFailedSends ==
    ASSUME IInv, JInv, NEW h \in Procs, SaveFailed(h)
    PROVE  JInv' /\ JoinStays
<1>1. /\ Accepted' = Accepted /\ game' = game /\ prepared' = prepared
      /\ ops' = SetOp(proc[h].tx, "failed")
      /\ proc' = [proc EXCEPT ![h] = Idle] /\ proc[h].pc = "saveFailed"
  BY ChainSame DEF IInv, SaveFailed, Finish
<1>2. proc'[h] = Idle /\ \A i \in Procs \ {h} : proc'[i] = proc[i]
  BY <1>1 DEF IInv, ProcOK
<1>3. TakenOK' /\ OpStatus(CreationTx)' = IF proc[h].tx = CreationTx THEN "failed" ELSE OpStatus(CreationTx)
  BY <1>1, OpsSet
<1>4. CASE Opening(proc[h])
  BY <1>1, <1>2, <1>3, <1>4, IdleSender, OpenerMoves DEF JoinStays
<1>5. CASE ~Opening(proc[h])
  <2>1. Live
    BY <1>1, <1>5, WorkerIsLive DEF Submitting
  <2>2. proc[h].tx # CreationTx
    BY <1>1, <1>5, NotOpenerIs DEF Submitting
  <2>3. JoinedOK(game', Accepted') /\ Opened'
    BY <1>1, <1>3, <2>1, <2>2, LiveIsOpened DEF Opened
  <2> QED
    BY <1>1, <1>2, <1>3, <2>1, <2>3, IdleSender, LiveMoves DEF JoinStays
<1> QED
  BY <1>4, <1>5

\* The join after a submission is recorded.
LEMMA RecordedJoin ==
    ASSUME NEW r, NEW A, RecordOK(r, Mined), JoinedOK(r, A), NEW t \in A, t.kind \in Kinds, t.kind # "creation",
           t.kind \in {"first", "settlement"} => JoinIn(r, A)
    PROVE  /\ JoinedOK(Recorded(r, t), A)
           /\ Recorded(r, t).join = IF t.kind = "join" THEN t ELSE r.join
<1>1. CASE t.kind = "join"
  <2>1. Is(Recorded(r, t), BroadcastStatus(t.kind), t, r.reveals, r.refunds, r.auto, r.completed)
    BY <1>1, RecordedIs
  <2> QED
    BY <1>1, <2>1 DEF Is, JoinedOK, JoinIn
<1>2. CASE t.kind \in {"first", "settlement"}
  <2>1. Is(Recorded(r, t), BroadcastStatus(t.kind), r.join, Append(r.reveals, Entry(t)),
           r.refunds, r.auto, r.completed)
    BY <1>2, RecordedIs
  <2> QED
    BY <1>2, <2>1 DEF Is, JoinedOK, JoinIn
<1>3. CASE t.kind = "creator_refund"
  <2>1. Is(Recorded(r, t), BroadcastStatus(t.kind), r.join, r.reveals, r.refunds \cup {Entry(t)},
           r.auto, r.completed)
    BY <1>3, RecordedIs
  <2> QED
    BY <1>3, <2>1 DEF Is, JoinedOK, JoinIn
<1>4. CASE t.kind \in KeeperKinds
  <2>1. Is(Recorded(r, t), BroadcastStatus(t.kind), r.join, r.reveals, r.refunds, Entry(t), r.completed)
    BY <1>4, RecordedIs
  <2> QED
    BY <1>4, <2>1 DEF Is, JoinedOK, JoinIn, KeeperKinds
<1> QED
  BY <1>1, <1>2, <1>3, <1>4 DEF Kinds, PlayerKinds

LEMMA RecordSends ==
    ASSUME IInv, JInv, NEW h \in Procs, Record(h)
    PROVE  JInv' /\ JoinStays
<1> DEFINE t == proc[h].tx
           r == proc[h].seen
<1>1. /\ Accepted' = Accepted /\ game' = Recorded(r, t) /\ UNCHANGED <<ops, prepared>>
      /\ proc' = [proc EXCEPT ![h] = Idle] /\ proc[h].pc = "record"
  BY ChainSame DEF IInv, Record, Finish
<1>2. proc'[h] = Idle /\ \A i \in Procs \ {h} : proc'[i] = proc[i]
  BY <1>1 DEF IInv, ProcOK
<1>3. TakenOK' /\ OpStatus(CreationTx)' = OpStatus(CreationTx)
  BY <1>1, OpsSame
<1>4. t \in Accepted /\ t.kind \in Kinds
  BY <1>1, SubmitterOK DEF JInv, SendersOK, SenderOK, Submitting
<1>5. CASE Opening(proc[h])
  <2>1. /\ game = None /\ OpStatus(CreationTx) = "broadcast"
        /\ \A i \in Procs \ {h} : proc[i].pc = "idle"
    BY <1>1, <1>5 DEF JInv, OpeningOK, OpeningStatus
  <2>2. \A i \in Procs : ~Opening(proc'[i])
    BY <1>2, <2>1, IdleSender DEF Opening, Submitting
  <2>3. SendersOK'
    BY <1>1, <1>2, IdleSender DEF JInv, SendersOK
  <2>4. JoinedOK(game', Accepted')
    <3>1. game' = NewGame
      BY <1>1, <1>5, RecordedCreation DEF Opening
    <3> QED
      BY <3>1 DEF NewGame, JoinedOK
  <2>5. Opened'
    BY <1>1, <1>3, <2>1 DEF Opened
  <2> QED
    BY <1>3, <2>1, <2>2, <2>3, <2>4, <2>5 DEF JInv, OpeningOK, JoinStays
<1>6. CASE ~Opening(proc[h])
  <2>1. t.kind # "creation" /\ Live
    BY <1>1, <1>6, WorkerIsLive DEF Opening, Submitting
  <2>2. /\ RecordOK(r, Mined) /\ JoinedOK(r, Accepted)
        /\ t.kind \in AfterJoin => JoinIn(r, Accepted)
    BY <1>1, <2>1 DEF IInv, ProcOK, HandlerOK, JInv, SendersOK, SenderOK, Submitting
  <2>3. /\ JoinedOK(game', Accepted)
        /\ game'.join = IF t.kind = "join" THEN t ELSE r.join
    BY <1>1, <1>4, <2>1, <2>2, RecordedJoin DEF AfterJoin
  <2>4. JoinedOK(game, Accepted) /\ Opened /\ Opened'
    BY <1>1, <1>3, <2>1, LiveIsOpened DEF Opened
  <2>5. JInv'
    BY <1>1, <1>2, <1>3, <2>1, <2>3, <2>4, IdleSender, LiveMoves
  <2>6. JoinStays
    <3> SUFFICES ASSUME game # None, game.join # None PROVE game'.join = game.join
      BY DEF JoinStays
    <3>1. game.join \in Accepted /\ game.join.kind = "join" /\ game.join.kind \in OnCreation
      BY <2>4 DEF JoinedOK, JoinIn, OnCreation
    <3>2. CASE t.kind \in OnCreation
      <4>1. t = game.join
        BY <1>4, <3>1, <3>2, OneOnCreation DEF IInv
      <4> QED
        BY <2>3, <3>1, <4>1
    <3>3. CASE t.kind \notin OnCreation
      <4>1. t.kind \in AfterJoin
        BY <1>4, <2>1, <3>3 DEF OnCreation, AfterJoin, Kinds, PlayerKinds, KeeperKinds
      <4>2. r.join \in Accepted /\ r.join.kind \in OnCreation
        BY <2>2, <4>1 DEF JoinIn, OnCreation
      <4>3. r.join = game.join
        BY <3>1, <4>2, OneOnCreation DEF IInv
      <4> QED
        BY <2>3, <3>3, <4>3 DEF OnCreation
    <3> QED
      BY <3>2, <3>3
  <2> QED
    BY <2>5, <2>6
<1> QED
  BY <1>5, <1>6

\* A handler loads the game.
LEMMA RefreshSends ==
    ASSUME IInv, JInv, NEW h \in Procs, NEW task, NEW p, StartRefresh(h, task, p)
    PROVE  JInv' /\ JoinStays
<1>1. /\ Accepted' = Accepted /\ game' = game /\ game # None /\ UNCHANGED <<ops, prepared>>
      /\ proc' = [proc EXCEPT ![h] = [Idle EXCEPT !.pc = "refresh", !.task = task, !.by = p,
                                               !.seen = game, !.todo = Phases(task)]]
  BY ChainSame DEF IInv, StartRefresh, storeVars
<1>2. \A i \in Procs \ {h} : proc'[i] = proc[i]
  BY <1>1 DEF IInv, ProcOK
<1>3. proc'[h].pc = "refresh" /\ proc'[h].seen = game
  BY <1>1 DEF IInv, ProcOK, Idle
<1>4. TakenOK' /\ OpStatus(CreationTx)' = OpStatus(CreationTx)
  BY <1>1, OpsSame
<1>5. Live
  BY <1>1 DEF Live
<1>6. JoinedOK(game, Accepted) /\ Opened'
  BY <1>1, <1>4, <1>5, LiveIsOpened DEF Opened
<1>7. SenderOK(proc'[h], Accepted') /\ ~Opening(proc'[h])
  BY <1>1, <1>3, <1>6 DEF SenderOK, Opening, Submitting, Refreshing
<1> QED
  BY <1>1, <1>2, <1>4, <1>5, <1>6, <1>7, LiveMoves DEF JoinStays

LEMMA StartsSend ==
    ASSUME IInv, JInv
    PROVE  /\ StartKeep => JInv' /\ JoinStays
           /\ \A s \in Slots : StartRead(s) \/ StartPrepareRefund(s) => JInv' /\ JoinStays
           /\ \A s \in Slots, p \in Players : StartPrepareReveal(s, p) => JInv' /\ JoinStays
  BY RefreshSends DEF StartKeep, StartRead, StartPrepareRefund, StartPrepareReveal, Procs

\* A handler that works on a record moves on, and the store stays as it is.
LEMMA QuietMoves ==
    ASSUME IInv, JInv, NEW h \in Procs, proc[h].pc \in Refreshing, UNCHANGED <<chainVars, game, ops, prepared>>,
           \A i \in Procs \ {h} : proc'[i] = proc[i],
           \/ proc'[h] = Idle
           \/ proc'[h].pc \in Refreshing /\ SenderOK(proc'[h], Accepted)
    PROVE  JInv' /\ JoinStays
<1>1. Accepted' = Accepted /\ game' = game /\ UNCHANGED <<ops, prepared>>
  BY ChainSame DEF IInv
<1>2. Live
  BY WorkerIsLive
<1>3. TakenOK' /\ OpStatus(CreationTx)' = OpStatus(CreationTx)
  BY <1>1, OpsSame
<1>4. JoinedOK(game', Accepted') /\ Opened'
  BY <1>1, <1>2, <1>3, LiveIsOpened DEF Opened
<1>5. SenderOK(proc'[h], Accepted') /\ ~Opening(proc'[h])
  BY <1>1, IdleSender DEF Opening, Submitting, Refreshing
<1> QED
  BY <1>1, <1>2, <1>3, <1>4, <1>5, LiveMoves DEF JoinStays

LEMMA ObserveSends ==
    ASSUME IInv, JInv, NEW h \in Procs, Observe(h)
    PROVE  JInv' /\ JoinStays
<1> DEFINE todo == proc[h].todo
           news == {i \in 1..Len(todo) : Findings(proc[h].seen, todo[i]) # {}}
<1>1. UNCHANGED <<chainVars, game, ops, prepared>> /\ proc[h].pc = "refresh" /\ proc[h].pc \in Refreshing
  BY DEF Observe, storeVars, Refreshing
<1>2. /\ DOMAIN proc = Procs /\ DOMAIN proc[h] = {"pc", "task", "by", "tx", "seen", "todo", "status"}
      /\ RecordOK(proc[h].seen, Mined)
      /\ todo \in Seq({"reveals", "safety", "auto"})
  BY <1>1 DEF IInv, ProcOK, HandlerOK
<1>3. JoinedOK(proc[h].seen, Accepted)
  BY <1>1 DEF JInv, SendersOK, SenderOK
<1>4. CASE news = {}
  <2>1. proc' = [proc EXCEPT ![h].pc = "tail", ![h].todo = <<>>]
    BY <1>4 DEF Observe
  <2>2. /\ \A i \in Procs \ {h} : proc'[i] = proc[i]
        /\ proc'[h].pc = "tail" /\ proc'[h].seen = proc[h].seen
    BY <1>2, <2>1
  <2>3. proc'[h].pc \in Refreshing /\ SenderOK(proc'[h], Accepted)
    BY <1>3, <2>2 DEF SenderOK, Refreshing, Submitting
  <2> QED
    BY <1>1, <2>2, <2>3, QuietMoves
<1>5. CASE news # {}
  <2> DEFINE m == Min(news)
  <2>1. m \in 1..Len(todo)
    <3>1. news \in SUBSET Nat
      OBVIOUS
    <3> QED
      BY <1>5, <3>1, MinIsLeast
  <2>2. PICK r \in Findings(proc[h].seen, todo[m]) :
           proc' = [proc EXCEPT ![h].pc = "save", ![h].seen = r, ![h].todo = SubSeq(todo, m + 1, Len(todo))]
    BY <1>5 DEF Observe
  <2> HIDE DEF m
  <2>3. todo[m] \in {"reveals", "safety", "auto"}
    <3> HIDE DEF todo
    <3> QED
      BY <1>2, <2>1
  <2>4. /\ r.join = proc[h].seen.join
        /\ r.status \in TerminalStatuses \/ proc[h].seen.reveals # <<>>
        /\ r.reveals # <<>> => proc[h].seen.reveals # <<>>
    BY <1>2, <2>2, <2>3, FindingsOK DEF IInv
  <2>5. /\ \A i \in Procs \ {h} : proc'[i] = proc[i]
        /\ proc'[h].pc = "save" /\ proc'[h].seen = r
    BY <1>2, <2>2
  <2>6. proc'[h].pc \in Refreshing /\ SenderOK(proc'[h], Accepted)
    BY <1>3, <2>4, <2>5 DEF SenderOK, JoinedOK, JoinIn, Refreshing, Submitting
  <2> QED
    BY <1>1, <2>5, <2>6, QuietMoves
<1> QED
  BY <1>4, <1>5

\* Completing a game keeps its join.
LEMMA CompleteSends ==
    ASSUME IInv, JInv, Live, NEW r, JoinedOK(r, Accepted), Complete(r), UNCHANGED chainVars
    PROVE  TakenOK' /\ JoinedOK(game', Accepted') /\ Opened' /\ JoinStays
<1>1. Accepted' = Accepted /\ JoinedOK(game, Accepted) /\ Opened
  BY ChainSame, LiveIsOpened DEF IInv
<1>2. CASE UNCHANGED <<game, ops, prepared, ephemeral, claim>>
  <2>1. TakenOK' /\ OpStatus(CreationTx)' = OpStatus(CreationTx)
    BY <1>1, <1>2, OpsSame
  <2> QED
    BY <1>1, <1>2, <2>1 DEF Opened, JoinStays
<1>3. CASE /\ Is(game', r.status, IF r.join = None THEN game.join ELSE r.join,
                 IF r.reveals = <<>> THEN game.reveals ELSE r.reveals,
                 IF r.refunds = {} THEN game.refunds ELSE r.refunds,
                 IF r.auto = None THEN game.auto ELSE r.auto, TRUE)
           /\ DOMAIN ops' \subseteq DOMAIN ops /\ \A t \in DOMAIN ops' : ops'[t] = ops[t]
           /\ prepared' = {} /\ ephemeral' = {} /\ claim' = None
  <2>1. TakenOK' /\ Opened'
    BY <1>1, <1>3 DEF JInv, TakenOK, Opened
  <2>2. /\ game'.join = IF r.join = None THEN game.join ELSE r.join
        /\ game'.reveals = IF r.reveals = <<>> THEN game.reveals ELSE r.reveals
    BY <1>3 DEF Is
  <2>3. JoinedOK(game', Accepted')
    BY <1>1, <2>2 DEF JoinedOK, JoinIn
  <2>4. JoinStays
    <3> SUFFICES ASSUME game # None, game.join # None, r.join # None PROVE r.join = game.join
      BY <2>2 DEF JoinStays
    <3>1. game.join \in Accepted /\ game.join.kind \in OnCreation
      BY <1>1 DEF JoinedOK, JoinIn, OnCreation
    <3>2. r.join \in Accepted /\ r.join.kind \in OnCreation
      BY DEF JoinedOK, JoinIn, OnCreation
    <3> QED
      BY <3>1, <3>2, OneOnCreation DEF IInv
  <2> QED
    BY <2>1, <2>3, <2>4
<1> QED
  BY <1>2, <1>3, CompleteIs

LEMMA SaveRefreshedSends ==
    ASSUME IInv, JInv, NEW h \in Procs, SaveRefreshed(h)
    PROVE  JInv' /\ JoinStays
<1> DEFINE r == proc[h].seen
<1>1. Accepted' = Accepted /\ UNCHANGED chainVars /\ proc[h].pc = "save" /\ Live
  BY ChainSame, WorkerIsLive DEF IInv, SaveRefreshed, Refreshing
<1>2. JoinedOK(r, Accepted) /\ (r.status \in TerminalStatuses \/ JoinIn(r, Accepted))
  BY <1>1 DEF JInv, SendersOK, SenderOK, Refreshing
<1>3. TakenOK' /\ JoinedOK(game', Accepted') /\ Opened' /\ JoinStays
  <2>1. CASE r.status \in TerminalStatuses
    <3>1. Complete(r)
      BY <2>1 DEF SaveRefreshed
    <3> QED
      BY <1>1, <1>2, <3>1, CompleteSends
  <2>2. CASE r.status \notin TerminalStatuses
    <3>1. game' = r /\ UNCHANGED <<ops, prepared>>
      BY <2>2 DEF SaveRefreshed
    <3>2. TakenOK' /\ OpStatus(CreationTx)' = OpStatus(CreationTx)
      BY <1>1, <3>1, OpsSame
    <3>3. JoinedOK(game, Accepted) /\ Opened'
      BY <1>1, <3>1, <3>2, LiveIsOpened DEF Opened
    <3>4. JoinStays
      <4> SUFFICES ASSUME game # None, game.join # None PROVE r.join = game.join
        BY <3>1 DEF JoinStays
      <4>1. game.join \in Accepted /\ game.join.kind \in OnCreation
        BY <3>3 DEF JoinedOK, JoinIn, OnCreation
      <4>2. r.join \in Accepted /\ r.join.kind \in OnCreation
        BY <1>2, <2>2 DEF JoinIn, OnCreation
      <4> QED
        BY <4>1, <4>2, OneOnCreation DEF IInv
    <3> QED
      BY <1>1, <1>2, <3>1, <3>2, <3>3, <3>4
  <2> QED
    BY <2>1, <2>2
<1>4. CASE proc' = [proc EXCEPT ![h] = Idle]
  <2>1. proc'[h] = Idle /\ \A i \in Procs \ {h} : proc'[i] = proc[i]
    BY <1>4 DEF IInv, ProcOK
  <2> QED
    BY <1>1, <1>3, <2>1, IdleSender, LiveMoves
<1>5. CASE Goto(h, "refresh")
  <2>1. /\ \A i \in Procs \ {h} : proc'[i] = proc[i]
        /\ proc'[h].pc = "refresh" /\ proc'[h].seen = r
    BY <1>5, GotoMoves
  <2>2. SenderOK(proc'[h], Accepted') /\ ~Opening(proc'[h])
    BY <1>1, <1>2, <2>1 DEF SenderOK, Opening, Submitting, Refreshing
  <2> QED
    BY <1>1, <1>3, <2>1, <2>2, LiveMoves
<1> QED
  BY <1>4, <1>5 DEF SaveRefreshed

LEMMA TailsSend ==
    ASSUME IInv, JInv, NEW h \in Procs, ReadTail(h) \/ PrepareRefundTail(h) \/ PrepareRevealTail(h)
    PROVE  JInv' /\ JoinStays
<1>1. /\ DOMAIN proc = Procs /\ DOMAIN proc[h] = {"pc", "task", "by", "tx", "seen", "todo", "status"}
      /\ proc[h].pc = "tail" /\ proc[h].pc \in Refreshing
  BY DEF IInv, ProcOK, HandlerOK, ReadTail, PrepareRefundTail, PrepareRevealTail, Refreshing
<1>2. JoinedOK(proc[h].seen, Accepted)
  BY <1>1 DEF JInv, SendersOK, SenderOK
<1>3. CASE ReadTail(h)
  <2>1. UNCHANGED <<chainVars, game, ops, prepared>>
    BY <1>3 DEF ReadTail, storeVars
  <2>2. CASE proc' = [proc EXCEPT ![h] = Idle]
    BY <1>1, <2>1, <2>2, QuietMoves
  <2> DEFINE s == DerivedStatus(proc[h].seen)
  <2> HIDE DEF s
  <2>3. CASE proc' = [proc EXCEPT ![h].pc = "updateStatus", ![h].status = s]
    <3>1. \A i \in Procs \ {h} : proc'[i] = proc[i]
      BY <1>1, <2>3
    <3>2. proc'[h].pc = "updateStatus" /\ proc'[h].seen = proc[h].seen
      BY <1>1, <2>3
    <3>3. proc'[h].pc \in Refreshing /\ SenderOK(proc'[h], Accepted)
      BY <1>2, <3>2 DEF SenderOK, Refreshing, Submitting
    <3> QED
      BY <1>1, <2>1, <3>1, <3>3, QuietMoves
  <2> QED
    BY <1>3, <2>2, <2>3 DEF ReadTail, s
<1>4. CASE PrepareRevealTail(h)
  <2>1. UNCHANGED <<chainVars, game, ops, prepared>> /\ proc' = [proc EXCEPT ![h] = Idle]
    BY <1>4 DEF PrepareRevealTail, Finish, storeVars
  <2> QED
    BY <1>1, <2>1, QuietMoves
<1>5. CASE PrepareRefundTail(h)
  <2>1. /\ Accepted' = Accepted /\ UNCHANGED <<game, ops>> /\ proc' = [proc EXCEPT ![h] = Idle]
        /\ CreationTx \in prepared' => CreationTx \in prepared
    <3>1. \A by, n, on : Tx("creator_refund", by, n, on) # CreationTx
      BY DEF Tx, CreationTx
    <3>2. prepared' = prepared \/ \E by, n, on : prepared' = prepared \cup {Tx("creator_refund", by, n, on)}
      BY <1>5 DEF PrepareRefundTail
    <3> QED
      BY <1>5, <3>1, <3>2, ChainSame DEF PrepareRefundTail, IInv
  <2>2. proc'[h] = Idle /\ \A i \in Procs \ {h} : proc'[i] = proc[i]
    BY <1>1, <2>1
  <2>3. Live /\ TakenOK' /\ OpStatus(CreationTx)' = OpStatus(CreationTx)
    BY <1>1, <2>1, OpsSame, WorkerIsLive
  <2>4. JoinedOK(game', Accepted') /\ Opened'
    BY <2>1, <2>3, LiveIsOpened DEF Opened
  <2> QED
    BY <2>1, <2>2, <2>3, <2>4, IdleSender, LiveMoves DEF JoinStays
<1> QED
  BY <1>3, <1>4, <1>5

LEMMA UpdateStatusSends ==
    ASSUME IInv, JInv, NEW h \in Procs, UpdateStatus(h)
    PROVE  JInv' /\ JoinStays
<1>1. /\ Accepted' = Accepted /\ UNCHANGED <<ops, prepared>> /\ proc' = [proc EXCEPT ![h] = Idle]
      /\ proc[h].pc \in Refreshing
  BY ChainSame DEF UpdateStatus, IInv, Refreshing
<1>2. proc'[h] = Idle /\ \A i \in Procs \ {h} : proc'[i] = proc[i]
  BY <1>1 DEF IInv, ProcOK
<1>3. Live /\ TakenOK' /\ OpStatus(CreationTx)' = OpStatus(CreationTx)
  BY <1>1, OpsSame, WorkerIsLive
<1>4. JoinedOK(game, Accepted) /\ Opened'
  BY <1>1, <1>3, LiveIsOpened DEF Opened
<1>5. game'.join = game.join /\ game'.reveals = game.reveals
  <2>1. DOMAIN game = {"status", "join", "reveals", "refunds", "auto", "completed"}
    BY <1>1 DEF IInv, ProcOK, HandlerOK, RecordOK
  <2>2. game' = game \/ game' = [game EXCEPT !.status = proc[h].status]
    BY DEF UpdateStatus
  <2> QED
    BY <2>1, <2>2
<1>6. JoinedOK(game', Accepted')
  BY <1>1, <1>4, <1>5 DEF JoinedOK, JoinIn
<1> QED
  BY <1>1, <1>2, <1>3, <1>4, <1>5, <1>6, IdleSender, LiveMoves DEF JoinStays

LEMMA PrepareJoinSends ==
    ASSUME IInv, JInv, NEW p, PrepareJoin(p)
    PROVE  JInv' /\ JoinStays
<1>1. Accepted' = Accepted /\ UNCHANGED <<game, ops, proc>> /\ game # None
  BY ChainSame DEF PrepareJoin, IInv
<1>2. CreationTx \in prepared' => CreationTx \in prepared
  <2>1. \A n, on : Tx("join", p, n, on) # CreationTx
    BY DEF Tx, CreationTx
  <2>2. \E n, on : prepared' = prepared \cup {Tx("join", p, n, on)}
    BY DEF PrepareJoin
  <2> QED
    BY <2>1, <2>2
<1>3. OpStatus(CreationTx)' = OpStatus(CreationTx)
  BY <1>1, OpsSame
<1>4. Live /\ Opened
  BY <1>1, LiveIsOpened DEF Live
<1> QED
  BY <1>1, <1>2, <1>3, <1>4 DEF JInv, TakenOK, SendersOK, OpeningOK, Live, Opened, JoinStays

LEMMA KeepTailSends ==
    ASSUME IInv, JInv, Keeper \in Procs, KeepTail
    PROVE  JInv' /\ JoinStays
<1> DEFINE r == proc[Keeper].seen
<1>1. proc[Keeper].pc = "tail" /\ proc[Keeper].pc \in Refreshing /\ UNCHANGED chainVars
  BY DEF KeepTail, Refreshing
<1>2. JoinedOK(r, Accepted) /\ Live /\ Accepted' = Accepted
  BY <1>1, WorkerIsLive, ChainSame DEF JInv, SendersOK, SenderOK, IInv
<1>3. CASE proc' = [proc EXCEPT ![Keeper] = Idle] /\ UNCHANGED <<storeVars, ephemeral, claim>>
  <2>1. proc'[Keeper] = Idle /\ (\A i \in Procs \ {Keeper} : proc'[i] = proc[i])
        /\ UNCHANGED <<chainVars, game, ops, prepared>>
    BY <1>1, <1>3 DEF IInv, ProcOK, storeVars
  <2> QED
    BY <1>1, <2>1, QuietMoves
<1>4. CASE proc' = [proc EXCEPT ![Keeper] = Idle] /\ Complete(r)
  <2>1. proc'[Keeper] = Idle /\ \A i \in Procs \ {Keeper} : proc'[i] = proc[i]
    BY <1>4 DEF IInv, ProcOK
  <2>2. TakenOK' /\ JoinedOK(game', Accepted') /\ Opened' /\ JoinStays
    BY <1>1, <1>2, <1>4, CompleteSends
  <2> QED
    BY <1>2, <2>1, <2>2, IdleSender, LiveMoves
<1>5. CASE UNCHANGED <<storeVars, ephemeral>> /\ \E t \in DueTimeout(r) : Dispatch(Keeper, "keep", t, r)
  <2>1. PICK t \in DueTimeout(r) : Dispatch(Keeper, "keep", t, r)
    BY <1>5
  <2>2. t.kind \in KeeperKinds /\ (r.join = None => t.kind = "refund_open")
    BY DueTimeoutIs
  <2>3. t.kind # "creation" /\ (t.kind \in AfterJoin => JoinIn(r, Accepted))
    BY <1>2, <2>2 DEF KeeperKinds, AfterJoin, JoinedOK
  <2>4. UNCHANGED <<chainVars, game, ops, prepared>>
    BY <1>1, <1>5 DEF storeVars
  <2> QED
    BY <1>2, <2>1, <2>3, <2>4, DispatchSends DEF JoinStays
<1> QED
  BY <1>3, <1>4, <1>5 DEF KeepTail

LEMMA ReconcileSends ==
    ASSUME IInv, JInv, Reconcile
    PROVE  JInv' /\ JoinStays
<1>1. Accepted' = Accepted /\ UNCHANGED <<ops, prepared, proc>>
  BY ChainSame DEF Reconcile, IInv
<1>2. PICK t \in DOMAIN ops :
         /\ Unrecorded(t) /\ game' = Recorded(game, t)
         /\ \A h \in Procs : ~(proc[h].pc = "record" /\ proc[h].tx = t)
  BY DEF Reconcile
<1>3. OpStatus(t) = "broadcast" /\ t \in Accepted /\ t.kind \in Kinds
  BY <1>2 DEF Unrecorded, JInv, TakenOK, OpStatus, IInv, StoreOK
<1>4. TakenOK' /\ OpStatus(CreationTx)' = OpStatus(CreationTx)
  BY <1>1, OpsSame
<1>5. SendersOK'
  BY <1>1 DEF JInv, SendersOK
<1>6. CASE t.kind = "creation"
  <2>1. game = None /\ t = CreationTx
    BY <1>2, <1>6 DEF Unrecorded, KeeperKinds, IInv, StoreOK
  <2>2. \A h \in Procs : ~Opening(proc[h])
    <3> SUFFICES ASSUME NEW h \in Procs, Opening(proc[h]) PROVE FALSE
      OBVIOUS
    <3>1. OpStatus(CreationTx) \in OpeningStatus(proc[h].pc) /\ proc[h].tx = CreationTx
      BY OpenerIs DEF JInv, OpeningOK
    <3> QED
      BY <1>2, <1>3, <2>1, <3>1 DEF OpeningStatus
  <2>3. Opened'
    BY <1>3, <1>4, <2>1 DEF Opened
  <2>4. JoinedOK(game', Accepted')
    <3>1. game' = NewGame
      BY <1>2, <1>6, RecordedCreation
    <3> QED
      BY <3>1 DEF NewGame, JoinedOK
  <2> QED
    BY <1>1, <1>4, <1>5, <2>1, <2>2, <2>3, <2>4 DEF JInv, OpeningOK, JoinStays
<1>7. CASE t.kind # "creation"
  <2>1. game # None /\ t.kind \notin {"first", "settlement"} /\ (t.kind = "join" => game.join = None)
    BY <1>2, <1>3, <1>7 DEF Unrecorded, Kinds, PlayerKinds, KeeperKinds
  <2>2. Live
    BY <2>1 DEF Live
  <2>3. JoinedOK(game, Accepted) /\ Opened' /\ \A i \in Procs : ~Opening(proc[i])
    BY <1>1, <1>4, <2>2, LiveIsOpened DEF Opened
  <2>4. RecordOK(game, Mined)
    BY <2>1 DEF IInv, StoreOK
  <2>5. /\ JoinedOK(game', Accepted)
        /\ game'.join = IF t.kind = "join" THEN t ELSE game.join
    BY <1>2, <1>3, <1>7, <2>1, <2>3, <2>4, RecordedJoin
  <2> QED
    BY <1>1, <1>4, <1>5, <2>1, <2>3, <2>5 DEF JInv, OpeningOK, JoinStays
<1> QED
  BY <1>6, <1>7

LEMMA CrashSends ==
    ASSUME IInv, JInv, Crash
    PROVE  JInv' /\ JoinStays
<1>1. Accepted' = Accepted /\ UNCHANGED <<game, ops>> /\ prepared' \subseteq prepared
  BY ChainSame DEF Crash, IInv
<1>2. \A h \in Procs : proc'[h] = Idle
  BY DEF Crash
<1>3. TakenOK' /\ OpStatus(CreationTx)' = OpStatus(CreationTx)
  BY <1>1, OpsSame
<1>4. SendersOK' /\ OpeningOK'
  BY <1>2, IdleSender DEF SendersOK, OpeningOK
<1>5. Live' => Live
  BY <1>1, <1>2, IdleSender DEF Live
<1> QED
  BY <1>1, <1>3, <1>4, <1>5 DEF JInv, Opened, JoinStays

\* The others leave the store and the handlers as they are.
LEMMA RestSends ==
    ASSUME IInv, JInv, UNCHANGED <<game, ops, prepared, proc>>, Accepted \subseteq Accepted'
    PROVE  JInv' /\ JoinStays
<1>1. TakenOK' /\ OpStatus(CreationTx)' = OpStatus(CreationTx)
  BY OpsSame
<1>2. SendersOK' /\ OpeningOK'
  BY <1>1, MoreTaken DEF JInv, SendersOK, OpeningOK
<1>3. Live' => Live /\ JoinedOK(game, Accepted) /\ Opened
  BY DEF Live, JInv
<1> QED
  BY <1>1, <1>2, <1>3, MoreTaken DEF JInv, Opened, JoinStays

LEMMA OthersSend ==
    ASSUME IInv, JInv, SentOnceAndKept, ClaimExpires \/ Restart \/ Environment
    PROVE  JInv' /\ JoinStays
<1>1. UNCHANGED <<game, ops, prepared, proc>>
  BY DEF ClaimExpires, Restart, Environment, storeVars
<1>2. Accepted \subseteq Accepted'
  <2>1. CASE ClaimExpires \/ Restart
    BY <2>1, ChainSame DEF ClaimExpires, Restart, IInv
  <2>2. CASE Environment
    <3>1. Mine \/ DeadlinePasses \/ AgePasses \/ SpendPayout
      BY <2>2 DEF Environment, SentOnceAndKept, IInv, StoreOK
    <3>2. lineage' = lineage
      BY <3>1 DEF Mine, DeadlinePasses, AgePasses, SpendPayout
    <3> QED
      BY <3>2 DEF Accepted
  <2> QED
    BY <2>1, <2>2
<1> QED
  BY <1>1, <1>2, RestSends

LEMMA InitSends == Init => JInv
<1> SUFFICES ASSUME Init PROVE JInv
  OBVIOUS
<1>1. Accepted = ToSet(History) /\ proc = [h \in Procs |-> Idle]
  BY HistoryIs DEF Init, Accepted, ToSet
<1>2. TakenOK
  BY <1>1 DEF Init, TakenOK
<1>3. SendersOK /\ OpeningOK /\ \A h \in Procs : proc[h].pc = "idle"
  BY <1>1, IdleSender DEF SendersOK, OpeningOK
<1>4. ASSUME Live PROVE JoinedOK(game, Accepted) /\ Opened
  <2>1. game # None
    BY <1>3, <1>4 DEF Live
  <2>2. CASE Start = "created"
    <3>1. game = NewGame
      BY <2>2 DEF Init
    <3>2. History = <<CreationTx>>
      BY <2>2 DEF History
    <3>3. CreationTx \in ToSet(History)
      BY <3>2 DEF ToSet
    <3>4. ops[CreationTx] = "broadcast" /\ CreationTx \in DOMAIN ops
      BY <3>3 DEF Init
    <3> QED
      BY <3>1, <3>4 DEF NewGame, JoinedOK, Opened, OpStatus
  <2>3. CASE Start = "joined"
    <3>1. game = Recorded(NewGame, JoinTx)
      BY <2>3 DEF Init
    <3>2. History = <<CreationTx, JoinTx>>
      BY <2>3 DEF History
    <3>3. CreationTx \in ToSet(History) /\ JoinTx \in ToSet(History)
      BY <3>2 DEF ToSet
    <3>4. ops[CreationTx] = "broadcast" /\ CreationTx \in DOMAIN ops
      BY <3>3 DEF Init
    <3>5. JoinTx.kind = "join" /\ JoinTx.kind \in Kinds
      BY HistoryKinds DEF Kinds, PlayerKinds
    <3>6. RecordOK(NewGame, Mined) /\ JoinedOK(NewGame, Accepted)
      BY NewGameOK DEF NewGame, JoinedOK
    <3>7. JoinedOK(game, Accepted)
      BY <1>1, <3>1, <3>3, <3>5, <3>6, RecordedJoin
    <3> QED
      BY <3>4, <3>7 DEF Opened, OpStatus
  <2>4. CASE Start = "prepared"
    BY <2>1, <2>4 DEF Init
  <2> QED
    BY <2>2, <2>3, <2>4, StartAssumption
<1> QED
  BY <1>2, <1>3, <1>4 DEF JInv

LEMMA StepSends ==
    ASSUME IInv, JInv, NEW h \in Procs, Step(h)
    PROVE  JInv' /\ JoinStays
  BY ClaimSends, SendSends, SaveBroadcastSends, SaveFailedSends, RecordSends, ObserveSends,
     SaveRefreshedSends, TailsSend, UpdateStatusSends, KeepTailSends DEF Step

LEMMA NextSends ==
    ASSUME SentOnceAndKept
    PROVE  IInv /\ JInv /\ [Next]_vars => JInv' /\ (UNCHANGED vars \/ JoinStays)
<1> SUFFICES ASSUME IInv, JInv, [Next]_vars PROVE JInv' /\ (UNCHANGED vars \/ JoinStays)
  OBVIOUS
<1>1. CASE UNCHANGED vars
  <2>1. Accepted' = Accepted /\ UNCHANGED <<game, ops, prepared, proc>>
    BY <1>1, ChainSame DEF vars, storeVars, IInv
  <2> QED
    BY <1>1, <2>1, RestSends
<1>2. ASSUME NEW s \in Slots, NEW t \in prepared \cup ephemeral, Submit(s, t) PROVE JInv' /\ JoinStays
  BY <1>2, SubmitSends
<1>3. ASSUME NEW s \in Slots, \/ StartRead(s) \/ StartPrepareRefund(s)
                              \/ \E p \in Players : StartPrepareReveal(s, p)
      PROVE  JInv' /\ JoinStays
  BY <1>3, StartsSend
<1>4. ASSUME NEW p \in Joiners, PrepareJoin(p) PROVE JInv' /\ JoinStays
  BY <1>4, PrepareJoinSends
<1>5. ASSUME NEW h \in Procs, Step(h) PROVE JInv' /\ JoinStays
  BY <1>5, StepSends
<1>6. CASE StartKeep
  BY <1>6, StartsSend
<1>7. CASE Reconcile \/ Crash
  BY <1>7, ReconcileSends, CrashSends
<1>8. CASE ClaimExpires \/ Restart \/ Environment
  BY <1>8, OthersSend
<1> QED
  BY <1>1, <1>2, <1>3, <1>4, <1>5, <1>6, <1>7, <1>8 DEF Next

\* Once the joiner's stake is in the escrow no handler writes the record back
\* without the join, or with another one (updateGame and the saves of a whole
\* record, backend-game-service.js:769-773) - as long as the mempool drops
\* nothing and the creation is not submitted twice; with either, it happens.
THEOREM JoinIsKept == SentOnceAndKept => (Spec => JoinNeverForgotten)
<1> SUFFICES ASSUME SentOnceAndKept PROVE Spec => JoinNeverForgotten
  OBVIOUS
<1>1. IInv /\ JInv /\ [Next]_vars => JInv' /\ (UNCHANGED vars \/ JoinStays)
  BY NextSends
<1>2. UNCHANGED vars \/ JoinStays
         => [game # None /\ game.join # None /\ game.join \in Accepted => game'.join = game.join]_vars
  BY DEF JoinStays
<1> QED
  BY <1>1, <1>2, InitInv, NextInv, InitSends, PTL DEF Spec, JoinNeverForgotten

-----------------------------------------------------------------------------
(***************************************************************************)
(* What the end of a record rests on: nothing spends what a terminal       *)
(* transaction left, and nobody says that a game is over before the chain. *)
(***************************************************************************)
\* Only the last transaction can be one that leaves no output.
TerminalLast == \A i \in 1..Len(lineage) : lineage[i].kind \in TerminalKinds => i = Len(lineage)

\* The record r says that its game is over.
SaysOver(r) == r.completed \/ r.status \in TerminalStatuses

HandlerSilent(p) ==
    /\ p.pc \in Refreshing => ~SaysOver(p.seen)
    /\ p.pc \in Submitting /\ p.tx.kind # "creation" => ~SaysOver(p.seen)
    /\ p.pc = "updateStatus" => p.status \notin TerminalStatuses

HandlersSilent == \A h \in Procs : HandlerSilent(proc[h])

\* A handler that works on a record keeps the game from being None.
StoreSilent == game # None \/ (\E h \in Procs : proc[h].pc \in Refreshing) => ~SaysOver(game)

KInv == TerminalLast /\ (faults.drops = 0 => EndOnChain \/ (StoreSilent /\ HandlersSilent))

LEMMA ClosedByTheLast ==
    ASSUME ChainOK, TerminalLast, EndOnChain
    PROVE  Closed \/ (lineage # <<>> /\ Tip.kind \in KeeperKinds)
<1> DEFINE n == Len(lineage)
<1>1. n \in Nat /\ mined \in 0..n
  BY DEF ChainOK
<1>2. CASE \E t \in Mined : t.kind \in TerminalKinds
  <2>1. PICK i \in 1..mined : lineage[i].kind \in TerminalKinds
    BY <1>2 DEF Mined
  <2>2. i \in 1..n
    BY <1>1
  <2>3. i = n
    BY <2>1, <2>2 DEF TerminalLast
  <2>4. mined = i /\ mined > 0
    BY <1>1, <2>3
  <2> QED
    BY <2>1, <2>4 DEF Closed
<1>3. CASE \E t \in Accepted : t.kind \in KeeperKinds
  <2>1. PICK i \in 1..n : lineage[i].kind \in KeeperKinds
    BY <1>3 DEF Accepted
  <2>2. i = n
    BY <2>1 DEF TerminalLast, TerminalKinds
  <2>3. lineage # <<>> /\ Tip.kind \in KeeperKinds
    BY <1>1, <2>1, <2>2 DEF Tip
  <2> QED
    BY <2>1, <2>2, <2>3
<1> QED
  BY <1>2, <1>3 DEF EndOnChain

LEMMA StatusEnds ==
    /\ \A kind \in Kinds : BroadcastStatus(kind) \notin TerminalStatuses
    /\ ~SaysOver(NewGame)
    /\ HandlerSilent(Idle)
<1>1. \A kind \in Kinds : BroadcastStatus(kind) \notin TerminalStatuses
  BY DEF Kinds, PlayerKinds, KeeperKinds, BroadcastStatus, TerminalStatuses
<1>2. ~SaysOver(NewGame)
  BY DEF SaysOver, NewGame, TerminalStatuses
<1>3. HandlerSilent(Idle)
  BY DEF HandlerSilent, Idle, Refreshing, Submitting
<1> QED
  BY <1>1, <1>2, <1>3

\* A submission is recorded: the game is in progress.
LEMMA RecordedSilent ==
    ASSUME NEW r, NEW M, NEW t, t.kind \in Kinds, t.kind # "creation" => RecordOK(r, M) /\ ~SaysOver(r)
    PROVE  ~SaysOver(Recorded(r, t))
<1>1. CASE t.kind = "creation"
  BY <1>1, RecordedCreation, StatusEnds
<1>2. CASE t.kind # "creation"
  <2>1. Recorded(r, t).status = BroadcastStatus(t.kind) /\ Recorded(r, t).completed = r.completed
    BY <1>2, RecordedIs DEF Is, Kinds, PlayerKinds
  <2> QED
    BY <1>2, <2>1, StatusEnds DEF SaysOver
<1> QED
  BY <1>1, <1>2

\* What readGame derives for a game that nothing ended on the chain.
LEMMA DerivedSilent ==
    ASSUME NEW r, RecordOK(r, Mined), r.status \notin TerminalStatuses
    PROVE  DerivedStatus(r) \notin TerminalStatuses \/ EndOnChain
<1>1. r.auto # None => BroadcastStatus(r.auto.tx.kind) \notin TerminalStatuses
  BY StatusEnds DEF RecordOK, Kinds
<1> DEFINE kinds(I) == {r.reveals[i].tx.kind : i \in I}
<1>2. CASE "settlement" \in kinds(Confirmed(r))
  <2>1. PICK i \in 1..Len(r.reveals) : r.reveals[i].status = "confirmed" /\ r.reveals[i].tx.kind = "settlement"
    BY <1>2 DEF Confirmed
  <2>2. r.reveals[i].tx \in Mined
    BY <2>1 DEF RecordOK, EntryOK
  <2> QED
    BY <2>1, <2>2 DEF EndOnChain, TerminalKinds
<1>3. CASE "settlement" \notin kinds(Confirmed(r))
  <2>1. \/ r.auto # None /\ DerivedStatus(r) = BroadcastStatus(r.auto.tx.kind)
        \/ DerivedStatus(r) \in {"first_revealed", "settlement_broadcast", "reveal_broadcast",
                                 "creator_refund_broadcast", "joined", "waiting_for_player_b",
                                 "observed", "stale", r.status}
    BY <1>3 DEF DerivedStatus
  <2>2. {"first_revealed", "settlement_broadcast", "reveal_broadcast", "creator_refund_broadcast", "joined",
         "waiting_for_player_b", "observed", "stale"} \cap TerminalStatuses = {}
    BY DEF TerminalStatuses
  <2> QED
    BY <1>1, <2>1, <2>2
<1> QED
  BY <1>2, <1>3

-----------------------------------------------------------------------------
\* The escrow is spent by one transaction after another, and by none after one
\* that leaves no output.
LEMMA TerminalStaysLast ==
    ASSUME ChainOK, TerminalLast, NEW t, t.kind \in Kinds, Accept(t)
    PROVE  TerminalLast'
<1> DEFINE n == Len(lineage)
<1>1. lineage \in Seq(ToSet(lineage)) /\ n \in Nat
  BY DEF ChainOK
<1>2. /\ Len(lineage') = n + 1
      /\ \A i \in 1..(n + 1) : lineage'[i] = IF i = n + 1 THEN t ELSE lineage[i]
  BY <1>1 DEF Accept
<1>3. ASSUME NEW i \in 1..n PROVE lineage[i].kind \notin TerminalKinds
  <2>1. lineage # <<>>
    BY <1>1, <1>3
  <2>2. t.kind # "creation"
    BY <2>1 DEF Accept, Acceptable
  <2>3. Tip.kind = Parent(t.kind)
    BY <2>2 DEF Accept, Acceptable
  <2>4. Parent(t.kind) \in {"creation", "join", "first"}
    BY <2>2 DEF Parent, Kinds, PlayerKinds, KeeperKinds
  <2>5. lineage[n].kind \notin TerminalKinds
    BY <2>1, <2>3, <2>4 DEF Tip, TerminalKinds, KeeperKinds
  <2> QED
    BY <2>5 DEF TerminalLast
<1> HIDE DEF n
<1>4. ASSUME NEW i \in 1..(n + 1), lineage'[i].kind \in TerminalKinds PROVE i = n + 1
  BY <1>1, <1>2, <1>3, <1>4
<1> QED
  BY <1>2, <1>4 DEF TerminalLast

\* The chain moves and drops nothing.
LEMMA EndStays ==
    ASSUME Mined \subseteq Mined', Accepted \subseteq Accepted', EndOnChain
    PROVE  EndOnChain'
  BY DEF EndOnChain

\* A step that leaves the chain to itself.
LEMMA ChainRests ==
    ASSUME IInv, UNCHANGED chainVars, faults'.drops = faults.drops
    PROVE  /\ TerminalLast => TerminalLast'
           /\ faults'.drops = 0 => faults.drops = 0 /\ Mined \subseteq Mined' /\ Accepted \subseteq Accepted'
<1>1. Mined' = Mined /\ Accepted' = Accepted
  BY ChainKept DEF IInv
<1>2. TerminalLast => TerminalLast'
  BY DEF TerminalLast, chainVars
<1> QED
  BY <1>1, <1>2

LEMMA SendChain ==
    ASSUME IInv, NEW h \in Procs, Send(h)
    PROVE  /\ TerminalLast => TerminalLast'
           /\ faults'.drops = 0 => faults.drops = 0 /\ Mined \subseteq Mined' /\ Accepted \subseteq Accepted'
<1>1. proc[h].tx.kind \in Kinds
  BY SubmitterOK DEF Send, Submitting
<1>2. faults'.drops = faults.drops
  BY DEF Send, IInv, StoreOK
<1>3. CASE UNCHANGED chainVars
  BY <1>2, <1>3, ChainRests
<1>4. CASE Accept(proc[h].tx)
  <2>1. Mined' = Mined /\ Accepted \subseteq Accepted'
    BY <1>1, <1>4, AcceptOK DEF IInv
  <2>2. TerminalLast => TerminalLast'
    BY <1>1, <1>4, TerminalStaysLast DEF IInv
  <2> QED
    BY <1>2, <2>1, <2>2
<1> QED
  BY <1>3, <1>4 DEF Send, ChainRefused

LEMMA EnvironmentChain ==
    ASSUME IInv, Environment
    PROVE  /\ TerminalLast => TerminalLast'
           /\ faults'.drops = 0 => faults.drops = 0 /\ Mined \subseteq Mined' /\ Accepted \subseteq Accepted'
<1>1. Mined \subseteq Mined'
  BY EnvironmentOK DEF Environment, IInv
<1>2. CASE (Mine \/ DeadlinePasses \/ AgePasses \/ SpendPayout) /\ UNCHANGED faults
  <2>1. lineage' = lineage
    BY <1>2 DEF Mine, DeadlinePasses, AgePasses, SpendPayout
  <2> QED
    BY <1>1, <1>2, <2>1 DEF TerminalLast, Accepted
<1>3. CASE Drop /\ faults' = [faults EXCEPT !.drops = @ + 1]
  <2>1. faults'.drops # 0
    BY <1>3 DEF IInv, StoreOK
  <2> DEFINE n == Len(lineage)
  <2>2. n \in Nat /\ mined \in 0..n /\ mined < n
    BY <1>3, DropIs DEF IInv
  <2>3. Len(lineage') = n - 1 /\ \A i \in 1..(n - 1) : lineage'[i] = lineage[i]
    BY <1>3, DropIs DEF IInv
  <2> HIDE DEF n
  <2>4. ASSUME TerminalLast PROVE TerminalLast'
    <3>1. \A i \in 1..(n - 1) : lineage'[i].kind \notin TerminalKinds
      BY <2>2, <2>3, <2>4 DEF TerminalLast, n
    <3> QED
      BY <2>3, <3>1 DEF TerminalLast
  <2> QED
    BY <2>1, <2>4
<1> QED
  BY <1>2, <1>3 DEF Environment

LEMMA NextChain ==
    ASSUME IInv, [Next]_vars
    PROVE  /\ TerminalLast => TerminalLast'
           /\ faults'.drops = 0 => faults.drops = 0 /\ Mined \subseteq Mined' /\ Accepted \subseteq Accepted'
<1> DEFINE Rests == UNCHANGED chainVars /\ faults'.drops = faults.drops
<1>0. faults \in [resubmits : Nat, crashes : Nat, lost : Nat, drops : Nat]
  BY DEF IInv, StoreOK
<1>1. CASE UNCHANGED vars
  BY <1>1, ChainRests DEF vars
<1>2. ASSUME NEW s \in Slots, NEW t \in prepared \cup ephemeral, Submit(s, t) PROVE Rests
  BY <1>0, <1>2 DEF Submit
<1>3. ASSUME NEW s \in Slots, \/ StartRead(s) \/ StartPrepareRefund(s)
                              \/ \E p \in Players : StartPrepareReveal(s, p)
      PROVE  Rests
  BY <1>3 DEF StartRead, StartPrepareRefund, StartPrepareReveal, StartRefresh
<1>4. ASSUME NEW p \in Joiners, PrepareJoin(p) PROVE Rests
  BY <1>4 DEF PrepareJoin
<1>5. ASSUME NEW h \in Procs, Step(h) PROVE Rests \/ Send(h)
  <2>1. CASE ClaimOperation(h) \/ SaveBroadcast(h) \/ SaveFailed(h) \/ Record(h)
    BY <2>1 DEF ClaimOperation, SaveBroadcast, SaveFailed, Record
  <2>2. CASE Observe(h) \/ SaveRefreshed(h) \/ ReadTail(h) \/ UpdateStatus(h)
    BY <2>2 DEF Observe, SaveRefreshed, ReadTail, UpdateStatus
  <2>3. CASE PrepareRevealTail(h) \/ PrepareRefundTail(h) \/ KeepTail
    BY <2>3 DEF PrepareRevealTail, PrepareRefundTail, KeepTail
  <2> QED
    BY <1>5, <2>1, <2>2, <2>3 DEF Step
<1>6. CASE StartKeep
  BY <1>6, ChainRests DEF StartKeep, StartRefresh
<1>7. CASE Reconcile \/ Crash \/ ClaimExpires \/ Restart
  <2>1. Rests
    BY <1>0, <1>7 DEF Reconcile, Crash, ClaimExpires, Restart
  <2> QED
    BY <2>1, ChainRests
<1>8. CASE Environment
  BY <1>8, EnvironmentChain
<1> QED
  BY <1>1, <1>2, <1>3, <1>4, <1>5, <1>6, <1>7, <1>8, ChainRests, SendChain DEF Next

-----------------------------------------------------------------------------
\* Nobody says that the game is over.
Silent == StoreSilent /\ HandlersSilent

StoreMoves == game' = game \/ ~SaysOver(game')

\* One handler moves and the others know what they knew.
LEMMA SilentMoves ==
    ASSUME Silent, NEW h \in Procs, StoreMoves,
           \A i \in Procs \ {h} : proc'[i] = proc[i], HandlerSilent(proc'[h]),
           proc'[h].pc \in Refreshing => proc[h].pc \in Refreshing \/ game # None
    PROVE  Silent'
<1>1. HandlersSilent'
  BY DEF HandlersSilent, Silent
<1>2. StoreSilent'
  <2>1. CASE game' = game
    <3>1. (\E i \in Procs : proc'[i].pc \in Refreshing)
             => game # None \/ \E i \in Procs : proc[i].pc \in Refreshing
      OBVIOUS
    <3> QED
      BY <2>1, <3>1 DEF Silent, StoreSilent
  <2>2. CASE ~SaysOver(game')
    BY <2>2 DEF StoreSilent
  <2> QED
    BY <2>1, <2>2 DEF StoreMoves
<1> QED
  BY <1>1, <1>2 DEF Silent

LEMMA IdleSilent ==
    ASSUME IInv, Silent, NEW h \in Procs, StoreMoves, proc' = [proc EXCEPT ![h] = Idle]
    PROVE  Silent'
<1>1. proc'[h] = Idle /\ \A i \in Procs \ {h} : proc'[i] = proc[i]
  BY DEF IInv, ProcOK
<1>2. proc'[h].pc \notin Refreshing
  BY <1>1 DEF Idle, Refreshing
<1> QED
  BY <1>1, <1>2, StatusEnds, SilentMoves

LEMMA GotoSilent ==
    ASSUME IInv, Silent, NEW h \in Procs, StoreMoves, NEW pc, Goto(h, pc), pc # "updateStatus",
           \/ proc[h].pc \in Submitting /\ pc \in Submitting
           \/ proc[h].pc \in Refreshing /\ pc \in Refreshing
    PROVE  Silent'
<1>1. HandlerSilent(proc[h])
  BY DEF Silent, HandlersSilent
<1>2. proc'[h].pc = pc /\ proc'[h].seen = proc[h].seen /\ proc'[h].tx = proc[h].tx
  BY GotoMoves
<1>3. Submitting \cap Refreshing = {}
  BY DEF Submitting, Refreshing
<1>4. HandlerSilent(proc'[h])
  BY <1>1, <1>2, <1>3 DEF HandlerSilent
<1> QED
  BY <1>2, <1>3, <1>4, GotoMoves, SilentMoves

LEMMA DispatchSilent ==
    ASSUME IInv, Silent, NEW h \in Procs, NEW task, NEW t, NEW r, Dispatch(h, task, t, r), StoreMoves,
           t.kind # "creation" => ~SaysOver(r)
    PROVE  Silent'
<1>1. CASE proc' = [proc EXCEPT ![h] = Idle]
  BY <1>1, IdleSilent
<1>2. CASE /\ \A i \in Procs \ {h} : proc'[i] = proc[i]
           /\ proc'[h].pc \in {"claim", "record"} /\ proc'[h].tx = t /\ proc'[h].seen = r
  <2>1. HandlerSilent(proc'[h]) /\ proc'[h].pc \notin Refreshing
    BY <1>2 DEF HandlerSilent, Submitting, Refreshing
  <2> QED
    BY <1>2, <2>1, SilentMoves
<1> QED
  BY <1>1, <1>2, DispatchIs

LEMMA SubmittingSilent ==
    ASSUME IInv, Silent, NEW h \in Procs,
           ClaimOperation(h) \/ Send(h) \/ SaveBroadcast(h) \/ SaveFailed(h) \/ Record(h)
    PROVE  Silent'
<1>1. CASE ClaimOperation(h) \/ Send(h) \/ SaveBroadcast(h)
  <2>1. game' = game
    BY <1>1 DEF ClaimOperation, Send, SaveBroadcast, storeVars
  <2>2. proc[h].pc \in Submitting /\ \E pc \in Submitting : pc # "updateStatus" /\ Goto(h, pc)
    BY <1>1 DEF ClaimOperation, Send, SaveBroadcast, Submitting
  <2>3. StoreMoves
    BY <2>1 DEF StoreMoves
  <2> QED
    BY <2>2, <2>3, GotoSilent
<1>2. CASE SaveFailed(h)
  <2>1. game' = game /\ proc' = [proc EXCEPT ![h] = Idle]
    BY <1>2 DEF SaveFailed, Finish
  <2>2. StoreMoves
    BY <2>1 DEF StoreMoves
  <2> QED
    BY <2>1, <2>2, IdleSilent
<1>3. CASE Record(h)
  <2>1. /\ game' = Recorded(proc[h].seen, proc[h].tx) /\ proc' = [proc EXCEPT ![h] = Idle]
        /\ proc[h].pc \in Submitting /\ proc[h].tx.kind \in Kinds
    BY <1>3, SubmitterOK DEF Record, Finish, Submitting
  <2>2. proc[h].tx.kind # "creation" => RecordOK(proc[h].seen, Mined) /\ ~SaysOver(proc[h].seen)
    BY <2>1 DEF IInv, ProcOK, HandlerOK, Silent, HandlersSilent, HandlerSilent
  <2>3. StoreMoves
    BY <2>1, <2>2, RecordedSilent DEF StoreMoves
  <2> QED
    BY <2>1, <2>3, IdleSilent
<1> QED
  BY <1>1, <1>2, <1>3

LEMMA SubmitSilent ==
    ASSUME IInv, Silent, NEW s \in Slots, NEW t \in prepared \cup ephemeral, Submit(s, t)
    PROVE  Silent'
<1>1. s \in Procs /\ Dispatch(s, "submit", t, game) /\ game' = game /\ MaySubmit(t)
  BY DEF Submit, Procs, storeVars
<1>2. t.kind # "creation" => game # None
  <2>1. t.kind \in {"creation", "join", "creator_refund", "first", "settlement"}
    BY DEF IInv, StoreOK
  <2> QED
    BY <1>1, <2>1 DEF MaySubmit
<1>3. StoreMoves /\ (t.kind # "creation" => ~SaysOver(game))
  BY <1>1, <1>2 DEF Silent, StoreSilent, StoreMoves
<1> QED
  BY <1>1, <1>3, DispatchSilent

LEMMA RefreshSilent ==
    ASSUME IInv, Silent, NEW h \in Procs, NEW task, NEW p, StartRefresh(h, task, p)
    PROVE  Silent'
<1>1. /\ game' = game /\ game # None
      /\ proc' = [proc EXCEPT ![h] = [Idle EXCEPT !.pc = "refresh", !.task = task, !.by = p,
                                               !.seen = game, !.todo = Phases(task)]]
  BY DEF StartRefresh, storeVars
<1>2. \A i \in Procs \ {h} : proc'[i] = proc[i]
  BY <1>1 DEF IInv, ProcOK
<1>3. proc'[h].pc = "refresh" /\ proc'[h].seen = game
  BY <1>1 DEF IInv, ProcOK, Idle
<1>4. StoreMoves /\ ~SaysOver(game)
  BY <1>1 DEF Silent, StoreSilent, StoreMoves
<1>5. HandlerSilent(proc'[h])
  BY <1>3, <1>4 DEF HandlerSilent, Submitting
<1> QED
  BY <1>1, <1>2, <1>4, <1>5, SilentMoves

\* A handler learns the end of a game from the chain.
LEMMA ObserveSilent ==
    ASSUME IInv, Silent, NEW h \in Procs, Observe(h)
    PROVE  Silent' \/ EndOnChain
<1> DEFINE todo == proc[h].todo
           news == {i \in 1..Len(todo) : Findings(proc[h].seen, todo[i]) # {}}
<1>1. /\ DOMAIN proc = Procs /\ DOMAIN proc[h] = {"pc", "task", "by", "tx", "seen", "todo", "status"}
      /\ RecordOK(proc[h].seen, Mined)
      /\ todo \in Seq({"reveals", "safety", "auto"})
      /\ game' = game /\ ~SaysOver(proc[h].seen) /\ proc[h].pc \in Refreshing
  BY DEF IInv, ProcOK, HandlerOK, Observe, Refreshing, storeVars, Silent, HandlersSilent, HandlerSilent
<1>2. StoreMoves
  BY <1>1 DEF StoreMoves
<1>3. CASE news = {}
  <2>1. proc' = [proc EXCEPT ![h].pc = "tail", ![h].todo = <<>>]
    BY <1>3 DEF Observe
  <2>2. /\ \A i \in Procs \ {h} : proc'[i] = proc[i]
        /\ proc'[h].pc = "tail" /\ proc'[h].seen = proc[h].seen
    BY <1>1, <2>1
  <2>3. HandlerSilent(proc'[h])
    BY <1>1, <2>2 DEF HandlerSilent, Submitting
  <2> QED
    BY <1>1, <1>2, <2>2, <2>3, SilentMoves
<1>4. CASE news # {}
  <2> DEFINE m == Min(news)
  <2>1. m \in 1..Len(todo)
    <3>1. news \in SUBSET Nat
      OBVIOUS
    <3> QED
      BY <1>4, <3>1, MinIsLeast
  <2>2. PICK r \in Findings(proc[h].seen, todo[m]) :
           proc' = [proc EXCEPT ![h].pc = "save", ![h].seen = r, ![h].todo = SubSeq(todo, m + 1, Len(todo))]
    BY <1>4 DEF Observe
  <2> HIDE DEF m
  <2>3. todo[m] \in {"reveals", "safety", "auto"}
    <3> HIDE DEF todo
    <3> QED
      BY <1>1, <2>1
  <2>4. r.completed = proc[h].seen.completed /\ (r.status \in TerminalStatuses => EndOnChain)
    BY <1>1, <2>2, <2>3, FindingsOK DEF IInv
  <2>5. /\ \A i \in Procs \ {h} : proc'[i] = proc[i]
        /\ proc'[h].pc = "save" /\ proc'[h].seen = r
    BY <1>1, <2>2
  <2>6. HandlerSilent(proc'[h]) \/ EndOnChain
    BY <1>1, <2>4, <2>5 DEF HandlerSilent, Submitting, SaysOver
  <2> QED
    BY <1>1, <1>2, <2>5, <2>6, SilentMoves
<1> QED
  BY <1>3, <1>4

LEMMA SaveRefreshedSilent ==
    ASSUME IInv, Silent, NEW h \in Procs, SaveRefreshed(h)
    PROVE  Silent'
<1>1. proc[h].pc = "save" /\ ~SaysOver(proc[h].seen)
  BY DEF SaveRefreshed, Silent, HandlersSilent, HandlerSilent, Refreshing
<1>2. game' = proc[h].seen
  BY <1>1 DEF SaveRefreshed, SaysOver
<1>3. StoreMoves
  BY <1>1, <1>2 DEF StoreMoves
<1>4. CASE proc' = [proc EXCEPT ![h] = Idle]
  BY <1>3, <1>4, IdleSilent
<1>5. CASE Goto(h, "refresh")
  BY <1>1, <1>3, <1>5, GotoSilent DEF Refreshing
<1> QED
  BY <1>4, <1>5 DEF SaveRefreshed

LEMMA TailsSilent ==
    ASSUME IInv, Silent, NEW h \in Procs, ReadTail(h) \/ PrepareRefundTail(h) \/ PrepareRevealTail(h)
    PROVE  Silent' \/ EndOnChain
<1>1. game' = game
  BY DEF ReadTail, PrepareRefundTail, PrepareRevealTail, storeVars
<1>2. StoreMoves
  BY <1>1 DEF StoreMoves
<1>3. CASE proc' = [proc EXCEPT ![h] = Idle]
  BY <1>2, <1>3, IdleSilent
<1> DEFINE s == DerivedStatus(proc[h].seen)
<1>4. CASE ReadTail(h) /\ proc' = [proc EXCEPT ![h].pc = "updateStatus", ![h].status = s]
  <2>1. /\ DOMAIN proc = Procs /\ DOMAIN proc[h] = {"pc", "task", "by", "tx", "seen", "todo", "status"}
        /\ RecordOK(proc[h].seen, Mined) /\ ~SaysOver(proc[h].seen) /\ proc[h].pc \in Refreshing
    BY <1>4 DEF ReadTail, IInv, ProcOK, HandlerOK, Silent, HandlersSilent, HandlerSilent, Refreshing
  <2>2. s \notin TerminalStatuses \/ EndOnChain
    BY <2>1, DerivedSilent DEF SaysOver
  <2> HIDE DEF s
  <2>3. /\ \A i \in Procs \ {h} : proc'[i] = proc[i]
        /\ proc'[h].pc = "updateStatus" /\ proc'[h].status = s /\ proc'[h].seen = proc[h].seen
    BY <1>4, <2>1
  <2>4. HandlerSilent(proc'[h]) \/ EndOnChain
    BY <2>1, <2>2, <2>3 DEF HandlerSilent, Submitting
  <2> QED
    BY <1>2, <2>1, <2>3, <2>4, SilentMoves
<1>5. ReadTail(h) => \/ proc' = [proc EXCEPT ![h] = Idle]
                     \/ proc' = [proc EXCEPT ![h].pc = "updateStatus", ![h].status = s]
  BY DEF ReadTail
<1>6. PrepareRefundTail(h) \/ PrepareRevealTail(h) => proc' = [proc EXCEPT ![h] = Idle]
  BY DEF PrepareRefundTail, PrepareRevealTail, Finish
<1> QED
  BY <1>3, <1>4, <1>5, <1>6

LEMMA UpdateStatusSilent ==
    ASSUME IInv, Silent, NEW h \in Procs, UpdateStatus(h)
    PROVE  Silent'
<1>1. /\ proc' = [proc EXCEPT ![h] = Idle] /\ proc[h].status \notin TerminalStatuses
      /\ DOMAIN game = {"status", "join", "reveals", "refunds", "auto", "completed"}
  BY DEF UpdateStatus, Silent, HandlersSilent, HandlerSilent, IInv, ProcOK, HandlerOK, RecordOK, Refreshing
<1>2. game' = game \/ game' = [game EXCEPT !.status = proc[h].status]
  BY DEF UpdateStatus
<1>3. ~SaysOver(game)
  BY DEF UpdateStatus, Silent, StoreSilent, Refreshing
<1>4. StoreMoves
  <2>1. CASE game' = [game EXCEPT !.status = proc[h].status]
    <3>1. game'.status = proc[h].status /\ game'.completed = game.completed
      BY <1>1, <2>1
    <3> QED
      BY <1>1, <1>3, <3>1 DEF StoreMoves, SaysOver
  <2> QED
    BY <1>2, <2>1 DEF StoreMoves
<1> QED
  BY <1>1, <1>4, IdleSilent

LEMMA KeepTailSilent ==
    ASSUME IInv, Silent, Keeper \in Procs, KeepTail
    PROVE  Silent'
<1> DEFINE r == proc[Keeper].seen
<1>1. ~SaysOver(r)
  BY DEF KeepTail, Refreshing, Silent, HandlersSilent, HandlerSilent
<1>2. \/ proc' = [proc EXCEPT ![Keeper] = Idle] /\ UNCHANGED storeVars
      \/ UNCHANGED storeVars /\ \E t \in DueTimeout(r) : Dispatch(Keeper, "keep", t, r)
  BY <1>1 DEF KeepTail, SaysOver
<1>3. StoreMoves
  BY <1>2 DEF StoreMoves, storeVars
<1> QED
  BY <1>1, <1>2, <1>3, IdleSilent, DispatchSilent

LEMMA StepSilent ==
    ASSUME IInv, Silent, NEW h \in Procs, Step(h)
    PROVE  Silent' \/ EndOnChain
  BY SubmittingSilent, ObserveSilent, SaveRefreshedSilent, TailsSilent, UpdateStatusSilent,
     KeepTailSilent DEF Step

\* The record of a transaction the handler of a submission left behind.
LEMMA ReconcileSilent ==
    ASSUME IInv, Silent, Reconcile
    PROVE  Silent'
<1>1. PICK t \in DOMAIN ops : Unrecorded(t) /\ game' = Recorded(game, t)
  BY DEF Reconcile
<1>2. t.kind \in Kinds
  BY DEF IInv, StoreOK
<1>3. t.kind # "creation" => game # None
  BY <1>1, <1>2 DEF Unrecorded, Kinds, PlayerKinds
<1>4. t.kind # "creation" => RecordOK(game, Mined) /\ ~SaysOver(game)
  BY <1>3 DEF IInv, StoreOK, Silent, StoreSilent
<1>5. ~SaysOver(game')
  BY <1>1, <1>2, <1>4, RecordedSilent
<1>6. proc' = proc
  BY DEF Reconcile
<1> QED
  BY <1>5, <1>6 DEF Silent, StoreSilent, HandlersSilent

LEMMA CrashSilent ==
    ASSUME Silent, Crash
    PROVE  Silent'
<1>1. game' = game /\ \A h \in Procs : proc'[h] = Idle
  BY DEF Crash
<1>2. Idle.pc \notin Refreshing /\ HandlerSilent(Idle)
  BY StatusEnds DEF Idle, Refreshing
<1> QED
  BY <1>1, <1>2 DEF Silent, StoreSilent, HandlersSilent

LEMMA RestSilent == ASSUME Silent, UNCHANGED <<game, proc>> PROVE Silent'
  BY DEF Silent, StoreSilent, HandlersSilent

LEMMA NextSilent ==
    ASSUME IInv, Silent, [Next]_vars
    PROVE  Silent' \/ EndOnChain
<1>1. CASE UNCHANGED vars
  BY <1>1, RestSilent DEF vars, storeVars
<1>2. ASSUME NEW s \in Slots, NEW t \in prepared \cup ephemeral, Submit(s, t) PROVE Silent'
  BY <1>2, SubmitSilent
<1>3. ASSUME NEW s \in Slots, \/ StartRead(s) \/ StartPrepareRefund(s)
                              \/ \E p \in Players : StartPrepareReveal(s, p)
      PROVE  Silent'
  BY <1>3, RefreshSilent DEF StartRead, StartPrepareRefund, StartPrepareReveal, Procs
<1>4. ASSUME NEW p \in Joiners, PrepareJoin(p) PROVE Silent'
  BY <1>4, RestSilent DEF PrepareJoin
<1>5. ASSUME NEW h \in Procs, Step(h) PROVE Silent' \/ EndOnChain
  BY <1>5, StepSilent
<1>6. CASE StartKeep
  BY <1>6, RefreshSilent DEF StartKeep, Procs
<1>7. CASE Reconcile \/ Crash
  BY <1>7, ReconcileSilent, CrashSilent
<1>8. CASE ClaimExpires \/ Restart \/ Environment
  BY <1>8, RestSilent DEF ClaimExpires, Restart, Environment, storeVars
<1> QED
  BY <1>1, <1>2, <1>3, <1>4, <1>5, <1>6, <1>7, <1>8 DEF Next

LEMMA NextEnds == IInv /\ KInv /\ [Next]_vars => KInv'
<1> SUFFICES ASSUME IInv, KInv, [Next]_vars PROVE KInv'
  OBVIOUS
<1>1. TerminalLast'
  BY NextChain DEF KInv
<1>2. ASSUME faults'.drops = 0 PROVE EndOnChain' \/ (StoreSilent' /\ HandlersSilent')
  <2>1. faults.drops = 0 /\ Mined \subseteq Mined' /\ Accepted \subseteq Accepted'
    BY <1>2, NextChain
  <2>2. EndOnChain \/ Silent
    BY <2>1 DEF KInv, Silent
  <2>3. EndOnChain => EndOnChain'
    BY <2>1, EndStays
  <2>4. Silent => Silent' \/ EndOnChain
    BY NextSilent
  <2> QED
    BY <2>2, <2>3, <2>4 DEF Silent
<1> QED
  BY <1>1, <1>2 DEF KInv

LEMMA InitEnds == Init => KInv
<1> SUFFICES ASSUME Init PROVE KInv
  OBVIOUS
<1>1. TerminalLast
  <2>1. \A i \in 1..Len(History) : History[i].kind \in {"creation", "join"}
    BY HistoryKinds
  <2> QED
    BY <2>1 DEF Init, TerminalLast, TerminalKinds, KeeperKinds
<1>2. HandlersSilent /\ \A h \in Procs : proc[h].pc \notin Refreshing
  BY StatusEnds DEF Init, HandlersSilent, Idle, Refreshing
<1>3. game # None => ~SaysOver(game)
  <2>1. JoinTx.kind \in Kinds /\ RecordOK(NewGame, Mined)
    BY HistoryKinds, NewGameOK DEF Kinds, PlayerKinds
  <2>2. ~SaysOver(Recorded(NewGame, JoinTx))
    BY <2>1, StatusEnds, RecordedSilent
  <2>3. game \in {None, NewGame, Recorded(NewGame, JoinTx)}
    BY StartAssumption DEF Init
  <2> QED
    BY <2>2, <2>3, StatusEnds
<1> QED
  BY <1>1, <1>2, <1>3 DEF KInv, StoreSilent

\* As long as the mempool forgets nothing, a record is closed for good only
\* when a player's settlement or refund is in a block, or the node took the
\* keeper's timeout and nothing else can spend the escrow (#completeGame and
\* #refreshAutomaticSettlement, backend-game-service.js:1398-1405): whatever
\* was submitted twice, lost on the way or cut off by a restart, and however
\* old the record was that a handler worked on.
THEOREM CompletedAreSpent == Spec => []CompletedOnceSpent
<1>1. IInv /\ KInv => CompletedOnceSpent
  <2> SUFFICES ASSUME IInv, KInv, game # None, game.completed, faults.drops = 0
               PROVE  Closed \/ (lineage # <<>> /\ Tip.kind \in KeeperKinds)
    BY DEF CompletedOnceSpent
  <2>1. EndOnChain
    BY DEF KInv, StoreSilent, SaysOver
  <2> QED
    BY <2>1, ClosedByTheLast DEF KInv, IInv
<1> QED
  BY <1>1, InitInv, NextInv, InitEnds, NextEnds, PTL DEF Spec

-----------------------------------------------------------------------------
(***************************************************************************)
(* The blocks follow the script.  The inductive part says of the whole     *)
(* lineage, mempool included, what the script checked when the node took   *)
(* each transaction, and that no clock it read has been set back since.    *)
(***************************************************************************)
Waited == {"refund_all", "fallback_claim"}

LinkOK(i) ==
    LET t == lineage[i]
    IN /\ i = 1 => t.kind = "creation"
       /\ i > 1 => t.on = lineage[i - 1] /\ t.on.kind = Parent(t.kind)
       /\ t.kind = "join" => t.by \in Joiners /\ t.by # Creator
       /\ t.kind = "first" => t.by \in {Creator, t.on.by}
       /\ t.kind = "settlement" => t.by \in {Creator, t.on.on.by} \ {t.on.by}
       /\ t.kind = "refund_open" => expired
       /\ t.kind \in Waited /\ i > mined => i = mined + 1 /\ aged

LinksOK == \A i \in 1..Len(lineage) : LinkOK(i)

\* Only the output of a join or of a first reveal is waited for.
AgedOK == aged => LastKind \in {"join", "first"}

\* A join is one of the joiners' wherever it waits to be sent.
JoinerTx(t) == t.kind = "join" => t.by \in Joiners

JoinersOK ==
    /\ \A t \in prepared : JoinerTx(t)
    /\ \A h \in Procs : proc[h].pc \in Submitting => JoinerTx(proc[h].tx)

LInv == LinksOK /\ AgedOK /\ JoinersOK

-----------------------------------------------------------------------------
\* Where a transaction of each kind can be.
Position(kind) ==
    CASE kind = "creation" -> 1
      [] kind \in OnCreation -> 2
      [] kind \in {"first", "refund_all"} -> 3
      [] kind \in {"settlement", "fallback_claim"} -> 4

LEMMA KindsAre ==
    /\ Kinds = {"creation", "join", "creator_refund", "first", "settlement",
                "refund_open", "refund_all", "fallback_claim"}
    /\ TerminalKinds = {"creator_refund", "settlement", "refund_open", "refund_all", "fallback_claim"}
  BY DEF Kinds, PlayerKinds, KeeperKinds, TerminalKinds

LEMMA PositionIs ==
    /\ Position("creation") = 1
    /\ \A k \in OnCreation : Position(k) = 2
    /\ \A k \in {"first", "refund_all"} : Position(k) = 3
    /\ \A k \in {"settlement", "fallback_claim"} : Position(k) = 4
  BY DEF Position, OnCreation

LEMMA InPosition ==
    ASSUME ChainOK, LinksOK, NEW i \in 1..Len(lineage)
    PROVE  i = Position(lineage[i].kind)
<1> DEFINE n == Len(lineage)
           k(j) == lineage[j].kind
<1>1. n \in Nat /\ i \in 1..n
  BY DEF ChainOK
<1>2. \A j \in 1..n : /\ k(j) \in Kinds
                      /\ k(j) = "creation" => j = 1
                      /\ k(j) \in OnCreation => j = 2
  BY DEF ChainOK
<1>3. \A j \in 1..n : (j = 1 => k(j) = "creation") /\ (j > 1 => k(j - 1) = Parent(k(j)))
  BY DEF LinksOK, LinkOK
<1> HIDE DEF n, k
<1>4. ASSUME NEW j \in 1..n, k(j) \in {"first", "refund_all"} PROVE j = 3
  <2>1. j > 1 /\ j - 1 \in 1..n
    BY <1>1, <1>3, <1>4
  <2>2. k(j - 1) = "join"
    BY <1>3, <1>4, <2>1 DEF Parent
  <2> QED
    BY <1>2, <2>1, <2>2 DEF OnCreation
<1>5. ASSUME NEW j \in 1..n, k(j) \in {"settlement", "fallback_claim"} PROVE j = 4
  <2>1. j > 1 /\ j - 1 \in 1..n
    BY <1>1, <1>3, <1>5
  <2>2. k(j - 1) = "first"
    BY <1>3, <1>5, <2>1 DEF Parent
  <2> QED
    BY <1>4, <2>1, <2>2
<1>6. i = Position(k(i))
  <2>1. k(i) \in Kinds
    BY <1>1, <1>2
  <2>2. CASE k(i) = "creation"
    BY <1>1, <1>2, <2>2 DEF Position
  <2>3. CASE k(i) \in OnCreation
    BY <1>1, <1>2, <2>3 DEF Position, OnCreation
  <2>4. CASE k(i) \in {"first", "refund_all"}
    BY <1>1, <1>4, <2>4 DEF Position, OnCreation
  <2>5. CASE k(i) \in {"settlement", "fallback_claim"}
    BY <1>1, <1>5, <2>5 DEF Position, OnCreation
  <2> QED
    BY <2>1, <2>2, <2>3, <2>4, <2>5, KindsAre DEF OnCreation
<1> QED
  BY <1>6 DEF k

\* Nothing is left of a link when the lineage keeps it and no clock goes back.
LEMMA LinkStays ==
    ASSUME NEW i \in 1..Len(lineage), LinkOK(i), lineage'[i] = lineage[i],
           i > 1 => lineage'[i - 1] = lineage[i - 1],
           expired => expired',
           lineage[i].kind \in Waited /\ i > mined' => i > mined /\ mined' = mined /\ (aged => aged')
    PROVE  LinkOK(i)'
  BY DEF LinkOK

LEMMA AcceptLinks ==
    ASSUME ChainOK, LinksOK, AgedOK, NEW t, t.kind \in Kinds, JoinerTx(t), Accept(t)
    PROVE  LinksOK' /\ AgedOK'
<1> DEFINE n == Len(lineage)
<1>1. lineage \in Seq(ToSet(lineage)) /\ n \in Nat /\ mined \in 0..n
  BY DEF ChainOK
<1>2. /\ Len(lineage') = n + 1
      /\ \A i \in 1..(n + 1) : lineage'[i] = IF i = n + 1 THEN t ELSE lineage[i]
      /\ mined' = mined /\ expired' = expired /\ aged' = aged
  BY <1>1 DEF Accept
<1>3. /\ t.on = Tip
      /\ t.kind = "creation" => lineage = <<>>
      /\ t.kind # "creation" => t.on # None /\ t.on.kind = Parent(t.kind)
      /\ CovenantAllows(t, t.on)
  BY DEF Accept, Acceptable
<1>4. n = 0 => t.kind = "creation"
  BY <1>1, <1>3 DEF Tip
<1>5. n > 0 => t.kind # "creation" /\ Tip = lineage[n]
  BY <1>1, <1>3 DEF Tip
<1> HIDE DEF n
<1>6. ASSUME NEW i \in 1..n PROVE LinkOK(i)'
  <2>1. i \in 1..Len(lineage) /\ lineage'[i] = lineage[i] /\ (i > 1 => lineage'[i - 1] = lineage[i - 1])
    BY <1>1, <1>2 DEF n
  <2>2. LinkOK(i)
    BY <2>1 DEF LinksOK
  <2> QED
    BY <1>2, <2>1, <2>2, LinkStays
<1>7. ASSUME t.kind \in Waited PROVE aged /\ mined = n
  <2>1. aged /\ LastMined = t.on /\ t.on # None
    BY <1>3, <1>7 DEF CovenantAllows, Unspent, Waited
  <2>2. n > 0
    BY <1>1, <1>4, <1>7 DEF Waited
  <2>3. mined > 0 /\ lineage[mined] = lineage[n]
    BY <1>1, <1>3, <1>5, <2>1, <2>2 DEF LastMined
  <2>4. mined = Position(lineage[mined].kind) /\ n = Position(lineage[n].kind)
    BY <1>1, <2>2, <2>3, InPosition DEF n
  <2> QED
    BY <2>1, <2>3, <2>4
<1>8. ASSUME NEW j, j = n + 1 PROVE LinkOK(j)'
  <2>1. lineage'[j] = t /\ (j > 1 => t.on = lineage'[j - 1])
    BY <1>1, <1>2, <1>3, <1>5, <1>8
  <2>2. t.kind = "join" => t.by \in Joiners /\ t.by # Creator
    BY <1>3 DEF CovenantAllows, JoinerTx
  <2>3. t.kind = "first" => t.by \in {Creator, t.on.by}
    BY <1>3 DEF CovenantAllows, JoinerOf, Parent
  <2>4. t.kind = "settlement" => t.by \in {Creator, t.on.on.by} \ {t.on.by}
    BY <1>3 DEF CovenantAllows, JoinerOf, Parent
  <2>5. t.kind = "refund_open" => expired'
    BY <1>2, <1>3 DEF CovenantAllows
  <2>6. (j = 1 => t.kind = "creation") /\ (j > 1 => t.on.kind = Parent(t.kind))
    BY <1>1, <1>3, <1>4, <1>5, <1>8
  <2>7. t.kind \in Waited => j = mined' + 1 /\ aged'
    BY <1>1, <1>2, <1>7, <1>8
  <2> QED
    BY <2>1, <2>2, <2>3, <2>4, <2>5, <2>6, <2>7 DEF LinkOK
<1>9. LinksOK'
  <2> SUFFICES ASSUME NEW i \in 1..(n + 1) PROVE LinkOK(i)'
    BY <1>2 DEF LinksOK
  <2>1. i \in 1..n \/ i = n + 1
    BY <1>1
  <2> QED
    BY <1>6, <1>8, <2>1
<1>10. AgedOK'
  <2>1. mined > 0 => mined \in 1..(n + 1) /\ mined # n + 1
    BY <1>1
  <2>2. LastKind' = LastKind
    BY <1>1, <1>2, <2>1 DEF LastKind
  <2> QED
    BY <1>2, <2>2 DEF AgedOK
<1> QED
  BY <1>9, <1>10

\* The lineage is left alone.
LEMMA LinksKept ==
    ASSUME ChainOK, LinksOK, lineage' = lineage, mined' = mined, expired => expired', aged => aged'
    PROVE  LinksOK'
<1> SUFFICES ASSUME NEW i \in 1..Len(lineage) PROVE LinkOK(i)'
  BY DEF LinksOK
<1>1. LinkOK(i)
  BY DEF LinksOK
<1> QED
  BY <1>1, LinkStays

LEMMA EnvironmentLinks ==
    ASSUME ChainOK, LinksOK, AgedOK, Mine \/ DeadlinePasses \/ AgePasses \/ SpendPayout \/ Drop
    PROVE  LinksOK' /\ AgedOK'
<1> DEFINE n == Len(lineage)
<1>1. n \in Nat /\ mined \in 0..n /\ expired \in BOOLEAN /\ aged \in BOOLEAN
  BY DEF ChainOK
<1>2. CASE Mine
  <2>1. lineage' = lineage /\ mined' = mined + 1 /\ aged' = FALSE /\ expired' = expired
    BY <1>2 DEF Mine
  <2>2. ASSUME NEW i \in 1..n PROVE LinkOK(i)'
    <3>1. LinkOK(i)
      BY <2>2 DEF LinksOK
    <3>2. ~(lineage[i].kind \in Waited /\ i > mined')
      BY <1>1, <2>1, <3>1 DEF LinkOK
    <3> QED
      BY <2>1, <3>1, <3>2, LinkStays
  <2> QED
    BY <2>1, <2>2 DEF LinksOK, AgedOK
<1>3. CASE DeadlinePasses
  <2>1. LinksOK'
    BY <1>3, LinksKept DEF DeadlinePasses
  <2> QED
    BY <1>3, <2>1 DEF DeadlinePasses, AgedOK, LastKind
<1>4. CASE AgePasses
  <2>1. LinksOK'
    BY <1>4, LinksKept DEF AgePasses
  <2>2. LastKind \in {"join", "first"} /\ LastKind' = LastKind
    BY <1>4 DEF AgePasses, LastMined, LastKind
  <2> QED
    BY <2>1, <2>2 DEF AgedOK
<1>5. CASE SpendPayout
  <2>1. LinksOK'
    BY <1>5, LinksKept DEF SpendPayout
  <2> QED
    BY <1>5, <2>1 DEF SpendPayout, AgedOK, LastKind
<1>6. CASE Drop
  <2>1. /\ mined < n /\ Len(lineage') = n - 1 /\ \A i \in 1..(n - 1) : lineage'[i] = lineage[i]
        /\ mined' = mined /\ expired' = expired /\ aged' = aged
    BY <1>6, DropIs DEF Drop
  <2> HIDE DEF n
  <2>2. ASSUME NEW i \in 1..(n - 1) PROVE LinkOK(i)'
    <3>1. i \in 1..n /\ (i > 1 => i - 1 \in 1..(n - 1))
      BY <1>1
    <3>2. i \in 1..Len(lineage) /\ LinkOK(i)
      BY <3>1 DEF LinksOK, n
    <3> QED
      BY <2>1, <3>1, <3>2, LinkStays
  <2>3. LinksOK'
    BY <2>1, <2>2 DEF LinksOK
  <2>4. LastKind' = LastKind
    <3>1. mined > 0 => mined \in 1..(n - 1)
      BY <1>1, <2>1
    <3> QED
      BY <1>1, <2>1, <3>1 DEF LastKind
  <2> QED
    BY <2>1, <2>3, <2>4 DEF AgedOK
<1> QED
  BY <1>2, <1>3, <1>4, <1>5, <1>6

-----------------------------------------------------------------------------
\* What is not mined is no part of the history.
LEMMA HistoryKept ==
    ASSUME ChainOK, mined' = mined, \A i \in 1..mined : lineage'[i] = lineage[i]
    PROVE  /\ LastKind' = LastKind /\ Phase' = Phase /\ Ending' = Ending
           /\ AuthorOf(2, "join")' = AuthorOf(2, "join")
           /\ AuthorOf(3, "first")' = AuthorOf(3, "first")
<1>1. mined \in Nat /\ (mined # 0 => mined \in 1..mined)
  BY DEF ChainOK
<1>2. LastKind' = LastKind
  BY <1>1 DEF LastKind
<1> QED
  BY <1>2 DEF Phase, Ending, AuthorOf

\* A block adds the entry that its transaction calls.
LEMMA MineFollows ==
    ASSUME ChainOK, LinksOK, AgedOK, Mine
    PROVE  [E!Next]_(E!vars)
<1> DEFINE m == mined
           t == lineage[m + 1]
           seat == AuthorOf(2, "join")
           lead == AuthorOf(3, "first")
<1>1. /\ m \in Nat /\ m + 1 \in 1..Len(lineage) /\ Len(lineage) \in Nat
      /\ mined' = m + 1 /\ lineage' = lineage /\ aged' = FALSE /\ expired' = expired
  BY DEF ChainOK, Mine
<1>2. t.kind \in Kinds /\ m + 1 = Position(t.kind) /\ LinkOK(m + 1)
  BY <1>1, InPosition DEF ChainOK, LinksOK
<1>3. m > 0 => m \in 1..Len(lineage) /\ m = Position(LastKind) /\ LastKind = Parent(t.kind) /\ t.on = lineage[m]
  <2> SUFFICES ASSUME m > 0 PROVE m \in 1..Len(lineage) /\ m = Position(LastKind) /\ LastKind = Parent(t.kind) /\ t.on = lineage[m]
    OBVIOUS
  <2>1. m \in 1..Len(lineage) /\ LastKind = lineage[m].kind
    BY <1>1 DEF LastKind
  <2>2. m + 1 > 1 /\ (m + 1) - 1 = m
    BY <1>1
  <2>3. t.on = lineage[m] /\ t.on.kind = Parent(t.kind)
    BY <1>2, <2>2 DEF LinkOK
  <2> QED
    BY <2>1, <2>3, InPosition
<1>4. LastKind' = t.kind
  BY <1>1 DEF LastKind
<1>5. /\ Phase' = CASE t.kind = "creation" -> "waiting" [] t.kind = "join" -> "joined"
                    [] t.kind = "first" -> "revealed" [] OTHER -> "over"
      /\ Ending' = IF t.kind \in TerminalKinds THEN EntryOf(t.kind) ELSE "none"
  BY <1>4 DEF Phase, Ending
<1>6. CASE t.kind = "creation"
  <2>1. m = 0
    BY <1>1, <1>2, <1>6, PositionIs
  <2>2. LastKind = "creation" /\ aged = FALSE
    BY <2>1 DEF LastKind, AgedOK, ChainOK
  <2>3. seat = None /\ seat' = None /\ lead = None /\ lead' = None
    BY <1>1, <2>1 DEF AuthorOf
  <2>4. Phase' = Phase /\ Ending' = Ending
    BY <1>4, <1>6, <2>2 DEF Phase, Ending
  <2> QED
    BY <1>1, <2>2, <2>3, <2>4 DEF E!vars
<1>7. CASE t.kind \in OnCreation
  <2>1. m = 1
    BY <1>1, <1>2, <1>7, PositionIs
  <2>2. LastKind = "creation"
    BY <1>3, <1>7, <2>1 DEF Parent, OnCreation
  <2>3. Phase = "waiting" /\ Ending = "none"
    BY <2>2, KindsAre DEF Phase, Ending
  <2>4. seat = None /\ lead = None /\ lead' = None
    BY <1>1, <2>1 DEF AuthorOf
  <2>5. seat' = IF t.kind = "join" THEN t.by ELSE None
    BY <1>1, <2>1 DEF AuthorOf
  <2>6. CASE t.kind = "join"
    <3>1. t.by \in Players /\ t.by # Creator
      BY <1>2, <2>6 DEF LinkOK, Players
    <3>2. E!Join(t.by)
      BY <1>1, <1>5, <2>3, <2>4, <2>5, <2>6, <3>1, KindsAre DEF E!Join
    <3> QED
      BY <3>1, <3>2 DEF E!Next
  <2>7. CASE t.kind = "creator_refund"
    <3>1. E!Withdraw
      BY <1>1, <1>5, <2>3, <2>4, <2>5, <2>7, KindsAre DEF E!Withdraw, E!Over, EntryOf
    <3> QED
      BY <3>1 DEF E!Next
  <2>8. CASE t.kind = "refund_open"
    <3>1. expired
      BY <1>2, <2>8 DEF LinkOK
    <3>2. E!Expire
      BY <1>1, <1>5, <2>3, <2>4, <2>5, <2>8, <3>1, KindsAre DEF E!Expire, E!Over, EntryOf
    <3> QED
      BY <3>2 DEF E!Next
  <2> QED
    BY <1>7, <2>6, <2>7, <2>8 DEF OnCreation
<1>8. CASE t.kind \in {"first", "refund_all"}
  <2>1. m = 2
    BY <1>1, <1>2, <1>8, PositionIs
  <2>2. LastKind = "join" /\ lineage[2].kind = "join" /\ t.on = lineage[2]
    BY <1>3, <1>8, <2>1 DEF Parent, LastKind
  <2>3. Phase = "joined" /\ Ending = "none"
    BY <2>2, KindsAre DEF Phase, Ending
  <2>4. seat = lineage[2].by /\ seat' = lineage[2].by /\ lead = None
    BY <1>1, <2>1, <2>2 DEF AuthorOf
  <2>5. lead' = IF t.kind = "first" THEN t.by ELSE None
    BY <1>1, <2>1 DEF AuthorOf
  <2>6. CASE t.kind = "first"
    <3>1. t.by \in {Creator, seat}
      BY <1>2, <2>2, <2>4, <2>6 DEF LinkOK
    <3>2. E!Lead(t.by)
      BY <1>1, <1>5, <2>3, <2>4, <2>5, <2>6, <3>1, KindsAre DEF E!Lead
    <3>3. seat \in Players
      <4>1. 2 \in 1..Len(lineage) /\ LinkOK(2)
        BY <1>1, <2>1 DEF LinksOK
      <4> QED
        BY <2>2, <2>4, <4>1 DEF LinkOK, Players
    <3> QED
      BY <3>1, <3>2, <3>3 DEF E!Next, Players
  <2>7. CASE t.kind = "refund_all"
    <3>1. aged
      BY <1>1, <1>2, <2>7 DEF LinkOK, Waited
    <3>2. E!CallOff
      BY <1>1, <1>5, <2>3, <2>4, <2>5, <2>7, <3>1, KindsAre DEF E!CallOff, E!Over, EntryOf
    <3> QED
      BY <3>2 DEF E!Next
  <2> QED
    BY <1>8, <2>6, <2>7
<1>9. CASE t.kind \in {"settlement", "fallback_claim"}
  <2>1. m = 3
    BY <1>1, <1>2, <1>9, PositionIs
  <2>2. LastKind = "first" /\ lineage[3].kind = "first" /\ t.on = lineage[3]
    BY <1>3, <1>9, <2>1 DEF Parent, LastKind
  <2>3. lineage[3].on = lineage[2] /\ lineage[2].kind = "join" /\ lineage[2].by \in Players
    <3>1. 3 \in 1..Len(lineage) /\ LinkOK(3) /\ 2 \in 1..Len(lineage) /\ LinkOK(2) /\ 3 > 1 /\ 3 - 1 = 2
      BY <1>1, <2>1 DEF LinksOK
    <3>2. lineage[3].on = lineage[2] /\ lineage[2].kind = "join"
      BY <2>2, <3>1 DEF LinkOK, Parent
    <3> QED
      BY <3>1, <3>2 DEF LinkOK, Players
  <2>4. Phase = "revealed" /\ Ending = "none"
    BY <2>2, KindsAre DEF Phase, Ending
  <2>5. /\ seat = lineage[2].by /\ seat' = lineage[2].by
        /\ lead = lineage[3].by /\ lead' = lineage[3].by
    BY <1>1, <2>1, <2>2, <2>3 DEF AuthorOf
  <2>6. CASE t.kind = "settlement"
    <3>1. t.by \in {Creator, seat} \ {lead}
      BY <1>2, <2>2, <2>3, <2>5, <2>6 DEF LinkOK
    <3>2. E!Settle(t.by)
      BY <1>1, <1>5, <2>4, <2>5, <2>6, <3>1, KindsAre DEF E!Settle, E!Over, EntryOf
    <3> QED
      BY <2>3, <2>5, <3>1, <3>2 DEF E!Next, Players
  <2>7. CASE t.kind = "fallback_claim"
    <3>1. aged
      BY <1>1, <1>2, <2>7 DEF LinkOK, Waited
    <3>2. E!Forfeit
      BY <1>1, <1>5, <2>4, <2>5, <2>7, <3>1, KindsAre DEF E!Forfeit, E!Over, EntryOf
    <3> QED
      BY <3>2 DEF E!Next
  <2> QED
    BY <1>9, <2>6, <2>7
<1> QED
  BY <1>2, <1>6, <1>7, <1>8, <1>9, KindsAre DEF OnCreation

\* The mempool and the clocks.
LEMMA RestFollows ==
    ASSUME ChainOK, AgedOK
    PROVE  /\ UNCHANGED chainVars => [E!Next]_(E!vars)
           /\ \A t : Accept(t) => [E!Next]_(E!vars)
           /\ DeadlinePasses \/ AgePasses \/ SpendPayout \/ Drop => [E!Next]_(E!vars)
<1> DEFINE n == Len(lineage)
<1>1. lineage \in Seq(ToSet(lineage)) /\ n \in Nat /\ mined \in 0..n /\ expired \in BOOLEAN /\ aged \in BOOLEAN
  BY DEF ChainOK
<1>2. ASSUME mined' = mined, \A i \in 1..mined : lineage'[i] = lineage[i], expired' = expired, aged' = aged
      PROVE  UNCHANGED E!vars
  BY <1>2, HistoryKept DEF E!vars
<1>3. UNCHANGED chainVars => [E!Next]_(E!vars)
  BY <1>2 DEF chainVars
<1>4. ASSUME NEW t, Accept(t) PROVE [E!Next]_(E!vars)
  <2>1. \A i \in 1..n : lineage'[i] = lineage[i]
    BY <1>1, <1>4 DEF Accept
  <2>2. \A i \in 1..mined : i \in 1..n
    BY <1>1
  <2> QED
    BY <1>2, <1>4, <2>1, <2>2 DEF Accept
<1>5. CASE Drop
  <2>1. \A i \in 1..(n - 1) : lineage'[i] = lineage[i]
    BY <1>5, DropIs
  <2>2. \A i \in 1..mined : i \in 1..(n - 1)
    BY <1>1, <1>5 DEF Drop
  <2> HIDE DEF n
  <2> QED
    BY <1>2, <1>5, <2>1, <2>2 DEF Drop
<1>6. CASE DeadlinePasses
  <2>1. mined' = mined /\ lineage' = lineage /\ aged' = aged /\ expired' = TRUE
    BY <1>6 DEF DeadlinePasses
  <2>2. E!Clock
    BY <2>1, HistoryKept DEF E!Clock
  <2> QED
    BY <2>2 DEF E!Next
<1>7. CASE AgePasses
  <2>1. mined' = mined /\ lineage' = lineage /\ expired' = expired /\ aged' = TRUE
    BY <1>7 DEF AgePasses
  <2>2. Phase # "over"
    BY <1>7 DEF AgePasses, Phase, LastKind, LastMined
  <2>3. E!Clock
    BY <2>1, <2>2, HistoryKept DEF E!Clock
  <2> QED
    BY <2>3 DEF E!Next
<1>8. CASE SpendPayout
  BY <1>2, <1>8 DEF SpendPayout
<1> QED
  BY <1>3, <1>4, <1>5, <1>6, <1>7, <1>8

-----------------------------------------------------------------------------
\* What one step does to the chain.
LEMMA ChainMoves ==
    ASSUME IInv, [Next]_vars
    PROVE  \/ UNCHANGED chainVars
           \/ \E h \in Procs : proc[h].pc = "send" /\ Accept(proc[h].tx)
           \/ Mine \/ DeadlinePasses \/ AgePasses \/ SpendPayout \/ Drop
<1>1. CASE UNCHANGED vars
  BY <1>1 DEF vars
<1>2. ASSUME NEW s \in Slots, NEW t \in prepared \cup ephemeral, Submit(s, t) PROVE UNCHANGED chainVars
  BY <1>2 DEF Submit
<1>3. ASSUME NEW s \in Slots, \/ StartRead(s) \/ StartPrepareRefund(s)
                              \/ \E p \in Players : StartPrepareReveal(s, p)
      PROVE  UNCHANGED chainVars
  BY <1>3 DEF StartRead, StartPrepareRefund, StartPrepareReveal, StartRefresh
<1>4. ASSUME NEW p \in Joiners, PrepareJoin(p) PROVE UNCHANGED chainVars
  BY <1>4 DEF PrepareJoin
<1>5. ASSUME NEW h \in Procs, Step(h)
      PROVE  UNCHANGED chainVars \/ (proc[h].pc = "send" /\ Accept(proc[h].tx))
  <2>1. CASE ClaimOperation(h) \/ SaveBroadcast(h) \/ SaveFailed(h) \/ Record(h)
    BY <2>1 DEF ClaimOperation, SaveBroadcast, SaveFailed, Record
  <2>2. CASE Observe(h) \/ SaveRefreshed(h) \/ ReadTail(h) \/ UpdateStatus(h)
    BY <2>2 DEF Observe, SaveRefreshed, ReadTail, UpdateStatus
  <2>3. CASE PrepareRevealTail(h) \/ PrepareRefundTail(h) \/ KeepTail
    BY <2>3 DEF PrepareRevealTail, PrepareRefundTail, KeepTail
  <2>4. CASE Send(h)
    BY <2>4 DEF Send, ChainRefused
  <2> QED
    BY <1>5, <2>1, <2>2, <2>3, <2>4 DEF Step
<1>6. CASE StartKeep
  BY <1>6 DEF StartKeep, StartRefresh
<1>7. CASE Reconcile \/ Crash \/ ClaimExpires \/ Restart
  BY <1>7 DEF Reconcile, Crash, ClaimExpires, Restart
<1>8. CASE Environment
  BY <1>8 DEF Environment
<1> QED
  BY <1>1, <1>2, <1>3, <1>4, <1>5, <1>6, <1>7, <1>8 DEF Next

-----------------------------------------------------------------------------
\* Nothing that waits to be sent turns into a join of somebody else.
LEMMA JoinerMoves ==
    ASSUME JoinersOK, NEW h \in Procs, \A t \in prepared' : JoinerTx(t),
           \A i \in Procs \ {h} : proc'[i] = proc[i],
           proc'[h].pc \in Submitting => JoinerTx(proc'[h].tx)
    PROVE  JoinersOK'
  BY DEF JoinersOK, JoinerTx

LEMMA JoinerIdles ==
    ASSUME IInv, JoinersOK, NEW h \in Procs, \A t \in prepared' : JoinerTx(t),
           proc' = [proc EXCEPT ![h] = Idle]
    PROVE  JoinersOK'
<1>1. proc'[h] = Idle /\ \A i \in Procs \ {h} : proc'[i] = proc[i]
  BY DEF IInv, ProcOK
<1>2. Idle.pc \notin Submitting
  BY DEF Idle, Submitting
<1> QED
  BY <1>1, <1>2, JoinerMoves

LEMMA DispatchJoins ==
    ASSUME IInv, JoinersOK, NEW h \in Procs, NEW task, NEW t, NEW r, Dispatch(h, task, t, r),
           prepared' = prepared, JoinerTx(t)
    PROVE  JoinersOK'
<1>1. \A x \in prepared' : JoinerTx(x)
  BY DEF JoinersOK
<1>2. CASE proc' = [proc EXCEPT ![h] = Idle]
  BY <1>1, <1>2, JoinerIdles
<1>3. CASE proc'[h].tx = t /\ \A i \in Procs \ {h} : proc'[i] = proc[i]
  BY <1>1, <1>3, JoinerMoves
<1> QED
  BY <1>2, <1>3, DispatchIs

LEMMA StepJoins ==
    ASSUME IInv, JoinersOK, NEW h \in Procs, Step(h)
    PROVE  JoinersOK'
<1>0. \A t \in prepared : JoinerTx(t)
  BY DEF JoinersOK
<1>1. CASE ClaimOperation(h) \/ Send(h) \/ SaveBroadcast(h)
  <2>1. prepared' = prepared /\ proc[h].pc \in Submitting /\ \E pc \in Submitting : Goto(h, pc)
    BY <1>1 DEF ClaimOperation, Send, SaveBroadcast, Submitting, storeVars
  <2>2. proc'[h].tx = proc[h].tx /\ \A i \in Procs \ {h} : proc'[i] = proc[i]
    BY <2>1, GotoMoves
  <2>3. JoinerTx(proc[h].tx)
    BY <2>1 DEF JoinersOK
  <2> QED
    BY <1>0, <2>1, <2>2, <2>3, JoinerMoves
<1>2. CASE SaveFailed(h) \/ Record(h) \/ UpdateStatus(h) \/ PrepareRevealTail(h)
  <2>1. prepared' = prepared /\ proc' = [proc EXCEPT ![h] = Idle]
    BY <1>2 DEF SaveFailed, Record, UpdateStatus, PrepareRevealTail, Finish, storeVars
  <2> QED
    BY <1>0, <2>1, JoinerIdles
<1>3. CASE PrepareRefundTail(h)
  <2>1. /\ proc' = [proc EXCEPT ![h] = Idle]
        /\ \A t \in prepared' : t \in prepared \/ \E n \in 1..MaxPreparations :
                                  t = Tx("creator_refund", Creator, n, CreationTx)
    BY <1>3 DEF PrepareRefundTail
  <2>2. \A t \in prepared' : JoinerTx(t)
    BY <1>0, <2>1 DEF JoinerTx, Tx
  <2> QED
    BY <2>1, <2>2, JoinerIdles
<1>4. CASE SaveRefreshed(h)
  <2>1. prepared' \subseteq prepared
    BY <1>4, CompleteIs DEF SaveRefreshed
  <2>2. CASE proc' = [proc EXCEPT ![h] = Idle]
    BY <1>0, <2>1, <2>2, JoinerIdles
  <2>3. CASE Goto(h, "refresh")
    <3>1. proc'[h].pc \notin Submitting /\ \A i \in Procs \ {h} : proc'[i] = proc[i]
      BY <2>3, GotoMoves DEF Submitting
    <3> QED
      BY <1>0, <2>1, <3>1, JoinerMoves
  <2> QED
    BY <1>4, <2>2, <2>3 DEF SaveRefreshed
<1>5. CASE Observe(h) \/ ReadTail(h)
  <2>1. prepared' = prepared
    BY <1>5 DEF Observe, ReadTail, storeVars
  <2>2. DOMAIN proc = Procs /\ DOMAIN proc[h] = {"pc", "task", "by", "tx", "seen", "todo", "status"}
    BY DEF IInv, ProcOK, HandlerOK
  <2>3. CASE ReadTail(h)
    <3> DEFINE s == DerivedStatus(proc[h].seen)
    <3>1. \/ proc' = [proc EXCEPT ![h] = Idle]
          \/ proc' = [proc EXCEPT ![h].pc = "updateStatus", ![h].status = s]
      BY <2>3 DEF ReadTail
    <3> HIDE DEF s
    <3>2. CASE proc' = [proc EXCEPT ![h].pc = "updateStatus", ![h].status = s]
      <4>1. proc'[h].pc \notin Submitting /\ \A i \in Procs \ {h} : proc'[i] = proc[i]
        BY <2>2, <3>2 DEF Submitting
      <4> QED
        BY <1>0, <2>1, <4>1, JoinerMoves
    <3> QED
      BY <1>0, <2>1, <3>1, <3>2, JoinerIdles
  <2>4. CASE Observe(h)
    <3> DEFINE todo == proc[h].todo
               news == {i \in 1..Len(todo) : Findings(proc[h].seen, todo[i]) # {}}
               rest == SubSeq(todo, Min(news) + 1, Len(todo))
    <3>1. \/ proc' = [proc EXCEPT ![h].pc = "tail", ![h].todo = <<>>]
          \/ \E r : proc' = [proc EXCEPT ![h].pc = "save", ![h].seen = r, ![h].todo = rest]
      BY <2>4 DEF Observe
    <3> HIDE DEF rest
    <3>2. proc'[h].pc \in {"tail", "save"} /\ \A i \in Procs \ {h} : proc'[i] = proc[i]
      BY <2>2, <3>1
    <3>3. proc'[h].pc \notin Submitting
      BY <3>2 DEF Submitting
    <3> QED
      BY <1>0, <2>1, <3>2, <3>3, JoinerMoves
  <2> QED
    BY <1>5, <2>3, <2>4
<1>6. CASE h = Keeper /\ KeepTail
  <2> DEFINE r == proc[Keeper].seen
  <2>1. \/ proc' = [proc EXCEPT ![Keeper] = Idle] /\ (UNCHANGED storeVars \/ Complete(r))
        \/ UNCHANGED storeVars /\ \E t \in DueTimeout(r) : Dispatch(Keeper, "keep", t, r)
    BY <1>6 DEF KeepTail
  <2>2. CASE proc' = [proc EXCEPT ![Keeper] = Idle] /\ (UNCHANGED storeVars \/ Complete(r))
    <3>1. prepared' \subseteq prepared
      BY <2>2, CompleteIs DEF storeVars
    <3> QED
      BY <1>0, <1>6, <2>2, <3>1, JoinerIdles
  <2>3. CASE UNCHANGED storeVars /\ \E t \in DueTimeout(r) : Dispatch(Keeper, "keep", t, r)
    <3>1. PICK t \in DueTimeout(r) : Dispatch(Keeper, "keep", t, r)
      BY <2>3
    <3>2. JoinerTx(t)
      BY DueTimeoutIs DEF JoinerTx, KeeperKinds
    <3> QED
      BY <1>6, <2>3, <3>1, <3>2, DispatchJoins DEF storeVars
  <2> QED
    BY <2>1, <2>2, <2>3
<1> QED
  BY <1>1, <1>2, <1>3, <1>4, <1>5, <1>6 DEF Step

LEMMA RefreshJoins ==
    ASSUME IInv, JoinersOK, NEW h \in Procs, NEW task, NEW p, StartRefresh(h, task, p)
    PROVE  JoinersOK'
<1>1. /\ prepared' = prepared
      /\ proc' = [proc EXCEPT ![h] = [Idle EXCEPT !.pc = "refresh", !.task = task, !.by = p,
                                               !.seen = game, !.todo = Phases(task)]]
  BY DEF StartRefresh, storeVars
<1>2. proc'[h].pc = "refresh" /\ \A i \in Procs \ {h} : proc'[i] = proc[i]
  BY <1>1 DEF IInv, ProcOK, Idle
<1>3. (\A t \in prepared' : JoinerTx(t)) /\ proc'[h].pc \notin Submitting
  BY <1>1, <1>2 DEF JoinersOK, Submitting
<1> QED
  BY <1>2, <1>3, JoinerMoves

LEMMA NextJoins ==
    ASSUME IInv, JoinersOK, [Next]_vars
    PROVE  JoinersOK'
<1>1. CASE UNCHANGED <<prepared, proc>>
  BY <1>1 DEF JoinersOK, JoinerTx
<1>2. ASSUME NEW s \in Slots, NEW t \in prepared \cup ephemeral, Submit(s, t) PROVE JoinersOK'
  <2>1. s \in Procs /\ Dispatch(s, "submit", t, game) /\ prepared' = prepared
    BY <1>2 DEF Submit, Procs, storeVars
  <2>2. JoinerTx(t)
    BY DEF JoinersOK, JoinerTx, IInv, StoreOK
  <2> QED
    BY <2>1, <2>2, DispatchJoins
<1>3. ASSUME NEW s \in Slots, \/ StartRead(s) \/ StartPrepareRefund(s)
                              \/ \E p \in Players : StartPrepareReveal(s, p)
      PROVE  JoinersOK'
  BY <1>3, RefreshJoins DEF StartRead, StartPrepareRefund, StartPrepareReveal, Procs
<1>4. ASSUME NEW p \in Joiners, PrepareJoin(p) PROVE JoinersOK'
  <2>1. /\ proc' = proc
        /\ \A t \in prepared' : t \in prepared \/ \E n \in 1..MaxPreparations :
                                  t = Tx("join", p, n, CreationTx)
    BY <1>4 DEF PrepareJoin
  <2>2. \A t \in prepared' : JoinerTx(t)
    BY <1>4, <2>1 DEF JoinersOK, JoinerTx, Tx
  <2> QED
    BY <2>1, <2>2 DEF JoinersOK, JoinerTx
<1>5. ASSUME NEW h \in Procs, Step(h) PROVE JoinersOK'
  BY <1>5, StepJoins
<1>6. CASE StartKeep
  BY <1>6, RefreshJoins DEF StartKeep, Procs
<1>7. CASE Crash
  <2>1. prepared' \subseteq prepared /\ \A h \in Procs : proc'[h] = Idle
    BY <1>7 DEF Crash
  <2>2. Idle.pc \notin Submitting
    BY DEF Idle, Submitting
  <2> QED
    BY <2>1, <2>2 DEF JoinersOK, JoinerTx
<1>8. ASSUME UNCHANGED vars \/ Reconcile \/ ClaimExpires \/ Restart \/ Environment
      PROVE  UNCHANGED <<prepared, proc>>
  BY <1>8 DEF Reconcile, ClaimExpires, Restart, Environment, vars, storeVars
<1> QED
  BY <1>1, <1>2, <1>3, <1>4, <1>5, <1>6, <1>7, <1>8 DEF Next

-----------------------------------------------------------------------------
LEMMA InitLinks == Init => LInv
<1> SUFFICES ASSUME Init PROVE LInv
  OBVIOUS
<1>1. lineage = History /\ mined = Len(History) /\ aged = FALSE
  BY DEF Init
<1>2. /\ CreationTx.kind = "creation"
      /\ JoinTx.kind = "join" /\ JoinTx.on = CreationTx /\ JoinTx.by \in Joiners /\ JoinTx.by # Creator
  BY JoinersAssumption DEF CreationTx, JoinTx, Tx
<1>3. LinksOK
  <2> SUFFICES ASSUME NEW i \in 1..Len(lineage) PROVE LinkOK(i)
    BY DEF LinksOK
  <2>1. i \in {1, 2} /\ lineage[i] = IF i = 1 THEN CreationTx ELSE JoinTx
    BY <1>1, HistoryIs
  <2>2. CASE i = 1
    BY <1>2, <2>1, <2>2 DEF LinkOK, Waited
  <2>3. CASE i = 2
    <3>1. lineage[2] = JoinTx /\ lineage[2 - 1] = CreationTx
      <4>1. 1 \in 1..Len(lineage)
        BY <1>1, <2>3, HistoryIs
      <4> QED
        BY <1>1, <2>1, <2>3, <4>1, HistoryIs
    <3> QED
      BY <1>2, <2>3, <3>1 DEF LinkOK, Waited, Parent
  <2> QED
    BY <2>1, <2>2, <2>3
<1>4. AgedOK
  BY <1>1 DEF AgedOK
<1>5. JoinersOK
  <2>1. \A t \in prepared : t \in {CreationTx, JoinTx}
    BY HistoryIs, ElementsOf DEF Init
  <2>2. \A h \in Procs : proc[h].pc \notin Submitting
    BY DEF Init, Idle, Submitting
  <2> QED
    BY <1>2, <2>1, <2>2 DEF JoinersOK, JoinerTx
<1> QED
  BY <1>3, <1>4, <1>5 DEF LInv

LEMMA NextLinks == IInv /\ LInv /\ [Next]_vars => LInv'
<1> SUFFICES ASSUME IInv, LInv, [Next]_vars PROVE LInv'
  OBVIOUS
<1>1. ChainOK /\ LinksOK /\ AgedOK /\ JoinersOK
  BY DEF IInv, LInv
<1>2. CASE UNCHANGED chainVars
  <2>1. LinksOK'
    BY <1>1, <1>2, LinksKept DEF chainVars
  <2> QED
    BY <1>1, <1>2, <2>1, NextJoins DEF LInv, AgedOK, LastKind, chainVars
<1>3. ASSUME NEW h \in Procs, proc[h].pc = "send", Accept(proc[h].tx) PROVE LInv'
  <2>1. proc[h].tx.kind \in Kinds /\ JoinerTx(proc[h].tx)
    BY <1>1, <1>3, SubmitterOK DEF JoinersOK, Submitting
  <2> QED
    BY <1>1, <1>3, <2>1, AcceptLinks, NextJoins DEF LInv
<1>4. CASE Mine \/ DeadlinePasses \/ AgePasses \/ SpendPayout \/ Drop
  BY <1>1, <1>4, EnvironmentLinks, NextJoins DEF LInv
<1> QED
  BY <1>2, <1>3, <1>4, ChainMoves

LEMMA NextFollows == IInv /\ LInv /\ [Next]_vars => [E!Next]_(E!vars)
<1> SUFFICES ASSUME IInv, LInv, [Next]_vars PROVE [E!Next]_(E!vars)
  OBVIOUS
<1>1. ChainOK /\ LinksOK /\ AgedOK
  BY DEF IInv, LInv
<1> QED
  BY <1>1, ChainMoves, MineFollows, RestFollows

\* Whatever the players, the keeper and the reconciler send, in whatever order,
\* with answers lost, restarts, retries and transactions that the mempool
\* forgets: the blocks tell a history that the script allows
\* (covenant/kasodds.sil, entries join to fallback_claim).  A transaction that
\* was accepted on an unmined parent, or under a clock, is still allowed when
\* its block comes.
THEOREM BlocksFollow == Spec => BlocksFollowTheScript
  BY InitInv, NextInv, InitLinks, NextLinks, NextFollows, PTL DEF Spec, BlocksFollowTheScript

\* The chain of the backend's model therefore implements the escrow that
\* KasOddsCovenant implements too (CovenantImplementsEscrow): what the node
\* of this model lets happen, the script of that model has an entry for.  An
\* instance that starts with a mined join starts in the middle of this history.
THEOREM ChainImplementsEscrow == Start # "joined" => (Spec => E!Spec)
<1> SUFFICES ASSUME Start # "joined" PROVE Spec => E!Spec
  OBVIOUS
<1>1. Init => E!Init
  <2> SUFFICES ASSUME Init PROVE E!Init
    OBVIOUS
  <2>1. History \in {<<>>, <<CreationTx>>}
    BY StartAssumption DEF History
  <2>2. mined \in {0, 1} /\ (mined = 1 => lineage[1] = CreationTx) /\ expired = FALSE /\ aged = FALSE
    <3>1. Len(<<>>) = 0 /\ Len(<<CreationTx>>) = 1 /\ <<CreationTx>>[1] = CreationTx
      OBVIOUS
    <3> QED
      BY <2>1, <3>1 DEF Init
  <2>3. LastKind = "creation"
    BY <2>2 DEF LastKind, CreationTx, Tx
  <2>4. Phase = "waiting" /\ Ending = "none"
    BY <2>3, KindsAre DEF Phase, Ending
  <2>5. AuthorOf(2, "join") = None /\ AuthorOf(3, "first") = None
    <3>1. 2 \notin 1..mined /\ 3 \notin 1..mined
      BY <2>2
    <3> QED
      BY <3>1 DEF AuthorOf
  <2> QED
    BY <2>2, <2>4, <2>5 DEF E!Init
<1> QED
  BY <1>1, InitInv, NextInv, InitLinks, NextLinks, NextFollows, PTL DEF Spec, E!Spec
=============================================================================
