--------------------- MODULE SettlementSchedulerProofs ---------------------
(***************************************************************************)
(* The keeper's loop does not fork, and does not die out but for games it  *)
(* was not told of, for every number of games and of failures and every    *)
(* store the server starts with.                                           *)
(***************************************************************************)
EXTENDS SettlementScheduler, TLAPS

PcValues == {"idle", "list", "settle", "delay", "arm"}

\* The keeper rests, or is about to: its last list was empty.
Resting == ~running /\ ~timer
GoesToRest == pc = "arm" /\ seen = {}

\* What keeps the loop alive: every game that was not on that empty list came
\* later, and wakes the keeper yet or is overlooked.
Alive == Resting \/ GoesToRest => games \subseteq waking \cup overlooked

IInv == pc \in PcValues /\ timer \in BOOLEAN /\ OneChain

LEMMA InitInv == Init => IInv
BY DEF Init, IInv, OneChain, running, PcValues

LEMMA NextInv == IInv /\ [Next]_vars => IInv'
<1> SUFFICES ASSUME IInv, [Next]_vars PROVE IInv'
  OBVIOUS
<1> USE DEF IInv, OneChain, running, PcValues
<1>1. ASSUME NEW g \in Games, Record(g) PROVE IInv'
  BY <1>1 DEF Record
<1>2. ASSUME NEW g \in Games, Reconcile(g) PROVE IInv'
  BY <1>2 DEF Reconcile
<1>3. ASSUME NEW g \in Games, Wake(g) PROVE IInv'
  BY <1>3 DEF Wake
<1>4. ASSUME NEW g \in Games, TimeoutComes(g) PROVE IInv'
  BY <1>4 DEF TimeoutComes
<1>5. ASSUME NEW g \in Games, Prune(g) PROVE IInv'
  BY <1>5 DEF Prune
<1>6. CASE TimerFires
  BY <1>6 DEF TimerFires
<1>7. CASE Scan
  <2>1. CASE List \/ Settle \/ ListForDelay
    BY <2>1 DEF List, Settle, ListForDelay
  <2>2. CASE Arm \/ Fail
    BY <2>2 DEF Arm, Fail
  <2> QED
    BY <1>7, <2>1, <2>2 DEF Scan
<1>8. CASE UNCHANGED vars
  BY <1>8 DEF vars
<1> QED
  BY <1>1, <1>2, <1>3, <1>4, <1>5, <1>6, <1>7, <1>8 DEF Next

\* A wake, an error and an expiry never leave two chains of timers.
THEOREM LoopNeverForks == Spec => []OneChain
<1>1. IInv => OneChain
  BY DEF IInv
<1> QED
  BY <1>1, InitInv, NextInv, PTL DEF Spec

LEMMA InitAlive == Init => Alive
BY DEF Init, Alive, Resting, GoesToRest, running

LEMMA NextAlive == IInv /\ Alive /\ [Next]_vars => Alive'
<1> SUFFICES ASSUME IInv, Alive, [Next]_vars PROVE Alive'
  OBVIOUS
<1> USE DEF Alive, Resting, GoesToRest, running
<1>1. ASSUME NEW g \in Games, Record(g) PROVE Alive'
  BY <1>1 DEF Record
<1>2. ASSUME NEW g \in Games, Reconcile(g) PROVE Alive'
  BY <1>2 DEF Reconcile
<1>3. ASSUME NEW g \in Games, Wake(g) PROVE Alive'
  <2>1. CASE pc = "idle"
    BY <1>3, <2>1 DEF Wake
  <2>2. CASE pc # "idle"
    BY <1>3, <2>2 DEF Wake, Missed
  <2> QED
    BY <2>1, <2>2
<1>4. ASSUME NEW g \in Games, TimeoutComes(g) PROVE Alive'
  BY <1>4 DEF TimeoutComes
<1>5. ASSUME NEW g \in Games, Prune(g) PROVE Alive'
  BY <1>5 DEF Prune
<1>6. CASE TimerFires
  BY <1>6 DEF TimerFires
<1>7. CASE Scan
  <2>1. CASE List \/ Settle
    BY <2>1 DEF List, Settle
  <2>2. CASE ListForDelay
    BY <2>2 DEF ListForDelay
  <2>3. CASE Arm
    BY <2>3 DEF Arm
  <2>4. CASE Fail
    BY <2>4 DEF Fail
  <2> QED
    BY <1>7, <2>1, <2>2, <2>3, <2>4 DEF Scan
<1>8. CASE UNCHANGED vars
  BY <1>8 DEF vars
<1> QED
  BY <1>1, <1>2, <1>3, <1>4, <1>5, <1>6, <1>7, <1>8 DEF Next

\* The keeper rests only when every stored game is one it was not told of, also
\* when the store was empty for a while.
THEOREM KeeperNeverStops == Spec => []KeeperStaysScheduled
<1>1. Alive => KeeperStaysScheduled
  BY DEF Alive, Resting, KeeperStaysScheduled
<1> QED
  BY <1>1, InitInv, NextInv, InitAlive, NextAlive, PTL DEF Spec
=============================================================================
