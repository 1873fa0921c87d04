--------------------------- MODULE FeedbackProofs ---------------------------
(***************************************************************************)
(* What a player was thanked for is in the file or in the chat, and it is  *)
(* there no oftener than submit, a drain and the mishaps brought it, for   *)
(* every number of messages and of mishaps.                                *)
(***************************************************************************)
EXTENDS Feedback, Integers, TLAPS

RequestStates == {"new", "saved", "refused", "delivered", "accepted", "unanswered"}

Typed ==
    /\ request \in [Entries -> RequestStates]
    /\ copies \in [Entries -> Nat]
    /\ mishaps \in Nat
    /\ draining \in BOOLEAN
    /\ left \cap remaining = {}
    /\ ~draining => left = {}

\* Whether the drain of the moment, or else the next one, may still deliver
\* the entry; a new one will come to it.
Drainable(e) ==
    \/ request[e] = "new"
    \/ draining /\ e \in left \cup remaining
    \/ ~draining /\ e \in spill

\* Deliveries that are still to come: of submit, and of a drain.
ToCome(e) ==
    (IF request[e] \in {"new", "saved"} THEN 1 ELSE 0) + (IF Drainable(e) THEN 1 ELSE 0)

\* Whatever arrived beyond these two arrived in a mishap.
Bounded(e) == copies[e] + ToCome(e) <= 2 + mishaps

\* What is not in the chat is in the list and in the file, and a drain in
\* progress has not done with it.
Safe(e) ==
    /\ request[e] \in {"saved", "accepted"} /\ copies[e] = 0 =>
          /\ e \in spill /\ e \in file
          /\ draining => e \in left \cup remaining
    /\ request[e] = "delivered" => copies[e] > 0
    /\ request[e] = "new" => e \notin spill \cup file \cup left \cup remaining

IInv == Typed /\ \A e \in Entries : Bounded(e) /\ Safe(e)

LEMMA InitInv == FeedbackInit => IInv
<1> SUFFICES ASSUME FeedbackInit PROVE IInv
  OBVIOUS
<1>1. Typed
  BY DEF FeedbackInit, Typed, RequestStates
<1>2. ASSUME NEW e \in Entries PROVE Bounded(e) /\ Safe(e)
  <2>1. request[e] = "new" /\ copies[e] = 0 /\ spill = {} /\ file = {} /\ left = {} /\ remaining = {} /\ mishaps = 0
    BY DEF FeedbackInit
  <2> QED
    BY <2>1 DEF Bounded, ToCome, Drainable, Safe
<1> QED
  BY <1>1, <1>2 DEF IInv

LEMMA NextInv == IInv /\ [FeedbackNext]_feedbackVars => IInv'
<1> SUFFICES ASSUME IInv, [FeedbackNext]_feedbackVars PROVE IInv'
  OBVIOUS
<1> USE DEF IInv, Typed
<1>1. ASSUME NEW e \in Entries, Add(e) PROVE IInv'
  <2>1. Typed'
    BY <1>1 DEF Add, Written, NotWritten, Mishap, RequestStates
  <2>2. ASSUME NEW d \in Entries PROVE Bounded(d)' /\ Safe(d)'
    BY <1>1 DEF Add, Written, NotWritten, Mishap, Bounded, ToCome, Drainable, Safe
  <2> QED
    BY <2>1, <2>2
<1>2. ASSUME NEW e \in Entries, Deliver(e) PROVE IInv'
  <2>1. Typed'
    BY <1>2 DEF Deliver, Delivered, Failed, Arrives, Mishap, RequestStates
  <2>2. ASSUME NEW d \in Entries PROVE Bounded(d)' /\ Safe(d)'
    BY <1>2 DEF Deliver, Delivered, Failed, Arrives, Mishap, Bounded, ToCome, Drainable, Safe
  <2> QED
    BY <2>1, <2>2
<1>3. ASSUME NEW e \in Entries, Remove(e) PROVE IInv'
  <2>1. Typed'
    BY <1>3 DEF Remove, Written, NotWritten, Mishap, RequestStates
  <2>2. ASSUME NEW d \in Entries PROVE Bounded(d)' /\ Safe(d)'
    BY <1>3 DEF Remove, Written, NotWritten, Mishap, Bounded, ToCome, Drainable, Safe
  <2> QED
    BY <2>1, <2>2
<1>4. ASSUME NEW e \in Entries, DrainTries(e) PROVE IInv'
  <2>1. Typed' /\ draining
    BY <1>4 DEF DrainTries, Delivered, Failed, Arrives, Mishap, RequestStates
  <2>2. ASSUME NEW d \in Entries PROVE Bounded(d)' /\ Safe(d)'
    BY <1>4, <2>1 DEF DrainTries, Delivered, Failed, Arrives, Mishap, Bounded, ToCome, Drainable, Safe
  <2> QED
    BY <2>1, <2>2
<1>5. CASE DrainStarts
  <2>1. Typed'
    BY <1>5 DEF DrainStarts
  <2>2. ASSUME NEW d \in Entries PROVE Bounded(d)' /\ Safe(d)'
    BY <1>5 DEF DrainStarts, Bounded, ToCome, Drainable, Safe
  <2> QED
    BY <2>1, <2>2
<1>6. CASE DrainEnds
  <2>1. Typed'
    <3>1. /\ request' = request /\ copies' = copies /\ left = {} /\ left' = {} /\ draining' \in BOOLEAN
          /\ mishaps' = mishaps \/ mishaps' = mishaps + 1
      BY <1>6 DEF DrainEnds, Written, NotWritten, Mishap
    <3>2. left' \cap remaining' = {}
      BY <3>1
    <3> QED
      BY <3>1, <3>2
  <2>2. ASSUME NEW d \in Entries PROVE Bounded(d)' /\ Safe(d)'
    <3>1. /\ spill' = remaining /\ left = {} /\ left' = {} /\ remaining' = remaining /\ draining /\ ~draining'
          /\ request' = request /\ copies' = copies
          /\ \/ file' = remaining /\ mishaps' = mishaps
             \/ file' = file /\ mishaps' = mishaps + 1
             \/ file' = file /\ mishaps' = mishaps
      BY <1>6 DEF DrainEnds, Remains, Written, NotWritten, Mishap
    <3>2. Bounded(d) /\ Safe(d)
      OBVIOUS
    <3>3. Safe(d)'
      BY <3>1, <3>2 DEF Safe
    <3>4. Bounded(d)'
      BY <3>1, <3>2 DEF Bounded, ToCome, Drainable
    <3> QED
      BY <3>3, <3>4
  <2> QED
    BY <2>1, <2>2
<1>7. CASE Restart
  <2>1. Typed'
    <3>1. /\ copies' = copies /\ left' = {} /\ draining' \in BOOLEAN /\ mishaps' = mishaps + 1
          /\ request' \in [Entries -> RequestStates]
      BY <1>7 DEF Restart, Mishap, RequestStates
    <3>2. left' \cap remaining' = {}
      BY <3>1
    <3> QED
      BY <3>1, <3>2
  <2>2. ASSUME NEW d \in Entries PROVE Bounded(d)' /\ Safe(d)'
    <3>1. /\ spill' = file /\ file' = file /\ left' = {} /\ remaining' = {} /\ ~draining'
          /\ copies' = copies /\ mishaps' = mishaps + 1
          /\ \/ request[d] \in {"saved", "delivered"} /\ request'[d] = "unanswered"
             \/ request[d] \notin {"saved", "delivered"} /\ request'[d] = request[d]
      BY <1>7 DEF Restart, Mishap
    <3>2. Bounded(d) /\ Safe(d)
      OBVIOUS
    <3>3. Safe(d)'
      BY <3>1, <3>2 DEF Safe
    <3>4. ToCome(d)' \in Int /\ ToCome(d) \in Int /\ ToCome(d)' <= ToCome(d) + 1
      BY <3>1, <3>2 DEF ToCome, Drainable, Safe
    <3>5. Bounded(d)'
      BY <3>1, <3>2, <3>4 DEF Bounded
    <3> QED
      BY <3>3, <3>5
  <2> QED
    BY <2>1, <2>2
<1>8. CASE UNCHANGED feedbackVars
  <2>1. Typed'
    BY <1>8 DEF feedbackVars
  <2>2. ASSUME NEW d \in Entries PROVE Bounded(d)' /\ Safe(d)'
    BY <1>8 DEF feedbackVars, Bounded, ToCome, Drainable, Safe
  <2> QED
    BY <2>1, <2>2
<1> QED
  BY <1>1, <1>2, <1>3, <1>4, <1>5, <1>6, <1>7, <1>8 DEF FeedbackNext

\* FeedbackSpill and FeedbackService lose no message a player was thanked for,
\* and the chat has no more copies than the mishaps explain.
THEOREM FeedbackNeverLost == FeedbackSpec => []FeedbackIsKept
<1>1. IInv => FeedbackIsKept
  BY DEF IInv, Typed, FeedbackIsKept, Bounded, ToCome, Safe
<1> QED
  BY <1>1, InitInv, NextInv, PTL DEF FeedbackSpec
=============================================================================
