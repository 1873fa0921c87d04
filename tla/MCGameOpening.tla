--------------------------- MODULE MCGameOpening ---------------------------
(***************************************************************************)
(* The instance of GameBackend for the opening of a game: two wallets want *)
(* the seat, the creator may take the stake back, and the status is read   *)
(* meanwhile, two requests at a time next to the keeper.                   *)
(***************************************************************************)
EXTENDS GameBackend

CONSTANTS Guest       \* the joiner that a refund may meet

Doing(task) == {h \in Procs : proc[h].task = task}

RefundIsAsked ==
    \/ Doing("prepareRefund") # {}
    \/ \E t \in prepared : t.kind = "creator_refund"

\* What the clients leave out: two status reads or two preparations of a refund
\* at once; and a refund beside reads or beside the other joiners.  They leave
\* out to begin, never to go on: no fair step is lost.
Requests ==
    /\ \A h, i \in Doing("read") \cup Doing("prepareRefund") : h = i
    /\ RefundIsAsked =>
          /\ Doing("read") = {}
          /\ \A t \in prepared : t.kind = "join" => t.by = Guest

\* The action constraint of the run.
RequestsStay == Requests'
=============================================================================
