----------------------- MODULE MCSettlementScheduler -----------------------
(***************************************************************************)
(* What src/server-schedulers.js keeps going: the settlement keeper and    *)
(* the drain of the feedback.  They share no variable, so each is followed *)
(* while the other has not begun; the fairness is the keeper's, and the    *)
(* runs it leaves are those in which the keeper is followed.               *)
(*                                                                         *)
(* Three games, any of them there from the start, that come and go: the    *)
(* store may be empty.  Two messages of feedback, for an entry a drain     *)
(* delivers beside one it must keep.                                       *)
(***************************************************************************)
EXTENDS SettlementScheduler, Feedback

MCInit == Init /\ FeedbackInit
MCNext ==
    \/ FeedbackInit /\ Next /\ UNCHANGED feedbackVars
    \/ Init /\ FeedbackNext /\ UNCHANGED vars

MCSpec == MCInit /\ [][MCNext]_<<vars, feedbackVars>> /\ Fairness
=============================================================================
