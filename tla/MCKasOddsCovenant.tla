------------------------- MODULE MCKasOddsCovenant -------------------------
(***************************************************************************)
(* A game of alice's that bob or carol may join.  The unit is 1/100 KAS,   *)
(* so MinStake is 100 and a pot carries the game fee from a stake of 5000  *)
(* on.                                                                     *)
(***************************************************************************)
EXTENDS KasOddsCovenant, GameDecisions
=============================================================================
