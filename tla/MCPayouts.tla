------------------------------- MODULE MCPayouts -------------------------------
(* Payouts as TLC checks it: the bounds are set in the configurations. *)
EXTENDS Payouts
=============================================================================
