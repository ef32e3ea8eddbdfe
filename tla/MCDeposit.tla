------------------------------- MODULE MCDeposit -------------------------------
(* Deposit as TLC checks it: the bounds are set in the configurations. *)
EXTENDS Deposit
=============================================================================
