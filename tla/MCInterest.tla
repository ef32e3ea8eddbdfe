------------------------------ MODULE MCInterest ------------------------------
(* Interest as TLC checks it: the bounds are set in the configuration. *)
EXTENDS Interest
=============================================================================
