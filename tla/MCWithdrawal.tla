----------------------------- MODULE MCWithdrawal -----------------------------
(* Instances of Withdrawal for TLC: a refund in up to two transactions. *)
EXTENDS Withdrawal, TLC

CONSTANTS r1, r2, out, none

\* r1 falls short of the principal, r1 and r2 together exceed it.
Amounts == r1 :> 1 @@ r2 :> 2

\* One payment, the same one twice, two payments, and the treasury's own.
AnchorListings == {<<r1>>, <<r1, r1>>, <<r1, r2>>, <<out, r2>>}
NoListing == {}
=============================================================================
