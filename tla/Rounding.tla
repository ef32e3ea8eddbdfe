------------------------------ MODULE Rounding ------------------------------
(***************************************************************************)
(* The integer arithmetic of the contracts: mul_div_with_rounding with      *)
(* Rounding::Floor and Rounding::Ceil, min and max.                         *)
(***************************************************************************)
EXTENDS Integers

Lesser(x, y) == IF x <= y THEN x ELSE y
Later(x, y)  == IF x >= y THEN x ELSE y
FloorDiv(x, y) == x \div y
CeilDiv(x, y)  == (x + y - 1) \div y
=============================================================================
