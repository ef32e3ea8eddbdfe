------------------------------- MODULE CashOut -------------------------------
(***************************************************************************)
(* What a cash-out promises about one loan's money, seen on the ledger and  *)
(* in the books: the principal leaves once, what comes back of it goes back *)
(* to the vault once, each transaction counted once and never beyond what   *)
(* was lent, and the loan ends collected or, after the vault has its money, *)
(* returned.                                                                *)
(***************************************************************************)
EXTENDS Integers

CONSTANTS
  Principal,
  Worth(_)   \* USDC a set of transactions carries

VARIABLES
  out,       \* payments of the principal to the anchor
  back,      \* transactions in which the anchor returned USDC
  credited,  \* USDC returned to the vault
  ended,     \* "open", "collected" or "returned"
  cancelled  \* the anchor gave the cash-out up

vars == <<out, back, credited, ended, cancelled>>

Init == out = 0 /\ back = {} /\ credited = 0 /\ ended = "open" /\ cancelled = FALSE

Pay ==
  /\ out = 0 /\ out' = 1
  /\ UNCHANGED <<back, credited, ended, cancelled>>

Return ==
  /\ out = 1 /\ back \subseteq back' /\ back # back'
  /\ UNCHANGED <<out, credited, ended, cancelled>>

Capped(amount) == IF amount <= Principal THEN amount ELSE Principal

\* With what transactions that came back carried, or the principal itself when the
\* anchor gave up.
Credit ==
  /\ credited = 0 /\ credited' > 0
  /\ \/ \E some \in SUBSET back : credited' = Capped(Worth(some))
     \/ cancelled /\ credited' = Principal
  /\ UNCHANGED <<out, back, ended, cancelled>>

Cancel ==
  /\ ~cancelled /\ cancelled' = TRUE
  /\ UNCHANGED <<out, back, credited, ended>>

End ==
  /\ ended = "open"
  /\ \/ ended' = "collected" /\ out = 1 /\ credited = 0
     \/ ended' = "returned" /\ credited > 0
  /\ UNCHANGED <<out, back, credited, cancelled>>

Next == Pay \/ Return \/ Credit \/ Cancel \/ End

Spec == Init /\ [][Next]_vars
=============================================================================
