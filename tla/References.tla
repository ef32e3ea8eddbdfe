----------------------------- MODULE References -----------------------------
(***************************************************************************)
(* The loan reference, which alone binds a paybill payment to a loan: how   *)
(* one is made and checked (loanref.go), what Safaricom is answered when a  *)
(* payer has typed one (C2BValidation, Hakikisha's Resolve), and the loan   *)
(* its payment is put down to when it is pulled (reconcile in pull.go).     *)
(*                                                                         *)
(* A character is its position in the alphabet, or Other when it is in      *)
(* none.  The loans table belongs to the lending module, which keeps a      *)
(* reference unique (loanref.go:125).  Abstracted: the caller's address     *)
(* (allowedCIDR: Boot) and token, and the amount.                           *)
(***************************************************************************)
EXTENDS Integers, Sequences, SequencesExt

CONSTANTS
  Base,        \* letters of the alphabet: 32
  PrefixLen,   \* characters of the prefix: 2
  RandomLen,   \* random characters: 6
  MaxLoans,    \* bound: loans
  MaxRestarts  \* bound: changes of the configured prefix

ASSUME ReferencesAssumption ==
  /\ Base \in Nat \ {0} /\ PrefixLen \in Nat /\ RandomLen \in Nat
  /\ MaxLoans \in Nat /\ MaxRestarts \in Nat

VARIABLES
  loans,     \* the loans table
  prefix,    \* LOAN_REFERENCE_PREFIX as core read it when it started
  restarts,  \* changes of the prefix so far
  payment    \* one paybill payment: what was meant, typed, answered and recorded

refVars == <<loans, prefix, restarts, payment>>

Loan == 1..MaxLoans
Letter == 0..Base - 1
Other == Base
Characters(n) == [1..n -> Letter \cup {Other}]
Random == [1..RandomLen -> Letter]
referenceLen == PrefixLen + RandomLen + 1

None == 0  \* no loan

-----------------------------------------------------------------------------
(* loanref *)

ValidatePrefix(p) == Len(p) = PrefixLen /\ \A i \in DOMAIN p : p[i] \in Letter

\* Mutant: the loop ends one character early.
checkCharShort(body) == FoldSeq(+, 0, Front(body)) % Base

checkChar(body) == FoldSeq(+, 0, body) % Base

Validate(p, ref) ==
  /\ Len(ref) = referenceLen
  /\ IsPrefix(p, ref)
  /\ \A i \in 1..referenceLen - 1 : ref[i] \in Letter
  /\ checkChar(Front(ref)) = Last(ref)

Generate(p, random) == Append(p \o random, checkChar(p \o random))

-----------------------------------------------------------------------------
(* The loans table *)

Unissued == [status |-> "none", ref |-> <<>>, legacy |-> <<>>]

\* Loans from before the format have a reference of their own shape.
LegacyReference(l) == <<Other, l>>
LegacyLoan(l) == [status |-> "open", ref |-> <<>>, legacy |-> LegacyReference(l)]

\* The insert, under a unique index on the reference.
Insert(l, row) ==
  /\ \A k \in Loan \ {l} : loans[k].ref # row.ref
  /\ loans' = [loans EXCEPT ![l] = row]

IssueLoan(l, random) ==
  /\ loans[l].status = "none"
  /\ Insert(l, [status |-> "open", ref |-> Generate(prefix, random), legacy |-> <<>>])
  /\ UNCHANGED <<prefix, restarts, payment>>

\* The backfill gives a loan from before the reference its seed makes, once.
BackfillReference(l, seed) ==
  /\ loans[l].status # "none" /\ loans[l].ref = <<>>
  /\ Insert(l, [loans[l] EXCEPT !.ref = Generate(prefix, seed)])
  /\ UNCHANGED <<prefix, restarts, payment>>

\* A loan is repaid, or its row deleted.
EndLoan(l, status) ==
  /\ loans[l].status \in {"open", "repaid"} \ {status}
  /\ loans' = [loans EXCEPT ![l].status = status]
  /\ UNCHANGED <<prefix, restarts, payment>>

\* The loans a reference resolves to, by either column.
LoansNamed(reference) ==
  {l \in Loan : loans[l].status \notin {"none", "deleted"}
                /\ reference \in {loans[l].ref, loans[l].legacy}}

\* The query's answer: any loan it names, or none.
GetLoanIDByReference(reference) ==
  IF LoansNamed(reference) = {} THEN {None} ELSE LoansNamed(reference)

-----------------------------------------------------------------------------
(* Core *)

\* Core starts again with another prefix; a wrong one is refused.
Restart(p) ==
  /\ restarts < MaxRestarts /\ ValidatePrefix(p)
  /\ prefix' = p /\ restarts' = restarts + 1
  /\ UNCHANGED <<loans, payment>>

\* Safaricom asks for the name that goes with the account.
Resolve ==
  /\ payment.at = "typed" /\ payment.name = "unasked"
  /\ \/ \E l \in GetLoanIDByReference(payment.typed) :
          payment' = [payment EXCEPT !.name =
             IF Validate(prefix, payment.typed) /\ l # None THEN "found" ELSE "not found"]
     \/ payment' = [payment EXCEPT !.name = "not found"]  \* the query failed
  /\ UNCHANGED <<loans, prefix, restarts>>

Answered(code, l) == payment' = [payment EXCEPT !.answer = code, !.named = l]

\* Safaricom asks whether to take the payment.
C2BValidation ==
  /\ payment.at = "typed" /\ payment.answer = "unasked"
  /\ \/ ~Validate(prefix, payment.typed) /\ Answered("C2B00012", None)
     \/ /\ Validate(prefix, payment.typed)
        /\ \/ \E l \in GetLoanIDByReference(payment.typed) :
                Answered(IF l = None THEN "C2B00012" ELSE "accepted", l)
           \/ Answered("C2B00016", None)
  /\ UNCHANGED <<loans, prefix, restarts>>

-----------------------------------------------------------------------------
(* The payer, Safaricom and the pull *)

\* The references that differ from ref in one character.
Slips(ref) ==
  {[ref EXCEPT ![i] = c] : i \in DOMAIN ref, c \in Letter \cup {Other}} \ {ref}

\* A payer types one of a loan's references, with at most one slip in the newer.
Type(l, typed) ==
  /\ payment.at = "none" /\ typed # <<>>
  /\ typed \in {loans[l].ref, loans[l].legacy} \cup Slips(loans[l].ref)
  /\ payment' = [payment EXCEPT !.at = "typed", !.meant = l, !.typed = typed]
  /\ UNCHANGED <<loans, prefix, restarts>>

\* A payment settles when it was accepted, or Safaricom was not to ask.
Pays ==
  /\ payment.at = "typed" /\ payment.answer \in {"unasked", "accepted"}
  /\ payment' = [payment EXCEPT !.at = "paid"]
  /\ UNCHANGED <<loans, prefix, restarts>>

\* The sweep records the payment, for no loan when its look-up failed.
reconcile ==
  /\ payment.at = "paid"
  /\ \/ \E l \in GetLoanIDByReference(payment.typed) :
          payment' = [payment EXCEPT !.at = "pulled", !.credited = l]
     \/ payment' = [payment EXCEPT !.at = "orphaned"]
  /\ UNCHANGED <<loans, prefix, restarts>>

-----------------------------------------------------------------------------
RefInit ==
  /\ loans \in [Loan -> {Unissued}] \cup {[l \in Loan |-> IF l = 1 THEN LegacyLoan(1) ELSE Unissued]}
  /\ prefix = [i \in 1..PrefixLen |-> 0] /\ restarts = 0
  /\ payment = [at |-> "none", meant |-> None, typed |-> <<>>, name |-> "unasked",
                answer |-> "unasked", named |-> None, credited |-> None]

RefNext ==
  \/ \E l \in Loan :
       \/ \E r \in Random : IssueLoan(l, r) \/ BackfillReference(l, r)
       \/ \E status \in {"repaid", "deleted"} : EndLoan(l, status)
       \/ \E typed \in {loans[l].ref, loans[l].legacy} \cup Slips(loans[l].ref) : Type(l, typed)
  \/ \E p \in Characters(PrefixLen) : Restart(p)
  \/ Resolve \/ C2BValidation \/ Pays \/ reconcile

RefSpec == RefInit /\ [][RefNext]_refVars

-----------------------------------------------------------------------------
(* Properties *)

Reference == {<<>>} \cup Characters(referenceLen) \cup {LegacyReference(l) : l \in Loan}

\* Loans, prefix and payment keep their types (loanref.go, daraja_callback_controller.go).
RefTypeOK ==
  /\ loans \in [Loan -> [status : {"none", "open", "repaid", "deleted"},
                         ref : Reference, legacy : Reference]]
  /\ ValidatePrefix(prefix) /\ restarts \in 0..MaxRestarts
  /\ payment \in
       [at : {"none", "typed", "paid", "pulled", "orphaned"}, meant : Loan \cup {None},
        typed : Reference, name : {"unasked", "found", "not found"},
        answer : {"unasked", "accepted", "C2B00012", "C2B00016"},
        named : Loan \cup {None}, credited : Loan \cup {None}]

\* A reference with one character wrong pays nobody else's loan: no such payment is
\* accepted or shown a name, and one that settles unasked is put down to no loan,
\* whatever other loans were made under this prefix or an earlier one (loanref.go: the
\* check character is over the prefix too).
SlipPaysNobody ==
  payment.at # "none" /\ payment.typed \in Slips(loans[payment.meant].ref) =>
    payment.answer # "accepted" /\ payment.name # "found" /\ payment.credited = None

\* What Safaricom was answered is what is recorded: a payment accepted for a loan is put
\* down to that loan, unless it was deleted since (daraja_callback_controller.go, pull.go).
\* The loan need not be open, as daraja_callback_controller.go:223 says it must: the query
\* of mpesa_repository.go:199 takes any row that is not deleted.
CreditFollowsAnswer ==
  payment.at = "pulled" /\ payment.answer = "accepted" =>
    \/ payment.credited = payment.named
    \/ payment.credited = None /\ loans[payment.named].status = "deleted"

\* Types, slips and answers (loanref.go, daraja_callback_controller.go, pull.go).
ReferencesSound == RefTypeOK /\ SlipPaysNobody /\ CreditFollowsAnswer

\* The reference of a loan made under the prefix in force, typed without a slip, is not
\* refused as a wrong account while the loan's row stands (loanref.go, config.go:432).
OwnReferenceTaken ==
  [][payment'.answer = "C2B00012" /\ payment.answer = "unasked" =>
       \A l \in Loan :
          loans[l].ref = payment.typed /\ loans[l].status # "deleted" => ~IsPrefix(prefix, loans[l].ref)
    ]_refVars
=============================================================================
