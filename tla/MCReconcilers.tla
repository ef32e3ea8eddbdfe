---------------------------- MODULE MCReconcilers ----------------------------
(***************************************************************************)
(* The two parts that bring the database and the ledger to agree: the      *)
(* healing of accounts and the allowlist with its writer and monitoring.   *)
(* They do not read each other's state and TLC checks them in one run: a   *)
(* behaviour moves one part and leaves the other at its initial state, so  *)
(* that the states add up and do not multiply.  Fairness is each module's  *)
(* own, of the part that moves.                                            *)
(***************************************************************************)
EXTENDS Accounts, Allowlist

CONSTANT x1

VARIABLE part

Init ==
    /\ part \in {"accounts", "allowlist"} /\ aInit /\ AllowlistInit
    /\ part # "accounts" => onChain = [i \in Index |-> "absent"]

AccountsMove   == part = "accounts" /\ UNCHANGED <<allowVars, part>> /\ aNext
AllowlistMoves == part = "allowlist" /\ UNCHANGED <<avars, part>> /\ AllowlistNext

Next == AccountsMove \/ AllowlistMoves

AccountsFair ==
    /\ WF_avars(part = "accounts" /\ Creating)
    /\ WF_avars(part = "accounts" /\ Healing)
    /\ \A i \in Index : WF_avars(part = "accounts" /\ Land(i))

AllowlistFair ==
    /\ WF_allowVars(part = "allowlist" /\ ListQueue)
    /\ \A x \in Addr : /\ WF_allowVars(part = "allowlist" /\ Submit(x))
                       /\ WF_allowVars(part = "allowlist" /\ RecordOnchain(x))
                       /\ WF_allowVars(part = "allowlist" /\ BeginRecheck(x))
                       /\ WF_allowVars(part = "allowlist" /\ EndRecheck(x))
                       /\ WF_allowVars(part = "allowlist" /\ Tell(x))

FairSpec ==
    Init /\ [][Next]_<<part, avars, allowVars>> /\ AccountsFair /\ AllowlistFair

\* The type invariant of both parts.
TypesOK == AccountsTypeOK /\ AllowlistTypeOK

\* What the rows and the ledger say of an account is true, and nobody is put on the
\* vault's allowlist before the verification but by a person's decision
\* (account_repository.go, user_service_adapter.go, lifecycle.go, onchain_writer.go).
ReconcilersSound == AccountSound /\ NoAllowBeforeKYB

\* What the rows want reaches the chain in the end: an account is confirmed or put
\* before the operators (accountheal/reconciler.go), what people decided against an
\* address reaches the vault, and a person is told of every alert
\* (onchain_writer.go, monitoring.go).
ReconcilersSettle == AccountSettles /\ IntentReachesChain /\ AlertsAreAnswered
=============================================================================
