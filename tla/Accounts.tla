------------------------------ MODULE Accounts ------------------------------
(***************************************************************************)
(* One borrower's account row and its Stellar account: the creation that    *)
(* registration dispatches, the check before a loan, and the reconciler     *)
(* (pkg/mobile/ussd/adapters/user_service_adapter.go,                       *)
(* pkg/services/accountheal, pkg/repository/account_repository.go).         *)
(*                                                                         *)
(* Every read of the ledger, submission and write of the row is a step.     *)
(* AccountExists answers "absent" when the network cannot be asked, and a   *)
(* creation whose answer was lost may land later.  A fault is an outage, a  *)
(* lost answer, a failed write or a stop.                                   *)
(*                                                                         *)
(* Abstracted: keys are the index they derive from; signers, thresholds and *)
(* the reserve are left out.                                                *)
(***************************************************************************)
EXTENDS Naturals, FiniteSets

CONSTANTS
  HealAttempts, \* ACCOUNT_HEAL_MAX_ATTEMPTS
  AccountFaults \* bound: faults

ASSUME AccountsAssumption == HealAttempts \in Nat \ {0} /\ AccountFaults \in Nat

VARIABLES
  acct,    \* the row
  onChain, \* who has the address each index derives, if it is on the ledger
  landing, \* creations sent, answer lost, that may still be applied
  creator, \* the goroutine dispatched at registration
  ensure,  \* calls of EnsureOnChainAccount, one at most of each caller
  healed,  \* faults so far
  ready,   \* indexes a loan was told it may rely on
  flagged, \* indexes recorded as conflict
  crossed  \* a call wrote a row that was re-issued under it

avars == <<acct, onChain, landing, creator, ensure, healed, ready, flagged, crossed>>

Index == 1..2
Caller == {"loan", "heal"}
ChainStatus == {"pending", "confirmed", "failed", "unknown", "conflict"}
Idle == [at |-> "idle", index |-> 1, was |-> "pending", attempts |-> 0, final |-> FALSE]
CreateTries == 3

AccountFault == healed < AccountFaults /\ healed' = healed + 1
NoAccountFault == UNCHANGED healed
Existing(i) == onChain[i] # "absent"

-----------------------------------------------------------------------------
(* Ledger and row *)

\* AccountExists: an outage reads as absence.
Found(i) == Existing(i) /\ NoAccountFault
NotFound(i) == IF Existing(i) THEN AccountFault ELSE NoAccountFault

\* createSponsoredAccount: confirmed, answer lost, not sent or failed on the
\* ledger, refused for good.  An account that exists refuses its own key.
CreateSponsoredAccount(i, out) ==
  \/ /\ out = "ok" /\ ~Existing(i) /\ NoAccountFault
     /\ onChain' = [onChain EXCEPT ![i] = "ours"] /\ UNCHANGED landing
  \/ /\ out = "lost" /\ landing[i] < 2 /\ AccountFault
     /\ landing' = [landing EXCEPT ![i] = @ + 1] /\ UNCHANGED onChain
  \/ out = "failed" /\ AccountFault /\ UNCHANGED <<onChain, landing>>
  \/ /\ out = "refused" /\ (IF Existing(i) THEN NoAccountFault ELSE AccountFault)
     /\ UNCHANGED <<onChain, landing>>

Outcomes == {"ok", "lost", "failed", "refused"}

\* A creation whose answer was lost is applied, or its time bounds pass.
Land(i) ==
  /\ landing[i] > 0 /\ landing' = [landing EXCEPT ![i] = @ - 1]
  /\ onChain' \in {onChain, [onChain EXCEPT ![i] = IF Existing(i) THEN @ ELSE "ours"]}
  /\ UNCHANGED <<acct, creator, ensure, healed, ready, flagged, crossed>>

\* One statement, by row id: nothing but a re-issue takes a row out of conflict.
UpdateChainStatus(i, s) ==
  \/ /\ NoAccountFault
     /\ acct' = IF s = "conflict" \/ acct.status # "conflict"
               THEN [acct EXCEPT !.status = s] ELSE acct
     /\ flagged' = IF s = "conflict" THEN flagged \cup {acct.index} ELSE flagged
     /\ crossed' = (crossed \/ i # acct.index)
  \/ AccountFault /\ UNCHANGED <<acct, flagged, crossed>>

-----------------------------------------------------------------------------
(* createSponsoredAccountAsync *)

CreatorGoes(at, n) == creator' = [at |-> at, try |-> n]

CreatorLook ==
  /\ creator.at = "look"
  /\ \/ Found(1) /\ CreatorGoes("flag", 0)
     \/ NotFound(1) /\ CreatorGoes("try", 1)
  /\ UNCHANGED <<acct, onChain, landing, ensure, ready, flagged, crossed>>

\* Fault: a creation whose answer was lost is taken to have worked.
CreatorTryHopeful ==
  /\ creator.at = "try"
  /\ \E out \in Outcomes :
       /\ CreateSponsoredAccount(1, out)
       /\ CASE out \in {"ok", "lost"} -> CreatorGoes("confirm", 0)
            [] out = "failed" /\ creator.try < CreateTries -> CreatorGoes("try", creator.try + 1)
            [] OTHER -> CreatorGoes("reread", 0)
  /\ UNCHANGED <<acct, ensure, ready, flagged, crossed>>

\* Up to three attempts; a permanent refusal ends them.
CreatorTry ==
  /\ creator.at = "try"
  /\ \E out \in Outcomes :
       /\ CreateSponsoredAccount(1, out)
       /\ CASE out = "ok" -> CreatorGoes("confirm", 0)
            [] out \in {"lost", "failed"} /\ creator.try < CreateTries
                 -> CreatorGoes("try", creator.try + 1)
            [] OTHER -> CreatorGoes("reread", 0)
  /\ UNCHANGED <<acct, ensure, ready, flagged, crossed>>

\* Somebody else may have confirmed the account meanwhile.
CreatorReread ==
  /\ creator.at = "reread"
  /\ \/ /\ NoAccountFault
        /\ CreatorGoes(IF acct.status = "confirmed" /\ acct.index = 1 THEN "done" ELSE "fail", 0)
     \/ AccountFault /\ CreatorGoes("fail", 0)
  /\ UNCHANGED <<acct, onChain, landing, ensure, ready, flagged, crossed>>

CreatorRecord ==
  \E s \in {<<"flag", "conflict">>, <<"confirm", "confirmed">>, <<"fail", "failed">>} :
    /\ creator.at = s[1] /\ UpdateChainStatus(1, s[2]) /\ CreatorGoes("done", 0)
    /\ UNCHANGED <<onChain, landing, ensure, ready>>

-----------------------------------------------------------------------------
(* EnsureOnChainAccount *)

Goes(c, at) == ensure' = [ensure EXCEPT ![c].at = at]
Ends(c) == ensure' = [ensure EXCEPT ![c] = Idle]

\* What the caller does with the answer: a loan goes ahead on "ok", the
\* reconciler records the check, and leaves the attempts alone in an outage.
Answer(c, result) ==
  LET s == ensure[c] IN
  IF c = "loan"
    THEN /\ Ends(c)
         /\ ready' = IF result = "ok" THEN ready \cup {s.index} ELSE ready
    ELSE /\ UNCHANGED ready
         /\ ensure' = [ensure EXCEPT ![c] =
              CASE result = "ok" -> [s EXCEPT !.at = "record", !.attempts = 0, !.final = FALSE]
                [] result = "outage" -> [s EXCEPT !.at = "record", !.final = FALSE]
                [] result = "conflict" -> Idle
                [] result = "error" -> [s EXCEPT !.at = "record", !.final = TRUE,
                     !.attempts = IF s.attempts < HealAttempts THEN s.attempts + 1 ELSE HealAttempts]
                [] result = "permanent" -> [s EXCEPT !.at = "record", !.final = TRUE,
                                                     !.attempts = HealAttempts]]

\* Fault: rows at the cap are not due again.
DueBelowCap ==
  /\ acct.attempts < HealAttempts
  /\ acct.status \in {"failed", "unknown"} \/ (acct.status = "pending" /\ creator.at = "done")

\* GetDueChainHeals: below the cap after RetryAfter, at the cap after
\* RetryBackoff; pending only once it is older than the goroutine lives.
Due ==
  \/ acct.status \in {"failed", "unknown"}
  \/ acct.status = "pending" /\ creator.at = "done"

Call(c) ==
  /\ ensure[c].at = "idle" /\ (c = "heal" => Due)
  /\ ensure' = [ensure EXCEPT ![c] =
       [at |-> "refuse", index |-> acct.index, was |-> acct.status,
        attempts |-> acct.attempts, final |-> FALSE]]
  /\ UNCHANGED <<acct, onChain, landing, creator, healed, ready, flagged, crossed>>

Held(c) == acct.index = ensure[c].index

\* refuseConflict: a row that cannot be read refuses too.
Refuse(c) ==
  /\ ensure[c].at = "refuse"
  /\ \/ /\ NoAccountFault /\ Held(c) /\ acct.status # "conflict"
        /\ Goes(c, "look") /\ UNCHANGED ready
     \/ /\ NoAccountFault /\ Held(c) /\ acct.status = "conflict" /\ Answer(c, "conflict")
     \/ /\ (IF Held(c) THEN AccountFault ELSE NoAccountFault) /\ Answer(c, "outage")
  /\ UNCHANGED <<acct, onChain, landing, creator, flagged, crossed>>

Look(c) ==
  /\ ensure[c].at = "look"
  /\ \/ Found(ensure[c].index) /\ Goes(c, "adopt")
     \/ NotFound(ensure[c].index) /\ Goes(c, "create")
  /\ UNCHANGED <<acct, onChain, landing, creator, ready, flagged, crossed>>

\* adoptExisting: the row decides whose account it is.
AdoptExisting(c) ==
  /\ ensure[c].at = "adopt"
  /\ \/ /\ NoAccountFault /\ Held(c) /\ acct.status = "confirmed" /\ Answer(c, "ok")
     \/ /\ NoAccountFault /\ Held(c) /\ acct.status # "confirmed" /\ UNCHANGED ready
        /\ Goes(c, IF acct.status \in {"pending", "unknown"} THEN "confirm" ELSE "flag")
     \/ /\ (IF Held(c) THEN AccountFault ELSE NoAccountFault) /\ Answer(c, "outage")
  /\ UNCHANGED <<acct, onChain, landing, creator, flagged, crossed>>

Create(c) ==
  /\ ensure[c].at = "create"
  /\ \E out \in Outcomes :
       /\ CreateSponsoredAccount(ensure[c].index, out)
       /\ ensure' = [ensure EXCEPT ![c].at = IF out = "ok" THEN "reread" ELSE "recheck",
                                   ![c].final = out = "refused"]
  /\ UNCHANGED <<acct, creator, ready, flagged, crossed>>

\* The account may have appeared between the check and the creation.
Recheck(c) ==
  /\ ensure[c].at = "recheck"
  /\ \/ Found(ensure[c].index) /\ Goes(c, "reread") /\ UNCHANGED ready
     \/ NotFound(ensure[c].index) /\ Answer(c, IF ensure[c].final THEN "permanent" ELSE "error")
  /\ UNCHANGED <<acct, onChain, landing, creator, flagged, crossed>>

\* confirmChainStatus: best effort.
Reread(c) ==
  /\ ensure[c].at = "reread"
  /\ \/ /\ NoAccountFault /\ Held(c) /\ acct.status \notin {"confirmed", "conflict"}
        /\ Goes(c, "confirm") /\ UNCHANGED ready
     \/ /\ NoAccountFault /\ (Held(c) => acct.status \in {"confirmed", "conflict"})
        /\ Answer(c, "ok")
     \/ /\ AccountFault /\ Answer(c, "ok")
  /\ UNCHANGED <<acct, onChain, landing, creator, flagged, crossed>>

Confirm(c) ==
  /\ ensure[c].at = "confirm" /\ UpdateChainStatus(ensure[c].index, "confirmed") /\ Answer(c, "ok")
  /\ UNCHANGED <<onChain, landing, creator>>

Flag(c) ==
  /\ ensure[c].at = "flag" /\ UpdateChainStatus(ensure[c].index, "conflict")
  /\ Answer(c, "conflict")
  /\ UNCHANGED <<onChain, landing, creator>>

\* Drive: the check is recorded first, a failure's status after it.
Record ==
  /\ ensure["heal"].at = "record"
  /\ \/ NoAccountFault /\ acct' = [acct EXCEPT !.attempts = ensure["heal"].attempts]
     \/ AccountFault /\ UNCHANGED acct
  /\ IF ensure["heal"].final /\ ensure["heal"].was # "failed"
     THEN Goes("heal", "mark") ELSE Ends("heal")
  /\ UNCHANGED <<onChain, landing, creator, ready, flagged, crossed>>

MarkFailed ==
  /\ ensure["heal"].at = "mark" /\ UpdateChainStatus(ensure["heal"].index, "failed") /\ Ends("heal")
  /\ UNCHANGED <<onChain, landing, creator, ready>>

-----------------------------------------------------------------------------
(* Stops and the operators *)

Stop ==
  /\ AccountFault /\ creator' = [at |-> "done", try |-> 0] /\ ensure' = [c \in Caller |-> Idle]
  /\ UNCHANGED <<acct, onChain, landing, ready, flagged, crossed>>

\* Fault: the row moves but stays in conflict.
ReissueConflictKeeping ==
  /\ acct.status = "conflict" /\ acct.index = 1 /\ onChain[2] # "theirs"
  /\ acct' = [acct EXCEPT !.index = 2, !.attempts = 0]
  /\ UNCHANGED <<onChain, landing, creator, ensure, healed, ready, flagged, crossed>>

\* ReissueConflict: the next index, whose address the operator saw to be free.
ReissueConflict ==
  /\ acct.status = "conflict" /\ acct.index = 1 /\ onChain[2] # "theirs"
  /\ acct' = [status |-> "pending", index |-> 2, attempts |-> 0]
  /\ UNCHANGED <<onChain, landing, creator, ensure, healed, ready, flagged, crossed>>

-----------------------------------------------------------------------------

\* The row has just been committed; its index may have been handed out before.
aInit ==
  /\ acct = [status |-> "pending", index |-> 1, attempts |-> 0]
  /\ onChain \in [Index -> {"absent", "theirs"}] /\ landing = [i \in Index |-> 0]
  /\ creator = [at |-> "look", try |-> 0] /\ ensure = [c \in Caller |-> Idle]
  /\ healed = 0 /\ ready = {} /\ flagged = {} /\ crossed = FALSE

Creating == CreatorLook \/ CreatorTry \/ CreatorReread \/ CreatorRecord
Ensuring(c) ==
  \/ Refuse(c) \/ Look(c) \/ AdoptExisting(c) \/ Create(c) \/ Recheck(c) \/ Reread(c)
  \/ Confirm(c) \/ Flag(c)

aNext ==
  \/ CreatorLook \/ CreatorTry \/ CreatorReread \/ CreatorRecord
  \/ \E c \in Caller : \/ Call(c) \/ Refuse(c) \/ Look(c) \/ AdoptExisting(c) \/ Create(c)
                       \/ Recheck(c) \/ Reread(c) \/ Confirm(c) \/ Flag(c)
  \/ Record \/ MarkFailed \/ (\E i \in Index : Land(i)) \/ Stop \/ ReissueConflict

aSpec == aInit /\ [][aNext]_avars

Healing == Call("heal") \/ Ensuring("heal") \/ Record \/ MarkFailed

-----------------------------------------------------------------------------
(* Properties *)

\* UpdateChainStatus, ReissueConflict: rows keep their types (attempts are counted
\* up to the cap), and a row in conflict is so by a record of its own index.
AccountsTypeOK ==
  /\ acct \in [status : ChainStatus, index : Index, attempts : 0..HealAttempts]
  /\ onChain \in [Index -> {"absent", "ours", "theirs"}] /\ landing \in [Index -> 0..2]
  /\ creator.at \in {"look", "try", "flag", "confirm", "reread", "fail", "done"}
  /\ creator.try \in 0..CreateTries
  /\ \A c \in Caller : ensure[c].was \in ChainStatus /\ ensure[c].attempts \in 0..HealAttempts
  /\ ready \subseteq Index /\ flagged \subseteq 1..acct.index
  /\ acct.status = "conflict" => acct.index \in flagged

\* docs/stellar/client.md:130: confirmed means observed on the network, through
\* every overlap of registration, loans and reconciler, unless the row was
\* re-issued under a call.
ConfirmedExists == acct.status = "confirmed" => Existing(acct.index) \/ crossed

\* UpdateChainStatus (account_repository.go:416-418): an index recorded as
\* conflict is not confirmed by a call that read the row before.
ConflictNeverConfirmed == acct.status = "confirmed" => acct.index \notin flagged

\* EnsureOnChainAccount (user_service_adapter.go:231-236): a loan is let through
\* only when the account exists on the ledger.
EnsuredExists == \A i \in ready : Existing(i)

\* What is said of an account, to the row or to a loan, is true of the ledger.
AccountSound == ConfirmedExists /\ ConflictNeverConfirmed /\ EnsuredExists

\* accountheal: whatever became of the registration's own attempt, the row ends
\* confirmed, or in conflict for the operators; the reconciler never gives up.
AccountSettles ==
  <>(creator.at = "done") => <>[](acct.status \in {"confirmed", "conflict"})
=============================================================================
