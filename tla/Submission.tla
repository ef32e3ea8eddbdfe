------------------------------ MODULE Submission ------------------------------
(***************************************************************************)
(* Contract calls the server signs: pkg/stellar/soroban's submit path,      *)
(* rpc.PollTransaction and the verifier that settles an outcome nobody saw. *)
(* Each caller wants one effect on the vault and calls again until it knows *)
(* that it has it; the ledger, the queue of stellar-core and the RPC nodes, *)
(* which may lag and forget, are external.                                  *)
(*                                                                         *)
(* A caller with a hook is docs/offramp/README.md's vault repay: it records *)
(* the hash before anything is sent and settles an unknown outcome by it.   *)
(* Other callers park an unknown outcome until a person looks it up, as     *)
(* mgpoller/deposit.go does.                                                *)
(*                                                                         *)
(* Abstracted: fees, resources and arguments; the number of poll attempts   *)
(* (a poll may give up at any of them); the result's events, whose reading  *)
(* never fails a call that landed.  Assumed: the local clock is not behind  *)
(* the ledger's, and no two callers sign the same call in the same second.  *)
(***************************************************************************)
EXTENDS Integers

CONSTANTS
  Caller,
  Validity,   \* the time bound of a signed transaction, NewTimeout(300)
  MaxClock,   \* bound: the clock
  MaxSigned   \* bound: calls by one caller

ASSUME SubmissionAssumption ==
  Validity \in Nat \ {0} /\ MaxClock \in Nat /\ MaxSigned \in Nat

VARIABLES
  wallClock,  \* the local clock
  closedAt,   \* close time of the latest ledger
  sequence,   \* the ledger's sequence number of each signing key
  fate,       \* of each signed transaction: where it is and when it landed
  call,       \* where each caller stands
  onFile      \* the transactions recorded by hooks

submitVars == <<wallClock, closedAt, sequence, fate, call, onFile>>

SigningKeys == {"treasury", "admin", "compliance"}
NoCall == [by |-> "nobody", key |-> "none", seq |-> 0, until |-> 0]
Clean == [at |-> "signed", on |-> 0]
InFlight == {"simulate", "sign", "record", "send", "poll"}

\* A transaction's hash stands for all that is signed.
Signed(h) == h.until - Validity
Landed(h) == fate[h].at \in {"success", "failed"}

SubmissionInit ==
  /\ wallClock = 0 /\ closedAt = 0 /\ sequence = [k \in SigningKeys |-> 0]
  /\ fate = <<>> /\ onFile = {}
  /\ call \in [Caller -> [at : {"free"}, key : SigningKeys, hook : BOOLEAN, tx : {NoCall}, since : {0},
                          tries : {0}]]
  /\ \A c \in Caller : call[c].hook => call[c].key = "treasury"

-----------------------------------------------------------------------------
(* Errors *)

\* Fault: a poll that gave up is taken for a failure.
OutcomeUnknownEager(err) == err \in {"unconfirmed", "unknown_status"}

\* Whether a submit error leaves open that the transaction landed.
OutcomeUnknown(err) ==
  err \in {"unconfirmed", "timeout", "unknown_status", "cancelled"}

\* The call returns an error: parked when it may have landed, else free to repeat.
Return(c, err) ==
  call' = [call EXCEPT ![c].at = IF OutcomeUnknown(err) THEN "unknown" ELSE "free"]

Proceed(c, step) == call' = [call EXCEPT ![c].at = step]

LedgerStands == UNCHANGED <<wallClock, closedAt, sequence>>

-----------------------------------------------------------------------------
(* A call: simulate, load and sign, record, send, poll *)

Invoke(c, key, hook) ==
  /\ call[c].at = "free" /\ call[c].key = key /\ call[c].hook = hook
  /\ call[c].tries < MaxSigned
  /\ call' = [call EXCEPT ![c].at = "simulate", ![c].tx = NoCall, ![c].since = wallClock,
                          ![c].tries = @ + 1]
  /\ LedgerStands /\ UNCHANGED <<fate, onFile>>

BorrowFromVault(c) == Invoke(c, "treasury", FALSE)
RepayToVault(c)    == \E hook \in BOOLEAN : Invoke(c, "treasury", hook)
RepayForVault(c)   == Invoke(c, "treasury", FALSE)
BumpYield(c)       == Invoke(c, "treasury", FALSE)
AccrueInterest(c)  == Invoke(c, "treasury", FALSE)
ProcessQueue(c)    == Invoke(c, "admin", FALSE)
AdminCall(c)       == Invoke(c, "admin", FALSE)
ComplianceCall(c)  == Invoke(c, "compliance", FALSE)

\* A call that cannot be simulated, or that the contract rejects, ends here.
Simulate(c) ==
  /\ call[c].at = "simulate"
  /\ Proceed(c, "sign") \/ Return(c, "rejected_by_simulation")
  /\ LedgerStands /\ UNCHANGED <<fate, onFile>>

\* The account is loaded, from a node that may lag, then the transaction is
\* built on its sequence number and signed.
LoadAndSign(c) ==
  /\ call[c].at = "sign"
  /\ \/ \E loaded \in 0..sequence[call[c].key] :
          LET h == [by |-> c, key |-> call[c].key, seq |-> loaded + 1,
                    until |-> wallClock + Validity]
          IN  /\ fate' = [x \in DOMAIN fate \cup {h} |-> IF x \in DOMAIN fate THEN fate[x] ELSE Clean]
              /\ call' = [call EXCEPT ![c] =
                           [@ EXCEPT !.at = IF call[c].hook THEN "record" ELSE "send", !.tx = h]]
     \/ Return(c, "transport") /\ UNCHANGED fate
  /\ LedgerStands /\ UNCHANGED onFile

\* OnSigned: an error, which may have written the record, aborts the submission.
RecordSigned(c) ==
  /\ call[c].at = "record"
  /\ \/ Proceed(c, "send") /\ onFile' = onFile \cup {call[c].tx}
     \/ Return(c, "not_recorded") /\ onFile' \in {onFile, onFile \cup {call[c].tx}}
  /\ LedgerStands /\ UNCHANGED fate

\* stellar-core's answer, or none: an answer ERROR or TRY_AGAIN_LATER means the
\* transaction was not admitted, no answer that it may have been.
Send(c) ==
  /\ call[c].at = "send"
  /\ \/ /\ fate' = [fate EXCEPT ![call[c].tx] = IF Landed(call[c].tx) THEN @
                                                ELSE [at |-> "queued", on |-> 0]]
        /\ Proceed(c, "poll") \/ Return(c, "unconfirmed")
     \/ Return(c, "rejected") /\ UNCHANGED fate
     \/ Return(c, "unconfirmed") /\ UNCHANGED fate
  /\ LedgerStands /\ UNCHANGED onFile

\* PollTransaction: while the node does not show the transaction, or does not
\* answer, the poll goes on; it ends by the ledger's word or without one.
PollTransaction(c) ==
  /\ call[c].at = "poll"
  /\ \/ fate[call[c].tx].at = "success" /\ Proceed(c, "done")
     \/ fate[call[c].tx].at = "failed" /\ Return(c, "failed_on_ledger")
     \/ \E err \in {"timeout", "cancelled", "unknown_status"} : Return(c, err)
  /\ LedgerStands /\ UNCHANGED <<fate, onFile>>

\* A stop of the process: the claim or the row remains, the answer is lost.
StopCall(c) ==
  /\ call[c].at \in InFlight /\ Proceed(c, "unknown")
  /\ \/ UNCHANGED onFile
     \/ call[c].at = "record" /\ onFile' = onFile \cup {call[c].tx}
  /\ LedgerStands /\ UNCHANGED fate

-----------------------------------------------------------------------------
(* Settling an outcome nobody saw *)

\* A node holds the ledgers that closed from oldest to latest.
Shows(h, latest, oldest) == Landed(h) /\ fate[h].on \in oldest..latest

\* Fault: the window is judged by the local clock and not by the node's ledgers.
ResolveSubmittedByClock(h, since, latest, oldest) ==
  IF Shows(h, latest, oldest) THEN fate[h].at
  ELSE IF wallClock <= h.until THEN "unresolved"
  ELSE IF oldest >= since THEN "outside_retention" ELSE "never_landed"

ResolveSubmitted(h, since, latest, oldest) ==
  IF Shows(h, latest, oldest) THEN fate[h].at
  ELSE IF latest <= h.until THEN "unresolved"
  ELSE IF oldest >= since THEN "outside_retention" ELSE "never_landed"

TransactionSucceeded(h, latest, oldest) ==
  IF Shows(h, latest, oldest) THEN fate[h].at ELSE "unknown"

\* The reconciler settles a recorded hash; what failed or never landed is repeated.
Reconcile(c) ==
  /\ call[c].at = "unknown" /\ call[c].tx \in onFile
  /\ \E latest \in 0..closedAt : \E oldest \in 0..latest :
       LET outcome == ResolveSubmitted(call[c].tx, call[c].since, latest, oldest) IN
       \/ outcome = "success" /\ Proceed(c, "done")
       \/ outcome \in {"failed", "never_landed"} /\ Proceed(c, "free")
  /\ LedgerStands /\ UNCHANGED <<fate, onFile>>

\* A person looks a parked transaction up; not on the ledger is not an answer.
LookUp(c) ==
  /\ call[c].at = "unknown" /\ ~call[c].hook /\ call[c].tx # NoCall
  /\ \E latest \in 0..closedAt : \E oldest \in 0..latest :
       LET outcome == TransactionSucceeded(call[c].tx, latest, oldest) IN
       \/ outcome = "success" /\ Proceed(c, "done")
       \/ outcome = "failed" /\ Proceed(c, "free")
  /\ LedgerStands /\ UNCHANGED <<fate, onFile>>

-----------------------------------------------------------------------------
(* The ledger *)

Tick ==
  /\ wallClock < MaxClock /\ wallClock' = wallClock + 1
  /\ UNCHANGED <<closedAt, sequence, fate, call, onFile>>

\* A ledger closes, with at most one of the queued transactions: one signed by
\* then, in its time bound, with the next sequence number of its key.  Another
\* process that signs with a key may take that number first.
CloseLedger(time) ==
  /\ time \in (closedAt + 1)..wallClock /\ closedAt' = time
  /\ \/ UNCHANGED <<sequence, fate>>
     \/ \E k \in {call[c].key : c \in Caller} :
          sequence' = [sequence EXCEPT ![k] = @ + 1] /\ UNCHANGED fate
     \/ \E h \in DOMAIN fate, result \in {"success", "failed"} :
          /\ fate[h].at = "queued" /\ h.seq = sequence[h.key] + 1
          /\ Signed(h) <= time /\ time <= h.until
          /\ sequence' = [sequence EXCEPT ![h.key] = @ + 1]
          /\ fate' = [fate EXCEPT ![h] = [at |-> result, on |-> time]]
  /\ UNCHANGED <<wallClock, call, onFile>>

CallerMoves(c) ==
  \/ BorrowFromVault(c) \/ RepayToVault(c) \/ RepayForVault(c) \/ BumpYield(c)
  \/ AccrueInterest(c) \/ ProcessQueue(c) \/ AdminCall(c) \/ ComplianceCall(c)
  \/ Simulate(c) \/ LoadAndSign(c) \/ RecordSigned(c) \/ Send(c)
  \/ PollTransaction(c) \/ StopCall(c) \/ Reconcile(c) \/ LookUp(c)

SubmissionNext ==
  \/ \E c \in Caller : CallerMoves(c)
  \/ Tick
  \/ \E time \in 1..wallClock : CloseLedger(time)

SubmissionSpec == SubmissionInit /\ [][SubmissionNext]_submitVars

-----------------------------------------------------------------------------
(* Properties *)

Hashes == [by : Caller, key : SigningKeys, seq : Nat, until : Nat]

\* Callers, transactions and times hold only the values the code writes.
SubmissionTypeOK ==
  /\ wallClock \in 0..MaxClock /\ closedAt \in 0..wallClock
  /\ \A k \in SigningKeys : sequence[k] \in Nat
  /\ DOMAIN fate \subseteq Hashes /\ onFile \subseteq DOMAIN fate
  /\ \A h \in DOMAIN fate : fate[h].at \in {"signed", "queued", "success", "failed"}
  /\ \A c \in Caller :
       /\ call[c].at \in InFlight \cup {"free", "unknown", "done"}
       /\ call[c].tx \in DOMAIN fate \cup {NoCall} /\ call[c].tries \in 0..MaxSigned

\* However often a caller repeats a call whose outcome it was told, one of its
\* transactions succeeds at most (deposit.go:565-568, docs/offramp/README.md:65).
LandsOnce ==
  \A h, g \in DOMAIN fate :
    h.by = g.by /\ fate[h].at = "success" /\ fate[g].at = "success" => h = g

\* A caller stops only when its transaction succeeded.
DoneIsLanded == \A c \in Caller : call[c].at = "done" => fate[call[c].tx].at = "success"

\* Nothing of a hooked caller reaches the network before its hash is on file
\* (types/dto.go:98-100).
SentIsOnFile ==
  \A h \in DOMAIN fate : call[h.by].hook /\ fate[h].at # "signed" => h \in onFile

\* Whichever node answers, never landed is final (verify.go:100-104).
NeverLandedIsFinal ==
  \A h \in DOMAIN fate : \A latest \in 0..closedAt : \A oldest \in 0..latest :
    ResolveSubmitted(h, Signed(h), latest, oldest) = "never_landed"
      => ~Landed(h) /\ closedAt > h.until

\* What a caller was told about its transaction is true, and stays so.
OutcomesAreTrue == DoneIsLanded /\ SentIsOnFile /\ NeverLandedIsFinal
=============================================================================
