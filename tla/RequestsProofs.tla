--------------------------- MODULE RequestsProofs ---------------------------
(***************************************************************************)
(* The parts whose requests are repeated, overtaken or lost, and their      *)
(* composition in MCRequests: a YellowCard payout pays twice only after a   *)
(* transfer that landed was reported as failed, a contract call repeated    *)
(* after a known failure lands once, a request with a provider's token is   *)
(* performed once, and a dialogue acts on what its caller saw and entered.  *)
(* For any number of handlers, callers, repeats and faults.                 *)
(*                                                                         *)
(* The submission's invariant follows the transactions a caller has left    *)
(* behind: each is over, that is rejected, failed or past its time bound.   *)
(* The credentials' follows the one call inside a flight, whose mint is     *)
(* newer than every token the provider has replaced.  The dialogue's says   *)
(* of each screen what must have been shown and entered to reach it.        *)
(***************************************************************************)
EXTENDS MCRequests, ComplianceProofs

-----------------------------------------------------------------------------
(* One YellowCard payout (Payouts) *)

\* What the argument needs of the types.
PayoutShaped ==
  /\ yc \in [PaymentKeys -> YcStatuses]
  /\ loanRow = [status |-> loanRow.status, method |-> loanRow.method]
  /\ poller = [at |-> poller.at, seen |-> poller.seen]

\* The loan's USDC is in the treasury and stays there: nothing was sent and
\* nothing will be, or YellowCard refunded it, or SendUSDC misled the adapter.
Safe ==
  \/ misjudged
  \/ yc.direct = "refunded"
  \/ ~carried /\ desk \in {"fiat", "done"}

\* Once the USDC was sent, Initiate is over or was misled.
SentEndsInitiate == carried => desk = "done" \/ (desk = "fiat" /\ misjudged)

\* YellowCard works on a direct payment only with its USDC.
WorkedOnlyIfSent ==
  yc.direct \in {"processing", "complete", "pending_refund", "refunded", "refund_failed"} => carried

\* Past its look-up the refund poller acts on a refund that was made.
RefundWasMade ==
  \/ poller.at = "looked" /\ poller.seen = "refunded"
  \/ poller.at \in {"failover", "flip", "mark", "sink", "repay"}
  => yc.direct = "refunded"

\* A fallback payment, the method fiat and a repaid vault: each only when Safe.
FallbackIsSafe == yc.fiat # "none" \/ loanRow.method = "fiat" \/ repaid => Safe

PayoutsInv ==
  PayoutShaped /\ SentEndsInitiate /\ WorkedOnlyIfSent /\ RefundWasMade /\ FallbackIsSafe

LEMMA PayoutsInvInit == PayoutsInit => PayoutsInv
BY DEF PayoutsInit, PayoutsInv, PayoutShaped, SentEndsInitiate, WorkedOnlyIfSent, RefundWasMade,
       FallbackIsSafe, Safe, PaymentKeys, YcStatuses, Idle

\* YellowCard's own steps: a refund is final.
LEMMA ProviderKeeps ==
  ASSUME PayoutsInv, NEW key \in PaymentKeys, NEW status \in YcStatuses, ProviderMove(key, status)
  PROVE  PayoutsInv'
<1> USE DEF PayoutsInv, ProviderMove
<1>1. PayoutShaped' BY DEF PayoutShaped
<1>2. CASE key = "direct"
  <2>1. yc'.direct = status /\ yc'.fiat = yc.fiat BY <1>2 DEF PayoutShaped, PaymentKeys
  <2>2. yc.direct # "refunded" BY <1>2 DEF ProviderMoves
  <2>3. WorkedOnlyIfSent' BY <1>2, <2>1 DEF WorkedOnlyIfSent, ProviderMoves
  <2> QED BY <1>1, <2>1, <2>2, <2>3
       DEF SentEndsInitiate, RefundWasMade, FallbackIsSafe, Safe
<1>3. CASE key = "fiat"
  <2>1. yc'.direct = yc.direct /\ yc.fiat # "none" BY <1>3 DEF PayoutShaped, PaymentKeys, ProviderMoves
  <2> QED BY <1>1, <2>1
       DEF SentEndsInitiate, WorkedOnlyIfSent, RefundWasMade, FallbackIsSafe, Safe
<1> QED BY <1>2, <1>3 DEF PaymentKeys

\* SubmitPayment leaves a direct payment that exists alone and creates one
\* that waits for its USDC.
LEMMA SubmitDoes ==
  ASSUME PayoutShaped, NEW key \in PaymentKeys, NEW ok \in BOOLEAN, Submit(key, ok)
  PROVE  /\ yc' \in [PaymentKeys -> YcStatuses]
         /\ key = "fiat" => yc'.direct = yc.direct
         /\ key = "direct" => /\ yc'.fiat = yc.fiat
                              /\ yc'.direct \in {yc.direct, "pending_settlement"}
                              /\ yc.direct # "none" => yc'.direct = yc.direct
BY DEF Submit, Created, PayoutShaped, PaymentKeys, YcStatuses

LEMMA InitiateKeeps ==
  ASSUME PayoutsInv, NoChannel \/ SubmitDirect \/ RejectWallet \/ SendUSDC \/ SubmitFiat
  PROVE  PayoutsInv'
<1> USE DEF PayoutsInv
<1>1. CASE SubmitDirect
  <2>1. PICK ok \in BOOLEAN : Submit("direct", ok) /\ desk' = IF ok THEN "send" ELSE "fiat"
    BY <1>1 DEF SubmitDirect
  <2>2. /\ yc' \in [PaymentKeys -> YcStatuses] /\ yc'.fiat = yc.fiat
        /\ yc'.direct \in {yc.direct, "pending_settlement"}
        /\ yc.direct # "none" => yc'.direct = yc.direct
    BY <2>1, SubmitDoes DEF PaymentKeys
  <2>3. /\ desk = "direct"
        /\ UNCHANGED <<carried, misjudged, loanRow, repaid, handlers, poller>>
    BY <1>1 DEF SubmitDirect
  <2> QED BY <2>1, <2>2, <2>3
       DEF PayoutShaped, SentEndsInitiate, WorkedOnlyIfSent, RefundWasMade, FallbackIsSafe, Safe
<1>2. CASE RejectWallet
  BY <1>2 DEF RejectWallet, PayoutShaped, SentEndsInitiate, WorkedOnlyIfSent, RefundWasMade,
              FallbackIsSafe, Safe
<1>3. CASE SendUSDC
  <2>1. ~carried /\ desk = "send" BY <1>3 DEF SendUSDC, SentEndsInitiate
  <2>2. PayoutShaped' BY <1>3 DEF SendUSDC, PayoutShaped
  <2>3. UNCHANGED <<yc, repaid, poller>> BY <1>3 DEF SendUSDC
  <2>4. SentEndsInitiate' BY <1>3 DEF SendUSDC, SentEndsInitiate
  <2>5. WorkedOnlyIfSent' BY <1>3, <2>1, <2>3 DEF SendUSDC, WorkedOnlyIfSent
  <2>6. RefundWasMade' BY <2>3 DEF RefundWasMade
  <2>7. FallbackIsSafe' BY <1>3, <2>1, <2>3 DEF SendUSDC, FallbackIsSafe, Safe
  <2> QED BY <2>2, <2>4, <2>5, <2>6, <2>7
<1>4. CASE SubmitFiat
  <2>1. PICK ok \in BOOLEAN :
          /\ Submit("fiat", ok)
          /\ loanRow' = IF ok THEN [status |-> "fiat_submitted", method |-> "fiat"]
                         ELSE [loanRow EXCEPT !.status = "failed"]
    BY <1>4 DEF SubmitFiat
  <2>2. yc' \in [PaymentKeys -> YcStatuses] /\ yc'.direct = yc.direct
    BY <2>1, SubmitDoes DEF PaymentKeys
  <2>3. /\ desk = "fiat" /\ desk' = "done"
        /\ UNCHANGED <<carried, misjudged, repaid, handlers, poller>>
    BY <1>4 DEF SubmitFiat
  <2>4. Safe' BY <2>2, <2>3 DEF SentEndsInitiate, Safe
  <2>5. PayoutShaped' BY <2>1, <2>2, <2>3 DEF PayoutShaped
  <2> QED BY <2>2, <2>3, <2>4, <2>5
       DEF SentEndsInitiate, WorkedOnlyIfSent, RefundWasMade, FallbackIsSafe
<1>5. CASE NoChannel
  BY <1>5 DEF NoChannel, PayoutShaped, SentEndsInitiate, WorkedOnlyIfSent, RefundWasMade,
              FallbackIsSafe, Safe
<1> QED BY <1>1, <1>2, <1>3, <1>4, <1>5

\* The webhook's handlers: a completion repays the vault only under the
\* method fiat.
LEMMA WebhookKeeps ==
  ASSUME PayoutsInv,
         \/ \E event \in announced : Deliver(event)
         \/ \E h \in handlers : LookUpMethod(h) \/ Handle(h) \/ LoseAnswer(h)
  PROVE  PayoutsInv'
<1> USE DEF PayoutsInv
<1>1. ASSUME NEW event \in announced, Deliver(event) PROVE PayoutsInv'
  BY <1>1 DEF Deliver, PayoutShaped, SentEndsInitiate, WorkedOnlyIfSent, RefundWasMade,
              FallbackIsSafe, Safe
<1>2. ASSUME NEW h \in handlers, LookUpMethod(h) PROVE PayoutsInv'
  BY <1>2 DEF LookUpMethod, PayoutShaped, SentEndsInitiate, WorkedOnlyIfSent, RefundWasMade,
              FallbackIsSafe, Safe
<1>3. ASSUME NEW h \in handlers, LoseAnswer(h) PROVE PayoutsInv'
  BY <1>3 DEF LoseAnswer, PayoutShaped, SentEndsInitiate, WorkedOnlyIfSent, RefundWasMade,
              FallbackIsSafe, Safe
<1>4. ASSUME NEW h \in handlers, Handle(h) PROVE PayoutsInv'
  <2>1. UNCHANGED <<yc, carried, misjudged, desk, poller>> BY <1>4 DEF Handle
  <2>2. PayoutShaped' /\ loanRow'.method = loanRow.method
    BY <1>4, <2>1 DEF Handle, PayoutShaped
  <2>3. repaid' => repaid \/ loanRow.method = "fiat"
    BY <1>4 DEF Handle, CompletionRepays
  <2> QED BY <2>1, <2>2, <2>3
       DEF SentEndsInitiate, WorkedOnlyIfSent, RefundWasMade, FallbackIsSafe, Safe
<1> QED BY <1>1, <1>2, <1>3, <1>4

\* The refund poller: everything past its look-up rests on a refund.
LEMMA PollerKeeps ==
  ASSUME PayoutsInv, PollerStep
  PROVE  PayoutsInv'
<1> USE DEF PayoutsInv, pollerFrame, RowWrite, At, Idle
<1>1. CASE LookUpRefund
  BY <1>1 DEF LookUpRefund, PayoutShaped, SentEndsInitiate, WorkedOnlyIfSent, RefundWasMade,
              FallbackIsSafe, Safe
<1>2. CASE ActOnRefund
  <2>1. UNCHANGED <<yc, carried, misjudged, desk, repaid>> BY <1>2 DEF ActOnRefund
  <2>2. PayoutShaped' /\ loanRow'.method = loanRow.method
    BY <1>2, <2>1 DEF ActOnRefund, PayoutShaped
  <2>3. RefundWasMade' BY <1>2, <2>1 DEF ActOnRefund, RefundWasMade, Ready
  <2> QED BY <2>1, <2>2, <2>3 DEF SentEndsInitiate, WorkedOnlyIfSent, FallbackIsSafe, Safe
<1>3. CASE FailOver
  <2>1. PICK ok \in BOOLEAN : Submit("fiat", ok) /\ poller' = At(IF ok THEN "flip" ELSE "sink")
    BY <1>3 DEF FailOver
  <2>2. yc' \in [PaymentKeys -> YcStatuses] /\ yc'.direct = yc.direct
    BY <2>1, SubmitDoes DEF PaymentKeys
  <2>3. yc.direct = "refunded" BY <1>3 DEF FailOver, RefundWasMade
  <2>4. UNCHANGED <<carried, misjudged, desk, loanRow, repaid>> BY <1>3 DEF FailOver
  <2>5. PayoutShaped' BY <2>1, <2>2, <2>4 DEF PayoutShaped
  <2> QED BY <2>2, <2>3, <2>4, <2>5
       DEF SentEndsInitiate, WorkedOnlyIfSent, RefundWasMade, FallbackIsSafe, Safe
<1>4. CASE FlipMethod \/ MarkSubmitted \/ MarkFailed \/ RepayVault
  <2>1. yc.direct = "refunded" /\ UNCHANGED <<yc, carried, misjudged, desk>>
    BY <1>4 DEF FlipMethod, MarkSubmitted, MarkFailed, RepayVault, RefundWasMade
  <2>2. PayoutShaped'
    BY <1>4, <2>1 DEF FlipMethod, MarkSubmitted, MarkFailed, RepayVault, PayoutShaped
  <2> QED BY <2>1, <2>2
       DEF SentEndsInitiate, WorkedOnlyIfSent, RefundWasMade, FallbackIsSafe, Safe
<1> QED BY <1>1, <1>2, <1>3, <1>4 DEF PollerStep

\* A stop forgets the handlers, the poller's place and Initiate's.
LEMMA CrashKeeps ==
  ASSUME PayoutsInv, Crash
  PROVE  PayoutsInv'
BY DEF PayoutsInv, Crash, Idle, PayoutShaped, SentEndsInitiate, WorkedOnlyIfSent, RefundWasMade,
       FallbackIsSafe, Safe

LEMMA PayoutsInvHolds == PayoutsSpec => []PayoutsInv
<1>1. PayoutsInv /\ [PayoutsNext]_payoutVars => PayoutsInv'
  <2> SUFFICES ASSUME PayoutsInv, [PayoutsNext]_payoutVars PROVE PayoutsInv' OBVIOUS
  <2>1. CASE UNCHANGED payoutVars
    BY <2>1 DEF payoutVars, PayoutsInv, PayoutShaped, SentEndsInitiate, WorkedOnlyIfSent,
                RefundWasMade, FallbackIsSafe, Safe
  <2>2. CASE PayoutsNext
    BY <2>2, ProviderKeeps, InitiateKeeps, WebhookKeeps, PollerKeeps, CrashKeeps DEF PayoutsNext
  <2> QED BY <2>1, <2>2
<1> QED BY <1>1, PayoutsInvInit, PTL DEF PayoutsSpec

\* However YellowCard's events are repeated, reordered or lost, and wherever the
\* process stops, the borrower is paid by both payments only if SendUSDC
\* reported a transfer that landed as failed (offramp_yellowcard.go, Initiate;
\* refund_poller.go, attemptFiatFailover).
THEOREM PaidTwiceNeedsMisjudgement == PayoutsSpec => []PaidTwiceOnlyIfMisjudged
<1>1. PayoutsInv => PaidTwiceOnlyIfMisjudged
  BY DEF PayoutsInv, WorkedOnlyIfSent, FallbackIsSafe, Safe, PaidTwiceOnlyIfMisjudged, PaidTwice
<1> QED BY <1>1, PayoutsInvHolds, PTL

\* The vault is repaid only while the loan's USDC was never sent, or came back
\* (webhook_service.go, handleComplete; refund_poller.go, repayVault).
THEOREM RepaidNeedsUSDCHome == PayoutsSpec => []RepaidOnlyWithUSDCHome
<1>1. PayoutsInv => RepaidOnlyWithUSDCHome
  BY DEF PayoutsInv, FallbackIsSafe, Safe, RepaidOnlyWithUSDCHome
<1> QED BY <1>1, PayoutsInvHolds, PTL

\* SubmitPayment keeps what YellowCard holds and announced within its values.
LEMMA SubmitTyped ==
  ASSUME PayoutsTypeOK, NEW key \in PaymentKeys, NEW ok \in BOOLEAN, Submit(key, ok)
  PROVE  /\ yc' \in [PaymentKeys -> YcStatuses]
         /\ announced' \subseteq PaymentKeys \X YcStatuses
         /\ faults' \in 0..MaxFaults
<1> USE PayoutsAssumption DEF PayoutsTypeOK
<1>1. faults' \in 0..MaxFaults BY DEF Submit, Fault
<1>2. CASE UNCHANGED <<yc, announced>> BY <1>1, <1>2
<1>3. CASE Created(key)
  <2> DEFINE first == IF key = "direct" THEN "pending_settlement" ELSE "processing"
  <2>1. first \in YcStatuses BY DEF YcStatuses
  <2>2. \/ UNCHANGED <<yc, announced>>
        \/ yc' = [yc EXCEPT ![key] = first] /\ announced' = announced \cup {<<key, first>>}
    BY <1>3 DEF Created
  <2> HIDE DEF first
  <2> QED BY <1>1, <2>1, <2>2
<1> QED BY <1>2, <1>3 DEF Submit

\* Every record of the payout keeps to its values, and the settlement method is
\* read for failures alone (handleFailedEvent).
THEOREM PayoutsTyped == PayoutsSpec => []PayoutsTypeOK
<1>1. PayoutsInit => PayoutsTypeOK
  <2> SUFFICES ASSUME PayoutsInit PROVE PayoutsTypeOK OBVIOUS
  <2> USE DEF PayoutsInit
  <2>1. yc \in [PaymentKeys -> YcStatuses] /\ announced \subseteq PaymentKeys \X YcStatuses
    BY DEF YcStatuses
  <2>2. loanRow \in [status : RowStatuses, method : PaymentKeys \cup {"none"}]
    BY DEF RowStatuses
  <2>3. /\ poller \in [at : {"idle", "looked", "failover", "flip", "mark", "sink", "repay"},
                       seen : YcStatuses]
        /\ faults \in 0..MaxFaults
    BY PayoutsAssumption DEF Idle, YcStatuses
  <2> QED BY <2>1, <2>2, <2>3 DEF PayoutsTypeOK
<1>2. PayoutsTypeOK /\ [PayoutsNext]_payoutVars => PayoutsTypeOK'
  <2> SUFFICES ASSUME PayoutsTypeOK, [PayoutsNext]_payoutVars PROVE PayoutsTypeOK' OBVIOUS
  <2> USE PayoutsAssumption DEF PayoutsTypeOK
  <2>1. ASSUME NEW key \in PaymentKeys, NEW status \in YcStatuses, ProviderMove(key, status)
        PROVE  PayoutsTypeOK'
    BY <2>1 DEF ProviderMove
  <2>2. CASE SubmitDirect
    <3>1. PICK ok \in BOOLEAN : Submit("direct", ok) /\ desk' = IF ok THEN "send" ELSE "fiat"
      BY <2>2 DEF SubmitDirect
    <3> QED BY <2>2, <3>1, SubmitTyped DEF SubmitDirect, PaymentKeys
  <2>3. CASE RejectWallet BY <2>3 DEF RejectWallet
  <2>4. CASE SendUSDC
    <3>1. loanRow' \in [status : RowStatuses, method : PaymentKeys \cup {"none"}]
      BY <2>4 DEF SendUSDC, RowStatuses, PaymentKeys
    <3>2. carried' \in BOOLEAN /\ misjudged' \in BOOLEAN BY <2>4 DEF SendUSDC
    <3>3. faults' \in 0..MaxFaults BY <2>4 DEF SendUSDC, Fault
    <3>4. /\ desk' \in {"direct", "send", "fiat", "done"}
          /\ UNCHANGED <<yc, repaid, announced, handlers, poller>>
      BY <2>4 DEF SendUSDC
    <3> QED BY <3>1, <3>2, <3>3, <3>4
  <2>5. CASE SubmitFiat
    <3>1. PICK ok \in BOOLEAN :
            /\ Submit("fiat", ok)
            /\ loanRow' = IF ok THEN [status |-> "fiat_submitted", method |-> "fiat"]
                           ELSE [loanRow EXCEPT !.status = "failed"]
      BY <2>5 DEF SubmitFiat
    <3>2. loanRow' \in [status : RowStatuses, method : PaymentKeys \cup {"none"}]
      BY <3>1 DEF RowStatuses, PaymentKeys
    <3> QED BY <2>5, <3>1, <3>2, SubmitTyped DEF SubmitFiat, PaymentKeys
  <2>6. ASSUME NEW event \in announced, Deliver(event) PROVE PayoutsTypeOK'
    BY <2>6 DEF Deliver, PaymentKeys
  <2>7. ASSUME NEW h \in handlers, LookUpMethod(h) PROVE PayoutsTypeOK'
    <3>1. h \in [key : PaymentKeys, status : YcStatuses, method : PaymentKeys \cup {"unread"}]
      OBVIOUS
    <3>2. PICK m \in PaymentKeys : handlers' = (handlers \ {h}) \cup {[h EXCEPT !.method = m]}
      BY <2>7 DEF LookUpMethod, PaymentKeys
    <3>3. h.status = "failed" BY <2>7 DEF LookUpMethod
    <3> QED BY <2>7, <3>1, <3>2, <3>3 DEF LookUpMethod
  <2>8. ASSUME NEW h \in handlers, Handle(h) PROVE PayoutsTypeOK'
    <3>1. Handled(h) \in RowStatuses BY DEF Handled, RowStatuses
    <3>2. CompletionRepays(Handled(h)) \in BOOLEAN BY DEF CompletionRepays
    <3> QED BY <2>8, <3>1, <3>2 DEF Handle
  <2>9. ASSUME NEW h \in handlers, LoseAnswer(h) PROVE PayoutsTypeOK'
    BY <2>9 DEF LoseAnswer
  <2>10. CASE FailOver
    <3>1. PICK ok \in BOOLEAN : Submit("fiat", ok) /\ poller' = At(IF ok THEN "flip" ELSE "sink")
      BY <2>10 DEF FailOver
    <3> QED BY <2>10, <3>1, SubmitTyped DEF FailOver, pollerFrame, At, Idle, PaymentKeys, YcStatuses
  <2>11. CASE LookUpRefund \/ ActOnRefund \/ FlipMethod \/ MarkSubmitted \/ MarkFailed \/ RepayVault
    <3> USE DEF pollerFrame, RowWrite, At, Idle, Fault, RowStatuses, YcStatuses, PaymentKeys
    <3>1. CASE LookUpRefund BY <3>1 DEF LookUpRefund
    <3>2. CASE ActOnRefund BY <3>2 DEF ActOnRefund
    <3>3. CASE FlipMethod
      <4>1. [loanRow EXCEPT !.method = "fiat"]
              \in [status : RowStatuses, method : PaymentKeys \cup {"none"}]
        OBVIOUS
      <4> QED BY <3>3, <4>1 DEF FlipMethod
    <3>4. CASE MarkSubmitted
      <4>1. [loanRow EXCEPT !.status = "fiat_submitted"]
              \in [status : RowStatuses, method : PaymentKeys \cup {"none"}]
        OBVIOUS
      <4> QED BY <3>4, <4>1 DEF MarkSubmitted
    <3>5. CASE MarkFailed
      <4>1. [loanRow EXCEPT !.status = "failed"]
              \in [status : RowStatuses, method : PaymentKeys \cup {"none"}]
        OBVIOUS
      <4> QED BY <3>5, <4>1 DEF MarkFailed
    <3>6. CASE RepayVault
      <4>1. faults' \in 0..MaxFaults
        <5>1. faults' = faults \/ Fault BY <3>6, Zenon DEF RepayVault
        <5> QED BY <5>1
      <4>2. repaid' \in {repaid, TRUE} BY <3>6 DEF RepayVault
      <4>3. repaid' \in BOOLEAN
        <5>1. repaid \in BOOLEAN OBVIOUS
        <5>2. CASE repaid' = repaid BY <5>1, <5>2, Zenon
        <5>3. CASE repaid' = TRUE BY <5>3, Zenon
        <5> QED BY <4>2, <5>2, <5>3, Zenon
      <4>4. /\ UNCHANGED <<yc, announced, carried, misjudged, desk, loanRow, handlers>>
            /\ poller' = Idle
        BY <3>6 DEF RepayVault
      <4> QED BY <4>1, <4>3, <4>4
    <3> QED BY <2>11, <3>1, <3>2, <3>3, <3>4, <3>5, <3>6
  <2>12. CASE Crash
    <3>1. faults' \in 0..MaxFaults BY <2>12 DEF Crash, Fault
    <3>2. carried' \in BOOLEAN BY <2>12 DEF Crash
    <3>3. /\ UNCHANGED <<yc, misjudged, loanRow, repaid, announced>>
          /\ desk' = "done" /\ handlers' = {} /\ poller' = Idle
      BY <2>12 DEF Crash
    <3> QED BY <3>1, <3>2, <3>3 DEF Idle, YcStatuses
  <2>13. CASE UNCHANGED payoutVars BY <2>13 DEF payoutVars
  <2>14. CASE NoChannel
    <3>1. loanRow' \in [status : RowStatuses, method : PaymentKeys \cup {"none"}]
      BY <2>14 DEF NoChannel, RowStatuses, PaymentKeys
    <3> QED BY <2>14, <3>1 DEF NoChannel
  <2> QED
    BY <2>1, <2>2, <2>3, <2>4, <2>5, <2>6, <2>7, <2>8, <2>9, <2>10, <2>11, <2>12, <2>13, <2>14
    DEF PayoutsNext, PollerStep
<1> QED BY <1>1, <1>2, PTL DEF PayoutsSpec

\* The loan's money is in one place, whatever events, crashes and failovers.
THEOREM PayoutStaysSound == PayoutsSpec => []PayoutSound
BY PaidTwiceNeedsMisjudgement, RepaidNeedsUSDCHome, PTL DEF PayoutSound

-----------------------------------------------------------------------------
(* Contract calls (Submission) *)

Fates == [at : {"signed", "queued", "success", "failed"}, on : Nat]
CallAts == InFlight \cup {"free", "unknown", "done"}
Calls == [at : CallAts, key : SigningKeys, hook : BOOLEAN, tx : Hashes \cup {NoCall},
          since : Nat, tries : Nat]

Shaped ==
  /\ wallClock \in Nat /\ closedAt \in Nat /\ closedAt <= wallClock
  /\ sequence \in [SigningKeys -> Nat]
  /\ DOMAIN fate \subseteq Hashes /\ fate \in [DOMAIN fate -> Fates]
  /\ call \in [Caller -> Calls] /\ onFile \subseteq DOMAIN fate
  /\ \A h \in DOMAIN fate : Signed(h) <= wallClock

\* What landed landed in its time bound.
LandedInTime ==
  \A h \in DOMAIN fate : Landed(h) =>
    Signed(h) <= fate[h].on /\ fate[h].on <= h.until /\ fate[h].on <= closedAt

\* The transaction of a caller is its own and was signed after the call began;
\* one that a hooked caller sends is on file, one it is done with succeeded.
HasTx(c) ==
  /\ call[c].tx \in DOMAIN fate /\ call[c].tx.by = c
  /\ call[c].since <= Signed(call[c].tx)
CallStands(c) ==
  /\ call[c].at \in {"record", "send", "poll", "done"} => HasTx(c)
  /\ call[c].at \in {"simulate", "sign"} => call[c].tx = NoCall
  /\ call[c].since <= wallClock
  /\ call[c].at = "unknown" => call[c].tx = NoCall \/ HasTx(c)
  /\ call[c].hook /\ call[c].at \in {"send", "poll"} => call[c].tx \in onFile
  /\ call[c].at = "done" => fate[call[c].tx].at = "success"
CallsStand == \A c \in Caller : CallStands(c)

\* Every transaction is over but the one its caller has not settled.
Over(h) ==
  \/ fate[h].at \in {"signed", "failed"}
  \/ fate[h].at = "queued" /\ closedAt > h.until
Unsettled(h) == h = call[h.by].tx /\ call[h.by].at \in {"poll", "unknown", "done"}
LeftAreOver == \A h \in DOMAIN fate : Over(h) \/ Unsettled(h)

SubmissionInv == Shaped /\ LandedInTime /\ CallsStand /\ LeftAreOver /\ SentIsOnFile

\* Whichever ledgers the node that answers holds, a transaction it resolves as
\* never landed is over.
LEMMA ResolvedIsOver ==
  ASSUME SubmissionInv, NEW h \in DOMAIN fate, NEW since \in Int, since <= Signed(h),
         NEW latest \in 0..closedAt, NEW oldest \in 0..latest,
         ResolveSubmitted(h, since, latest, oldest) = "never_landed"
  PROVE  ~Landed(h) /\ closedAt > h.until /\ Over(h)
<1>1. /\ h \in Hashes /\ fate[h] \in Fates /\ closedAt \in Nat
      /\ Landed(h) => Signed(h) <= fate[h].on /\ fate[h].on <= h.until
  BY DEF SubmissionInv, Shaped, LandedInTime
<1>2. ~Shows(h, latest, oldest) /\ ~(latest <= h.until) /\ ~(oldest >= since)
  <2>1. Shows(h, latest, oldest) => fate[h].at # "never_landed" BY <1>1 DEF Shows, Fates
  <2> QED BY <2>1 DEF ResolveSubmitted
<1>3. h.until \in Nat /\ fate[h].on \in Nat /\ Signed(h) \in Int
  BY <1>1, SubmissionAssumption DEF Hashes, Fates, Signed
<1>4. ~Landed(h) BY <1>1, <1>2, <1>3 DEF Shows
<1>5. closedAt > h.until BY <1>1, <1>2, <1>3
<1>6. fate[h].at \in {"signed", "queued"} BY <1>1, <1>4 DEF Landed, Fates
<1> QED BY <1>4, <1>5, <1>6 DEF Over

LEMMA InvInit == SubmissionInit => SubmissionInv
<1> SUFFICES ASSUME SubmissionInit PROVE SubmissionInv OBVIOUS
<1>1. DOMAIN fate = {} /\ onFile = {} BY DEF SubmissionInit
<1>2. Shaped
  <2>1. call \in [Caller -> Calls] BY DEF SubmissionInit, Calls, CallAts, InFlight
  <2>2. fate \in [DOMAIN fate -> Fates] BY <1>1 DEF SubmissionInit
  <2>3. sequence \in [SigningKeys -> Nat] /\ wallClock = 0 /\ closedAt = 0 BY DEF SubmissionInit
  <2> QED BY <1>1, <2>1, <2>2, <2>3 DEF Shaped
<1>3. CallsStand
  <2>1. \A c \in Caller : call[c].at = "free" /\ call[c].since = wallClock BY DEF SubmissionInit
  <2>2. wallClock <= wallClock BY DEF SubmissionInit
  <2>3. \A c \in Caller : call[c].since <= wallClock BY <2>1, <2>2, Zenon
  <2> QED BY <2>1, <2>3 DEF CallsStand, CallStands
<1> QED BY <1>1, <1>2, <1>3 DEF SubmissionInv, LandedInTime, LeftAreOver, SentIsOnFile

\* A step of a caller that signs and sends nothing: its call moves on, its
\* transaction stays or is put aside, and hashes are only added to the file.
LEMMA CallerStepKeeps ==
  ASSUME SubmissionInv, NEW c \in Caller, NEW new \in Calls,
         call' = [call EXCEPT ![c] = new], LedgerStands, UNCHANGED fate,
         new.hook = call[c].hook,
         onFile \subseteq onFile', onFile' \subseteq DOMAIN fate, CallStands(c)',
         \A h \in DOMAIN fate : h.by = c => Over(h) \/ (h = new.tx /\ new.at \in {"poll", "unknown", "done"})
  PROVE  SubmissionInv'
<1> USE DEF SubmissionInv, LedgerStands
<1>1. /\ call[c]' = new /\ call' \in [Caller -> Calls]
      /\ \A b \in Caller \ {c} : call'[b] = call[b]
  BY DEF Shaped
<1>2. Shaped' BY <1>1 DEF Shaped, Signed
<1>3. LandedInTime' BY DEF LandedInTime, Landed, Signed
<1>4. CallsStand'
  <2> SUFFICES ASSUME NEW b \in Caller, b # c PROVE CallStands(b)' BY DEF CallsStand
  <2> QED BY <1>1 DEF CallsStand, CallStands, HasTx, Signed
<1>5. LeftAreOver'
  <2> SUFFICES ASSUME NEW h \in DOMAIN fate PROVE Over(h)' \/ Unsettled(h)' BY DEF LeftAreOver
  <2>1. Over(h)' <=> Over(h) BY DEF Over
  <2>2. CASE h.by = c BY <1>1, <2>1, <2>2 DEF Unsettled
  <2>3. CASE h.by # c
    <3>1. h.by \in Caller BY DEF Shaped, Hashes
    <3> QED BY <1>1, <2>1, <2>3, <3>1 DEF Unsettled, LeftAreOver
  <2> QED BY <2>2, <2>3
<1>6. SentIsOnFile'
  <2>1. \A h \in DOMAIN fate : h.by \in Caller /\ call'[h.by].hook = call[h.by].hook
    BY <1>1 DEF Shaped, Hashes
  <2> QED BY <2>1 DEF SentIsOnFile
<1> QED BY <1>2, <1>3, <1>4, <1>5, <1>6

\* A call that ends with an error was told, or is parked: either way it stands.
LEMMA CallerActionKeeps ==
  ASSUME SubmissionInv, NEW c \in Caller,
         \/ \E key \in SigningKeys, hook \in BOOLEAN : Invoke(c, key, hook)
         \/ Simulate(c) \/ RecordSigned(c) \/ PollTransaction(c) \/ StopCall(c)
         \/ Reconcile(c) \/ LookUp(c)
  PROVE  SubmissionInv'
<1> DEFINE old == call[c]
<1>0. /\ old \in Calls /\ call \in [Caller -> Calls] /\ CallStands(c)
      /\ onFile \subseteq DOMAIN fate /\ wallClock \in Nat
      /\ \A h \in DOMAIN fate : h.by = c => Over(h) \/ (h = old.tx /\ old.at \in {"poll", "unknown", "done"})
  BY DEF SubmissionInv, Shaped, CallsStand, LeftAreOver, Unsettled
<1> USE DEF LedgerStands, Proceed, Return
<1>1. ASSUME NEW key \in SigningKeys, NEW hook \in BOOLEAN, Invoke(c, key, hook)
      PROVE  SubmissionInv'
  <2> DEFINE new == [old EXCEPT !.at = "simulate", !.tx = NoCall, !.since = wallClock,
                                !.tries = old.tries + 1]
  <2>1. call' = [call EXCEPT ![c] = new] BY <1>0, <1>1 DEF Invoke, Calls
  <2>2. new \in Calls
    <3>1. old \in Calls /\ wallClock \in Nat BY <1>0
    <3>2. old.tries + 1 \in Nat /\ "simulate" \in CallAts BY <3>1 DEF Calls, CallAts, InFlight
    <3> QED BY <3>1, <3>2 DEF Calls
  <2>3. CallStands(c)'
    <3>1. call'[c].at = "simulate" /\ call'[c].tx = NoCall /\ call'[c].since = wallClock
      BY <1>0, <2>1 DEF Calls
    <3>2. wallClock' = wallClock /\ wallClock <= wallClock BY <1>0, <1>1 DEF Invoke
    <3> QED BY <3>1, <3>2 DEF CallStands
  <2>4. \A h \in DOMAIN fate : h.by = c => Over(h) BY <1>0, <1>1 DEF Invoke
  <2> QED BY <1>0, <1>1, <2>1, <2>2, <2>3, <2>4, CallerStepKeeps DEF Invoke, Calls
<1>2. ASSUME NEW at \in CallAts \ {"done"}, call' = [call EXCEPT ![c].at = at],
             LedgerStands, UNCHANGED fate, onFile \subseteq onFile', onFile' \subseteq DOMAIN fate,
             at \in {"record", "send", "poll", "unknown"} => old.tx = NoCall \/ HasTx(c),
             at \in {"record", "send", "poll"} => HasTx(c),
             at \in {"simulate", "sign"} => old.tx = NoCall,
             old.hook /\ at \in {"send", "poll"} => old.tx \in onFile',
             at # "unknown" => \A h \in DOMAIN fate : h.by = c => Over(h)
      PROVE  SubmissionInv'
  <2> DEFINE new == [old EXCEPT !.at = at]
  <2>1. call' = [call EXCEPT ![c] = new] /\ call'[c] = new BY <1>0, <1>2
  <2>2. new \in Calls BY <1>0, <1>2 DEF Calls
  <2>3. CallStands(c)'
    <3>1. /\ call'[c].at = at /\ call'[c].tx = old.tx /\ call'[c].hook = old.hook
          /\ HasTx(c) => HasTx(c)'
      BY <1>0, <1>2, <2>1 DEF HasTx, Calls, Signed
    <3>2. at \notin {"simulate", "sign"} \/ old.tx = NoCall BY <1>2
    <3> QED BY <1>0, <1>2, <3>1, <3>2 DEF CallStands
  <2>4. \A h \in DOMAIN fate : h.by = c => Over(h) \/ (h = new.tx /\ new.at \in {"poll", "unknown", "done"})
    BY <1>0, <1>2 DEF Calls
  <2> QED BY <1>0, <1>2, <2>1, <2>2, <2>3, <2>4, CallerStepKeeps DEF Calls
<1>3. ASSUME call' = [call EXCEPT ![c].at = "done"], HasTx(c), fate[old.tx].at = "success",
             old.at \in {"poll", "unknown"}, LedgerStands, UNCHANGED <<fate, onFile>>
      PROVE  SubmissionInv'
  <2> DEFINE new == [old EXCEPT !.at = "done"]
  <2>1. call' = [call EXCEPT ![c] = new] /\ call'[c] = new BY <1>0, <1>3
  <2>2. new \in Calls BY <1>0, <1>3 DEF Calls, CallAts
  <2>3. CallStands(c)' BY <1>0, <1>3, <2>1 DEF CallStands, HasTx, Calls, Signed
  <2>4. \A h \in DOMAIN fate : h.by = c => Over(h) \/ (h = new.tx /\ new.at \in {"poll", "unknown", "done"})
    BY <1>0, <1>3 DEF Calls
  <2> QED BY <1>0, <1>3, <2>1, <2>2, <2>3, <2>4, CallerStepKeeps DEF Calls
<1>4. ASSUME old.at \notin {"poll", "unknown", "done"}
      PROVE  \A h \in DOMAIN fate : h.by = c => Over(h)
  BY <1>0, <1>4
<1>5. CASE Simulate(c)
  <2>1. old.tx = NoCall /\ old.at = "simulate" BY <1>0, <1>5 DEF Simulate, CallStands
  <2>2. \A h \in DOMAIN fate : h.by = c => Over(h) BY <1>4, <2>1
  <2> QED BY <1>0, <1>2, <1>5, <2>1, <2>2 DEF Simulate, OutcomeUnknown, CallAts, InFlight
<1>6. CASE RecordSigned(c)
  <2>1. HasTx(c) /\ old.tx \in DOMAIN fate BY <1>0, <1>6 DEF RecordSigned, CallStands, HasTx
  <2> QED BY <1>0, <1>2, <1>4, <1>6, <2>1 DEF RecordSigned, OutcomeUnknown, CallAts, InFlight
<1>7. CASE StopCall(c)
  <2>1. old.at = "record" => old.tx \in DOMAIN fate BY <1>0 DEF CallStands, HasTx
  <2>2. old.tx = NoCall \/ HasTx(c) BY <1>0, <1>7 DEF StopCall, CallStands, InFlight
  <2>3. /\ call' = [call EXCEPT ![c].at = "unknown"] /\ LedgerStands /\ UNCHANGED fate
        /\ onFile \subseteq onFile' /\ onFile' \subseteq DOMAIN fate
    BY <1>0, <1>7, <2>1 DEF StopCall
  <2>4. "unknown" \in CallAts \ {"done"} BY DEF CallAts
  <2> QED BY <1>2, <2>2, <2>3, <2>4
<1>8. CASE PollTransaction(c)
  <2>1. HasTx(c) /\ old.at = "poll" BY <1>0, <1>8 DEF PollTransaction, CallStands
  <2>2. CASE fate[old.tx].at = "success" /\ Proceed(c, "done")
    BY <1>3, <1>8, <2>1, <2>2 DEF PollTransaction
  <2>3. CASE fate[old.tx].at = "failed" /\ Return(c, "failed_on_ledger")
    <3>1. \A h \in DOMAIN fate : h.by = c => Over(h) BY <1>0, <2>1, <2>3 DEF Over
    <3> QED BY <1>0, <1>2, <1>8, <2>1, <2>3, <3>1 DEF PollTransaction, OutcomeUnknown, CallAts
  <2>4. CASE \E err \in {"timeout", "cancelled", "unknown_status"} : Return(c, err)
    BY <1>0, <1>2, <1>8, <2>1, <2>4 DEF PollTransaction, OutcomeUnknown, CallAts
  <2> QED BY <1>8, <2>2, <2>3, <2>4 DEF PollTransaction
<1>9. CASE Reconcile(c)
  <2>1. old.at = "unknown" /\ old.tx \in DOMAIN fate BY <1>0, <1>9 DEF Reconcile
  <2>2. old.tx # NoCall
    <3>1. old.tx.key \in SigningKeys BY <2>1 DEF SubmissionInv, Shaped, Hashes
    <3> QED BY <3>1 DEF NoCall, SigningKeys
  <2>3. HasTx(c) BY <1>0, <2>1, <2>2 DEF CallStands
  <2>4. PICK latest \in 0..closedAt : \E oldest \in 0..latest :
          LET outcome == ResolveSubmitted(old.tx, old.since, latest, oldest) IN
          \/ outcome = "success" /\ Proceed(c, "done")
          \/ outcome \in {"failed", "never_landed"} /\ Proceed(c, "free")
    BY <1>9 DEF Reconcile
  <2>8. PICK oldest \in 0..latest :
          LET outcome == ResolveSubmitted(old.tx, old.since, latest, oldest) IN
          \/ outcome = "success" /\ Proceed(c, "done")
          \/ outcome \in {"failed", "never_landed"} /\ Proceed(c, "free")
    BY <2>4
  <2> DEFINE outcome == ResolveSubmitted(old.tx, old.since, latest, oldest)
  <2>5. outcome \in {"success", "failed"} => fate[old.tx].at = outcome
    BY DEF ResolveSubmitted
  <2>6. CASE outcome = "success" /\ Proceed(c, "done")
    BY <1>3, <1>9, <2>1, <2>3, <2>5, <2>6 DEF Reconcile
  <2>7. CASE outcome \in {"failed", "never_landed"} /\ Proceed(c, "free")
    <3>1. Over(old.tx)
      <4>1. CASE outcome = "failed" BY <2>5, <4>1 DEF Over
      <4>2. CASE outcome = "never_landed"
        BY <1>0, <2>1, <2>3, <4>2, ResolvedIsOver DEF HasTx, Calls
      <4> QED BY <2>7, <4>1, <4>2
    <3>2. \A h \in DOMAIN fate : h.by = c => Over(h) BY <1>0, <3>1
    <3>3. /\ call' = [call EXCEPT ![c].at = "free"] /\ LedgerStands /\ UNCHANGED fate
          /\ onFile \subseteq onFile' /\ onFile' \subseteq DOMAIN fate
      BY <1>0, <1>9, <2>7 DEF Reconcile
    <3>4. "free" \in CallAts \ {"done"} BY DEF CallAts
    <3> QED BY <1>2, <3>2, <3>3, <3>4
  <2> QED BY <2>8, <2>6, <2>7
<1>10. CASE LookUp(c)
  <2>1. old.at = "unknown" /\ HasTx(c) BY <1>0, <1>10 DEF LookUp, CallStands
  <2>2. \A latest, oldest : TransactionSucceeded(old.tx, latest, oldest) \in {"success", "failed"}
          => fate[old.tx].at = TransactionSucceeded(old.tx, latest, oldest)
    BY DEF TransactionSucceeded
  <2>3. CASE fate[old.tx].at = "success" /\ Proceed(c, "done")
    BY <1>3, <1>10, <2>1, <2>3 DEF LookUp
  <2>4. CASE fate[old.tx].at = "failed" /\ Proceed(c, "free")
    <3>1. \A h \in DOMAIN fate : h.by = c => Over(h) BY <1>0, <2>1, <2>4 DEF Over
    <3>3. /\ call' = [call EXCEPT ![c].at = "free"] /\ LedgerStands /\ UNCHANGED fate
          /\ onFile \subseteq onFile' /\ onFile' \subseteq DOMAIN fate
      BY <1>0, <1>10, <2>4 DEF LookUp
    <3>4. "free" \in CallAts \ {"done"} BY DEF CallAts
    <3> QED BY <1>2, <3>1, <3>3, <3>4
  <2> QED BY <1>10, <2>2, <2>3, <2>4 DEF LookUp
<1> QED BY <1>1, <1>5, <1>6, <1>7, <1>8, <1>9, <1>10

\* Signing adds a transaction that is not sent.
LEMMA SigningKeeps ==
  ASSUME SubmissionInv, NEW c \in Caller, LoadAndSign(c)
  PROVE  SubmissionInv'
<1> USE DEF SubmissionInv
<1>0. /\ call[c] \in Calls /\ call \in [Caller -> Calls] /\ CallStands(c) /\ wallClock \in Nat
      /\ \A h \in DOMAIN fate : h.by = c => Over(h)
  <2>1. call[c].at = "sign" BY DEF LoadAndSign
  <2> QED BY <2>1 DEF Shaped, CallsStand, LeftAreOver, Unsettled
<1>4. LedgerStands /\ UNCHANGED onFile BY DEF LoadAndSign
<1> USE <1>4 DEF LedgerStands
<1>1. CASE Return(c, "transport") /\ UNCHANGED fate
  <2> DEFINE new == [call[c] EXCEPT !.at = "free"]
  <2>1. call' = [call EXCEPT ![c] = new] /\ call'[c] = new
    BY <1>0, <1>1 DEF Return, OutcomeUnknown
  <2>2. new \in Calls BY <1>0 DEF Calls, CallAts
  <2>3. CallStands(c)' BY <2>1, <1>0 DEF CallStands, Calls
  <2>4. LedgerStands /\ UNCHANGED <<fate, onFile>> BY <1>1
  <2>5. new.hook = call[c].hook BY <1>0 DEF Calls
  <2>6. onFile \subseteq onFile' /\ onFile' \subseteq DOMAIN fate BY <2>4 DEF Shaped
  <2>7. \A h \in DOMAIN fate : h.by = c => Over(h) BY <1>0
  <2> HIDE DEF new
  <2> QED BY <2>1, <2>2, <2>3, <2>4, <2>5, <2>6, <2>7, CallerStepKeeps
<1>3. wallClock \in Nat BY DEF Shaped
<1>2. ASSUME NEW loaded \in 0..sequence[call[c].key], NEW h, NEW step,
             step = (IF call[c].hook THEN "record" ELSE "send"),
             h = [by |-> c, key |-> call[c].key, seq |-> loaded + 1, until |-> wallClock + Validity],
             fate' = [x \in DOMAIN fate \cup {h} |-> IF x \in DOMAIN fate THEN fate[x] ELSE Clean],
             call' = [call EXCEPT ![c] = [call[c] EXCEPT !.at = step, !.tx = h]]
      PROVE  SubmissionInv'
  <2>0. step \in {"record", "send"} /\ (call[c].hook => step = "record") BY <1>2
  <2>1. h \in Hashes /\ Signed(h) = wallClock /\ h.by = c
    <3>1. call[c].key \in SigningKeys BY <1>0 DEF Calls
    <3>2. loaded \in Nat
      <4>1. sequence[call[c].key] \in Nat BY <3>1 DEF Shaped
      <4> QED BY <4>1
    <3>3. wallClock + Validity \in Nat /\ (wallClock + Validity) - Validity = wallClock
      BY <1>3, SubmissionAssumption
    <3> QED BY <1>2, <3>1, <3>2, <3>3 DEF Hashes, Signed
  <2>2. /\ DOMAIN fate' = DOMAIN fate \cup {h} /\ \A x \in DOMAIN fate : fate'[x] = fate[x]
        /\ h \notin DOMAIN fate => fate'[h] = Clean
    BY <1>2
  <2>3. /\ call'[c] = [call[c] EXCEPT !.at = step, !.tx = h]
        /\ \A b \in Caller \ {c} : call'[b] = call[b]
        /\ \A b \in Caller : call'[b].hook = call[b].hook
    <3>1. DOMAIN call = Caller BY <1>0
    <3>2. call[c] = [at |-> call[c].at, key |-> call[c].key, hook |-> call[c].hook,
                     tx |-> call[c].tx, since |-> call[c].since, tries |-> call[c].tries]
      BY <1>0 DEF Calls
    <3>3. call' = [call EXCEPT ![c] = [call[c] EXCEPT !.at = step, !.tx = h]] BY <1>2, <3>1
    <3>4. call'[c] = [call[c] EXCEPT !.at = step, !.tx = h] BY <3>1, <3>3
    <3>5. \A b \in Caller \ {c} : call'[b] = call[b] BY <3>1, <3>3
    <3>6. call'[c].hook = call[c].hook BY <3>2, <3>4
    <3> QED BY <3>4, <3>5, <3>6
  <2>4. call' \in [Caller -> Calls]
    <3>1. call'[c] \in Calls
      <4>1. step \in CallAts BY <2>0 DEF CallAts, InFlight
      <4>2. call[c] \in Calls BY <1>0
      <4> QED BY <4>1, <4>2, <2>1, <2>3 DEF Calls
    <3>2. call \in [Caller -> Calls] BY <1>0
    <3>3. DOMAIN call' = Caller /\ call' = [b \in Caller |-> call'[b]]
      <4>1. DOMAIN call = Caller BY <3>2
      <4> QED BY <1>2, <4>1
    <3> QED BY <2>3, <3>1, <3>2, <3>3
  <2>5. Shaped'
    <3>1. fate' \in [DOMAIN fate' -> Fates]
      <4>1. \A x \in DOMAIN fate : fate[x] \in Fates BY DEF Shaped
      <4>2. Clean \in Fates BY DEF Clean, Fates
      <4> QED BY <1>2, <4>1, <4>2
    <3>2. \A x \in DOMAIN fate' : Signed(x)' <= wallClock' BY <1>0, <2>1, <2>2 DEF Shaped, Signed
    <3> QED BY <2>1, <2>2, <2>4, <3>1, <3>2 DEF Shaped
  <2>6. LandedInTime' BY <2>2 DEF LandedInTime, Landed, Clean, Signed
  <2>7. CallsStand'
    <3> SUFFICES ASSUME NEW b \in Caller PROVE CallStands(b)' BY DEF CallsStand
    <3>1. CASE b = c
      <4>1. HasTx(c)'
        <5>1. call'[c].tx = h /\ call'[c].since = call[c].since BY <1>0, <2>3 DEF Calls
        <5>2. call[c].since <= wallClock BY <1>0 DEF CallStands
        <5> QED BY <2>1, <2>2, <5>1, <5>2 DEF HasTx, Signed
      <4>2. call'[c].at = step BY <1>0, <2>3 DEF Calls
      <4>3. call'[c].hook = call[c].hook /\ call'[c].since = call[c].since BY <1>0, <2>3 DEF Calls
      <4>4. call[c].since <= wallClock BY <1>0 DEF CallStands
      <4>5. ~(call[c].hook /\ call'[c].at \in {"send", "poll"}) BY <2>0, <4>2
      <4>6. call'[c].at \in {"record", "send"} BY <2>0, <4>2
      <4> QED BY <3>1, <4>1, <4>3, <4>4, <4>5, <4>6 DEF CallStands
    <3>2. CASE b # c
      <4>1. call'[b] = call[b] /\ CallStands(b) BY <2>3, <3>2 DEF CallsStand
      <4> QED BY <2>2, <4>1 DEF CallStands, HasTx, Signed
    <3> QED BY <3>1, <3>2
  <2>8. LeftAreOver'
    <3> SUFFICES ASSUME NEW x \in DOMAIN fate' PROVE Over(x)' \/ Unsettled(x)' BY DEF LeftAreOver
    <3>1. CASE x \in DOMAIN fate
      <4>1. Over(x)' <=> Over(x) BY <2>2, <3>1 DEF Over
      <4>2. x.by \in Caller BY <3>1 DEF Shaped, Hashes
      <4>3. CASE x.by = c BY <1>0, <3>1, <4>1, <4>3
      <4>4. CASE x.by # c BY <2>3, <3>1, <4>1, <4>2, <4>4 DEF Unsettled, LeftAreOver
      <4> QED BY <4>3, <4>4
    <3>2. CASE x \notin DOMAIN fate BY <2>2, <3>2 DEF Over, Clean
    <3> QED BY <3>1, <3>2
  <2>9. SentIsOnFile'
    <3>1. \A x \in DOMAIN fate : x.by \in Caller BY DEF Shaped, Hashes
    <3> QED BY <2>2, <2>3, <3>1 DEF SentIsOnFile, Clean
  <2> QED BY <2>5, <2>6, <2>7, <2>8, <2>9
<1> QED BY <1>1, <1>2 DEF LoadAndSign

\* A transaction is sent by its caller, which polls it or parks it.
LEMMA SendingKeeps ==
  ASSUME SubmissionInv, NEW c \in Caller, Send(c)
  PROVE  SubmissionInv'
<1> DEFINE h == call[c].tx
<1>0. /\ call[c] \in Calls /\ call \in [Caller -> Calls] /\ CallStands(c)
      /\ \A x \in DOMAIN fate : x.by = c => Over(x)
      /\ call[c].at = "send" /\ LedgerStands /\ UNCHANGED onFile /\ HasTx(c)
  <2>1. call[c].at = "send" /\ LedgerStands /\ UNCHANGED onFile BY DEF Send
  <2>2. CallStands(c) BY DEF SubmissionInv, CallsStand
  <2>3. HasTx(c) BY <2>1, <2>2 DEF CallStands
  <2> QED BY <2>1, <2>2, <2>3 DEF SubmissionInv, Shaped, LeftAreOver, Unsettled
<1>1. ASSUME NEW at \in {"free", "poll", "unknown"}, call' = [call EXCEPT ![c].at = at],
             \/ UNCHANGED fate
             \/ at # "free" /\ ~Landed(h) /\ fate' = [fate EXCEPT ![h] = [at |-> "queued", on |-> 0]]
      PROVE  SubmissionInv'
  <2> DEFINE new == [call[c] EXCEPT !.at = at]
  <2>1. /\ call' = [call EXCEPT ![c] = new] /\ call'[c] = new
        /\ \A b \in Caller \ {c} : call'[b] = call[b]
    BY <1>0, <1>1
  <2>2. new \in Calls
    <3>1. call[c] \in Calls BY <1>0
    <3> QED BY <1>1, <3>1 DEF Calls, CallAts, InFlight
  <2>3. new.tx = h /\ new.at = at /\ new.hook = call[c].hook /\ new.since = call[c].since
    <3>1. call[c] \in Calls BY <1>0
    <3> QED BY <3>1 DEF Calls
  <2>4. CASE UNCHANGED fate
    <3>1. CallStands(c)'
      <4>1. HasTx(c)' BY <1>0, <2>1, <2>3, <2>4 DEF HasTx, Signed
      <4>2. UNCHANGED wallClock BY <1>0 DEF LedgerStands
      <4> QED BY <1>0, <1>1, <2>1, <2>3, <4>1, <4>2 DEF CallStands
    <3>2. onFile \subseteq onFile' /\ onFile' \subseteq DOMAIN fate
      BY <1>0 DEF SubmissionInv, Shaped
    <3>3. \A x \in DOMAIN fate : x.by = c => Over(x) BY <1>0
    <3>4. LedgerStands BY <1>0
    <3> HIDE DEF new
    <3> QED BY <2>1, <2>2, <2>3, <2>4, <3>1, <3>2, <3>3, <3>4, CallerStepKeeps
  <2>5. CASE at # "free" /\ ~Landed(h) /\ fate' = [fate EXCEPT ![h] = [at |-> "queued", on |-> 0]]
    <3>1. /\ h \in DOMAIN fate /\ DOMAIN fate' = DOMAIN fate /\ h.by = c
          /\ fate'[h] = [at |-> "queued", on |-> 0]
          /\ \A x \in DOMAIN fate \ {h} : fate'[x] = fate[x]
      BY <1>0, <2>5 DEF HasTx
    <3>2. UNCHANGED <<wallClock, closedAt, sequence, onFile>> BY <1>0 DEF LedgerStands
    <3>3. Shaped'
      <4>1. fate' \in [DOMAIN fate' -> Fates]
        <5>1. \A x \in DOMAIN fate : fate[x] \in Fates BY DEF SubmissionInv, Shaped
        <5>2. [at |-> "queued", on |-> 0] \in Fates BY DEF Fates
        <5>3. fate' = [x \in DOMAIN fate |-> fate'[x]] BY <2>5
        <5> QED BY <3>1, <5>1, <5>2, <5>3
      <4>2. call' \in [Caller -> Calls] BY <1>0, <2>1, <2>2
      <4> QED BY <3>1, <3>2, <4>1, <4>2 DEF SubmissionInv, Shaped, Signed
    <3>4. LandedInTime' BY <3>1, <3>2 DEF SubmissionInv, LandedInTime, Landed, Signed
    <3>5. CallsStand'
      <4> SUFFICES ASSUME NEW b \in Caller PROVE CallStands(b)' BY DEF CallsStand
      <4>1. CASE b = c
        <5>1. HasTx(c)' BY <1>0, <2>1, <2>3, <3>1 DEF HasTx, Signed
        <5>2. at \in {"poll", "unknown"} BY <1>1, <2>5
        <5>3. call[c].hook => h \in onFile BY <1>0 DEF CallStands
        <5>4. call[c].since <= wallClock BY <1>0 DEF CallStands
        <5>5. /\ call'[c].at \in {"poll", "unknown"} /\ call'[c].tx = h
              /\ call'[c].hook = call[c].hook /\ call'[c].since = call[c].since
          BY <2>1, <2>3, <5>2
        <5> HIDE DEF new
        <5> QED BY <3>2, <4>1, <5>1, <5>3, <5>4, <5>5 DEF CallStands
      <4>2. CASE b # c
        <5>1. call'[b] = call[b] /\ CallStands(b) BY <2>1, <4>2 DEF SubmissionInv, CallsStand
        <5>2. call[b].at = "done" => call[b].tx # h
          BY <3>1, <4>2, <5>1 DEF CallStands, HasTx
        <5> QED BY <3>1, <3>2, <5>1, <5>2 DEF CallStands, HasTx, Signed
      <4> QED BY <4>1, <4>2
    <3>6. LeftAreOver'
      <4> SUFFICES ASSUME NEW x \in DOMAIN fate PROVE Over(x)' \/ Unsettled(x)' BY <3>1 DEF LeftAreOver
      <4>0. x.by \in Caller BY DEF SubmissionInv, Shaped, Hashes
      <4>1. CASE x = h
        <5>1. at \in {"poll", "unknown"} BY <1>1, <2>5
        <5>2. call'[x.by].tx = x /\ call'[x.by].at = at BY <2>1, <2>3, <3>1, <4>1
        <5> QED BY <5>1, <5>2 DEF Unsettled
      <4>2. CASE x # h
        <5>1. Over(x)' <=> Over(x) BY <3>1, <3>2, <4>2 DEF Over
        <5>2. CASE x.by = c BY <1>0, <5>1, <5>2
        <5>3. CASE x.by # c
          <6>1. call'[x.by] = call[x.by] BY <2>1, <4>0, <5>3
          <6> QED BY <5>1, <6>1 DEF SubmissionInv, LeftAreOver, Unsettled
        <5> QED BY <5>2, <5>3
      <4> QED BY <4>1, <4>2
    <3>7. SentIsOnFile'
      <4>1. \A x \in DOMAIN fate : x.by \in Caller BY DEF SubmissionInv, Shaped, Hashes
      <4>2. \A b \in Caller : call'[b].hook = call[b].hook BY <2>1, <2>3
      <4>3. call[c].hook => h \in onFile BY <1>0 DEF CallStands
      <4> QED BY <3>1, <3>2, <4>1, <4>2, <4>3 DEF SubmissionInv, SentIsOnFile
    <3> QED BY <3>3, <3>4, <3>5, <3>6, <3>7 DEF SubmissionInv
  <2> QED BY <1>1, <2>4, <2>5
<1>2. h \in DOMAIN fate /\ (fate' = [fate EXCEPT ![h] = fate[h]] => fate' = fate)
  BY <1>0 DEF HasTx, SubmissionInv, Shaped
<1>3. CASE Return(c, "rejected") /\ UNCHANGED fate
  BY <1>1, <1>3 DEF Return, OutcomeUnknown
<1>4. CASE Return(c, "unconfirmed") /\ UNCHANGED fate
  BY <1>1, <1>4 DEF Return, OutcomeUnknown
<1>5. ASSUME NEW at \in {"poll", "unknown"}, call' = [call EXCEPT ![c].at = at],
             fate' = [fate EXCEPT ![h] = IF Landed(h) THEN fate[h] ELSE [at |-> "queued", on |-> 0]]
      PROVE  SubmissionInv'
  <2>1. CASE Landed(h) BY <1>1, <1>2, <1>5, <2>1
  <2>2. CASE ~Landed(h) BY <1>1, <1>5, <2>2
  <2> QED BY <2>1, <2>2
<1> QED BY <1>3, <1>4, <1>5 DEF Send, Proceed, Return, OutcomeUnknown

\* Time passing makes no transaction's end undone.
LEMMA TickKeeps == SubmissionInv /\ Tick => SubmissionInv'
<1> SUFFICES ASSUME SubmissionInv, Tick PROVE SubmissionInv' OBVIOUS
<1>1. /\ wallClock' = wallClock + 1 /\ wallClock \in Nat
      /\ UNCHANGED <<closedAt, sequence, fate, call, onFile>>
  BY DEF Tick, SubmissionInv, Shaped
<1>2. Shaped'
  <2>1. closedAt' <= wallClock' /\ wallClock' \in Nat BY <1>1 DEF SubmissionInv, Shaped
  <2>2. \A h \in DOMAIN fate : Signed(h)' <= wallClock'
    <3> SUFFICES ASSUME NEW h \in DOMAIN fate PROVE Signed(h)' <= wallClock' OBVIOUS
    <3>1. h.until \in Nat /\ Signed(h) <= wallClock BY DEF SubmissionInv, Shaped, Hashes
    <3>2. Signed(h) \in Int /\ Signed(h)' = Signed(h) BY <3>1, SubmissionAssumption DEF Signed
    <3> QED BY <1>1, <3>1, <3>2
  <2> QED BY <1>1, <2>1, <2>2 DEF SubmissionInv, Shaped
<1>3. LandedInTime' BY <1>1 DEF SubmissionInv, LandedInTime, Landed, Signed
<1>4. CallsStand'
  <2> SUFFICES ASSUME NEW c \in Caller PROVE CallStands(c)' BY DEF CallsStand
  <2>1. CallStands(c) BY DEF SubmissionInv, CallsStand
  <2>2. call[c].since \in Nat /\ call[c].since <= wallClock
    BY <2>1 DEF SubmissionInv, Shaped, Calls, CallStands
  <2>3. call[c].since <= wallClock' BY <1>1, <2>2
  <2>4. HasTx(c) => HasTx(c)' BY <1>1 DEF HasTx, Signed
  <2> QED BY <1>1, <2>1, <2>3, <2>4 DEF CallStands
<1>5. LeftAreOver' BY <1>1 DEF SubmissionInv, LeftAreOver, Over, Unsettled
<1>6. SentIsOnFile' BY <1>1 DEF SubmissionInv, SentIsOnFile
<1> QED BY <1>2, <1>3, <1>4, <1>5, <1>6 DEF SubmissionInv

\* A ledger takes in only a transaction that is not over.
LEMMA LedgerKeeps ==
  ASSUME SubmissionInv, NEW time \in 1..wallClock, CloseLedger(time)
  PROVE  SubmissionInv'
<1>1. /\ closedAt' = time /\ closedAt < time /\ time <= wallClock /\ time \in Nat
      /\ closedAt \in Nat /\ wallClock \in Nat /\ UNCHANGED <<wallClock, call, onFile>>
  BY DEF CloseLedger, SubmissionInv, Shaped
<1>2. ASSUME NEW x \in DOMAIN fate, fate'[x] = fate[x], Over(x) PROVE Over(x)'
  <2>1. x.until \in Nat BY DEF SubmissionInv, Shaped, Hashes
  <2> QED BY <1>1, <1>2, <2>1 DEF Over
<1>3. ASSUME NEW x \in DOMAIN fate, fate'[x] = fate[x], Landed(x)
      PROVE  Signed(x)' <= fate'[x].on /\ fate'[x].on <= x.until /\ fate'[x].on <= closedAt'
  <2>1. fate[x] \in Fates BY DEF SubmissionInv, Shaped
  <2>2. fate[x].on \in Nat BY <2>1 DEF Fates
  <2>3. fate[x].on <= closedAt /\ Signed(x) <= fate[x].on /\ fate[x].on <= x.until
    BY <1>3 DEF SubmissionInv, LandedInTime
  <2>4. fate[x].on <= closedAt' BY <1>1, <2>2, <2>3
  <2> QED BY <1>3, <2>3, <2>4 DEF Signed
<1>4. ASSUME UNCHANGED fate, sequence' \in [SigningKeys -> Nat] PROVE SubmissionInv'
  <2>1. Shaped' BY <1>1, <1>4 DEF SubmissionInv, Shaped, Signed
  <2>2. LandedInTime' BY <1>3, <1>4 DEF LandedInTime, Landed
  <2>3. CallsStand' BY <1>1, <1>4 DEF SubmissionInv, CallsStand, CallStands, HasTx, Signed
  <2>4. LeftAreOver' BY <1>1, <1>2, <1>4 DEF SubmissionInv, LeftAreOver, Unsettled
  <2>5. SentIsOnFile' BY <1>1, <1>4 DEF SubmissionInv, SentIsOnFile
  <2> QED BY <2>1, <2>2, <2>3, <2>4, <2>5 DEF SubmissionInv
<1>5. ASSUME NEW h \in DOMAIN fate, NEW result \in {"success", "failed"},
             fate[h].at = "queued", Signed(h) <= time, time <= h.until,
             sequence' = [sequence EXCEPT ![h.key] = @ + 1],
             fate' = [fate EXCEPT ![h] = [at |-> result, on |-> time]]
      PROVE  SubmissionInv'
  <2>1. /\ DOMAIN fate' = DOMAIN fate /\ fate'[h] = [at |-> result, on |-> time]
        /\ \A x \in DOMAIN fate \ {h} : fate'[x] = fate[x]
    BY <1>5
  <2>2. h \in Hashes /\ h.until \in Nat BY DEF SubmissionInv, Shaped, Hashes
  <2>3. Unsettled(h)
    <3>1. ~Over(h) BY <1>1, <1>5, <2>2 DEF Over
    <3> QED BY <3>1 DEF SubmissionInv, LeftAreOver
  <2>4. Shaped'
    <3>1. fate' \in [DOMAIN fate' -> Fates]
      <4>1. \A x \in DOMAIN fate : fate[x] \in Fates BY DEF SubmissionInv, Shaped
      <4>2. [at |-> result, on |-> time] \in Fates BY <1>1, <1>5 DEF Fates
      <4>3. fate' = [x \in DOMAIN fate |-> fate'[x]] BY <1>5
      <4> QED BY <2>1, <4>1, <4>2, <4>3
    <3>2. sequence' \in [SigningKeys -> Nat]
      <4>1. sequence \in [SigningKeys -> Nat] BY DEF SubmissionInv, Shaped
      <4>2. h.key \in SigningKeys BY <2>2 DEF Hashes
      <4>3. sequence[h.key] + 1 \in Nat BY <4>1, <4>2
      <4> QED BY <1>5, <4>1, <4>3
    <3> QED BY <1>1, <2>1, <3>1, <3>2 DEF SubmissionInv, Shaped, Signed
  <2>5. LandedInTime'
    <3> SUFFICES ASSUME NEW x \in DOMAIN fate, Landed(x)'
                 PROVE  Signed(x)' <= fate'[x].on /\ fate'[x].on <= x.until /\ fate'[x].on <= closedAt'
      BY <2>1 DEF LandedInTime
    <3>1. CASE x = h BY <1>1, <1>5, <2>1, <3>1 DEF Signed
    <3>2. CASE x # h BY <1>3, <2>1, <3>2 DEF Landed
    <3> QED BY <3>1, <3>2
  <2>6. CallsStand'
    <3> SUFFICES ASSUME NEW c \in Caller PROVE CallStands(c)' BY DEF CallsStand
    <3>1. CallStands(c) BY DEF SubmissionInv, CallsStand
    <3>2. HasTx(c) => HasTx(c)' BY <1>1, <2>1 DEF HasTx, Signed
    <3>3. call[c].at = "done" => HasTx(c) /\ fate[call[c].tx].at = "success" /\ call[c].tx # h
      BY <1>5, <3>1 DEF CallStands
    <3>4. call[c].at = "done" => fate'[call[c].tx].at = "success" BY <2>1, <3>3 DEF HasTx
    <3> QED BY <1>1, <3>1, <3>2, <3>4 DEF CallStands
  <2>7. LeftAreOver'
    <3> SUFFICES ASSUME NEW x \in DOMAIN fate PROVE Over(x)' \/ Unsettled(x)' BY <2>1 DEF LeftAreOver
    <3>1. Unsettled(x) => Unsettled(x)' BY <1>1 DEF Unsettled
    <3>2. CASE x = h BY <2>3, <3>1, <3>2
    <3>3. CASE x # h BY <1>2, <2>1, <3>1, <3>3 DEF SubmissionInv, LeftAreOver
    <3> QED BY <3>2, <3>3
  <2>8. SentIsOnFile'
    <3>1. \A x \in DOMAIN fate : fate[x].at = "signed" => fate'[x].at = "signed" BY <1>5, <2>1
    <3>2. \A x \in DOMAIN fate : fate'[x].at # "signed" => fate[x].at # "signed" BY <3>1
    <3> QED BY <1>1, <2>1, <3>2 DEF SubmissionInv, SentIsOnFile
  <2> QED BY <2>4, <2>5, <2>6, <2>7, <2>8 DEF SubmissionInv
<1>6. CASE UNCHANGED <<sequence, fate>>
  BY <1>4, <1>6 DEF SubmissionInv, Shaped
<1>7. ASSUME NEW k \in {call[c].key : c \in Caller}, sequence' = [sequence EXCEPT ![k] = @ + 1],
             UNCHANGED fate
      PROVE  SubmissionInv'
  <2>1. sequence \in [SigningKeys -> Nat] BY DEF SubmissionInv, Shaped
  <2>2. sequence' \in [SigningKeys -> Nat]
    <3>1. k \in SigningKeys BY DEF SubmissionInv, Shaped, Calls
    <3> QED BY <1>7, <2>1, <3>1
  <2> QED BY <1>4, <1>7, <2>2
<1> QED BY <1>5, <1>6, <1>7 DEF CloseLedger

LEMMA InvKept == SubmissionInv /\ [SubmissionNext]_submitVars => SubmissionInv'
<1> SUFFICES ASSUME SubmissionInv, [SubmissionNext]_submitVars PROVE SubmissionInv' OBVIOUS
<1>1. ASSUME NEW c \in Caller, CallerMoves(c) PROVE SubmissionInv'
  <2>1. CASE LoadAndSign(c) BY <2>1, SigningKeeps
  <2>2. CASE Send(c) BY <2>2, SendingKeeps
  <2>3. ASSUME \/ BorrowFromVault(c) \/ RepayToVault(c) \/ RepayForVault(c) \/ BumpYield(c)
               \/ AccrueInterest(c) \/ ProcessQueue(c) \/ AdminCall(c) \/ ComplianceCall(c)
        PROVE  \E key \in SigningKeys, hook \in BOOLEAN : Invoke(c, key, hook)
    BY <2>3 DEF BorrowFromVault, RepayToVault, RepayForVault, BumpYield, AccrueInterest,
                ProcessQueue, AdminCall, ComplianceCall, SigningKeys
  <2> QED BY <1>1, <2>1, <2>2, <2>3, CallerActionKeeps DEF CallerMoves
<1>2. CASE Tick BY <1>2, TickKeeps
<1>3. ASSUME NEW time \in 1..wallClock, CloseLedger(time) PROVE SubmissionInv'
  BY <1>3, LedgerKeeps
<1>4. CASE UNCHANGED submitVars
  BY <1>4 DEF submitVars, SubmissionInv, Shaped, LandedInTime, Landed, CallsStand, CallStands,
              HasTx, LeftAreOver, Over, Unsettled, SentIsOnFile, Signed
<1> QED BY <1>1, <1>2, <1>3, <1>4 DEF SubmissionNext

\* The invariant gives what the callers rely on.
LEMMA InvGives == SubmissionInv => LandsOnce /\ OutcomesAreTrue
<1> SUFFICES ASSUME SubmissionInv PROVE LandsOnce /\ OutcomesAreTrue OBVIOUS
<1>1. LandsOnce BY DEF SubmissionInv, LeftAreOver, LandsOnce, Over, Unsettled
<1>2. DoneIsLanded BY DEF SubmissionInv, CallsStand, CallStands, DoneIsLanded
<1>3. NeverLandedIsFinal
  <2> SUFFICES ASSUME NEW h \in DOMAIN fate, NEW latest \in 0..closedAt, NEW oldest \in 0..latest,
                      ResolveSubmitted(h, Signed(h), latest, oldest) = "never_landed"
               PROVE  ~Landed(h) /\ closedAt > h.until
    BY DEF NeverLandedIsFinal
  <2>1. Signed(h) \in Int /\ Signed(h) <= Signed(h)
    BY SubmissionAssumption DEF SubmissionInv, Shaped, Hashes, Signed
  <2> QED BY <2>1, ResolvedIsOver
<1> QED BY <1>1, <1>2, <1>3 DEF OutcomesAreTrue, SubmissionInv

\* However often the callers repeat their calls, and whatever they were told, one
\* transaction of each succeeds at most (mgpoller/deposit.go:565-568).
THEOREM CallsLandOnce == SubmissionSpec => []LandsOnce
BY InvInit, InvKept, InvGives, PTL DEF SubmissionSpec

\* Success means landed, never landed is final, and what a hooked caller sends is
\* on file first (verify.go:100-104, types/dto.go:98-100).
THEOREM ToldOutcomesAreTrue == SubmissionSpec => []OutcomesAreTrue
BY InvInit, InvKept, InvGives, PTL DEF SubmissionSpec

\* What the shape leaves open: the bounds, and that a call knows only its own
\* transactions.
Bounded(c) == call[c].tx \in DOMAIN fate \cup {NoCall} /\ call[c].tries \in 0..MaxSigned
SubmissionBounds == wallClock \in 0..MaxClock /\ \A c \in Caller : Bounded(c)

LEMMA BoundsKept ==
  ASSUME SubmissionInv, SubmissionBounds, [SubmissionNext]_submitVars
  PROVE  SubmissionBounds'
<1>1. call \in [Caller -> Calls] /\ wallClock \in 0..MaxClock /\ MaxClock \in Nat /\ MaxSigned \in Nat
  BY SubmissionAssumption DEF SubmissionInv, Shaped, SubmissionBounds
<1>2. ASSUME NEW c \in Caller, CallerMoves(c) PROVE SubmissionBounds'
  <2>1. wallClock' = wallClock
    BY <1>2 DEF CallerMoves, BorrowFromVault, RepayToVault, RepayForVault, BumpYield, AccrueInterest,
                ProcessQueue, AdminCall, ComplianceCall, Invoke, Simulate, LoadAndSign, RecordSigned,
                Send, PollTransaction, StopCall, Reconcile, LookUp, LedgerStands
  <2> DEFINE Steps(at) == call' = [call EXCEPT ![c].at = at]
  <2>2. ASSUME NEW at, Steps(at), DOMAIN fate \subseteq DOMAIN fate'
        PROVE  SubmissionBounds'
    <3>1. \A b \in Caller : call'[b].tx = call[b].tx /\ call'[b].tries = call[b].tries
      BY <1>1, <2>2 DEF Calls
    <3> QED BY <1>1, <2>1, <2>2, <3>1 DEF SubmissionBounds, Bounded
  <2>3. ASSUME NEW key, NEW hook, Invoke(c, key, hook) PROVE SubmissionBounds'
    <3>1. \A b \in Caller : b # c => call'[b] = call[b]
      BY <1>1, <2>3 DEF Invoke
    <3>2. call'[c].tx = NoCall /\ call'[c].tries = call[c].tries + 1
      BY <1>1, <2>3 DEF Invoke, Calls
    <3>3. call[c].tries \in 0..MaxSigned /\ call[c].tries < MaxSigned /\ fate' = fate
      BY <2>3 DEF Invoke, SubmissionBounds, Bounded
    <3>4. call'[c].tries \in 0..MaxSigned
      BY <1>1, <3>2, <3>3
    <3> QED BY <1>1, <2>1, <3>1, <3>2, <3>3, <3>4 DEF SubmissionBounds, Bounded
  <2>4. CASE LoadAndSign(c)
    <3>1. CASE Return(c, "transport") /\ UNCHANGED fate
      <4>1. \E at : Steps(at)
        BY <3>1, Zenon DEF Return
      <4> QED BY <2>2, <3>1, <4>1
    <3>2. ASSUME NEW h, fate' = [x \in DOMAIN fate \cup {h} |-> IF x \in DOMAIN fate THEN fate[x] ELSE Clean],
                 call' = [call EXCEPT ![c] =
                           [@ EXCEPT !.at = IF call[c].hook THEN "record" ELSE "send", !.tx = h]]
          PROVE  SubmissionBounds'
      <4>1. DOMAIN fate' = DOMAIN fate \cup {h}
        BY <3>2
      <4>2. \A b \in Caller : call'[b].tries = call[b].tries /\ (call'[b].tx = call[b].tx \/ call'[b].tx = h)
        BY <1>1, <3>2 DEF Calls
      <4> QED BY <1>1, <2>1, <4>1, <4>2 DEF SubmissionBounds, Bounded
    <3> QED BY <2>4, <3>1, <3>2 DEF LoadAndSign
  <2>5. CASE Simulate(c) \/ RecordSigned(c) \/ PollTransaction(c) \/ StopCall(c) \/ Reconcile(c) \/ LookUp(c)
    <3>1. (\E at : Steps(at)) /\ fate' = fate
      BY <2>5, Zenon DEF Simulate, RecordSigned, PollTransaction, StopCall, Reconcile, LookUp, Proceed, Return
    <3> HIDE DEF Steps
    <3> QED BY <2>2, <3>1
  <2>6. CASE Send(c)
    <3>1. DOMAIN fate \subseteq DOMAIN fate'
      BY <2>6 DEF Send
    <3>2. \E at : Steps(at)
      BY <2>6, Zenon DEF Send, Proceed, Return
    <3> HIDE DEF Steps
    <3> QED BY <2>2, <3>1, <3>2
  <2>7. SubmissionBounds'
    <3>1. \/ \E key, hook : Invoke(c, key, hook)
          \/ LoadAndSign(c) \/ Simulate(c) \/ RecordSigned(c) \/ PollTransaction(c) \/ StopCall(c)
          \/ Reconcile(c) \/ LookUp(c) \/ Send(c)
      BY <1>2, Zenon DEF CallerMoves, BorrowFromVault, RepayToVault, RepayForVault, BumpYield,
                         AccrueInterest, ProcessQueue, AdminCall, ComplianceCall
    <3> QED BY <2>3, <2>4, <2>5, <2>6, <3>1, Zenon
  <2> QED BY <2>7
<1>3. CASE Tick
  <2>1. wallClock' \in 0..MaxClock
    BY <1>1, <1>3 DEF Tick
  <2> QED BY <1>3, <2>1 DEF Tick, SubmissionBounds, Bounded
<1>4. ASSUME NEW time \in 1..wallClock, CloseLedger(time) PROVE SubmissionBounds'
  <2>1. DOMAIN fate' = DOMAIN fate /\ UNCHANGED <<wallClock, call>>
    BY <1>4 DEF CloseLedger
  <2> QED BY <2>1 DEF SubmissionBounds, Bounded
<1>5. CASE UNCHANGED submitVars
  BY <1>5 DEF submitVars, SubmissionBounds, Bounded
<1> QED BY <1>2, <1>3, <1>4, <1>5 DEF SubmissionNext

\* Callers, transactions and times hold only the values the code writes
\* (transaction.go, verify.go): a hash on file or in a call is one that was signed.
THEOREM SubmissionTyped == SubmissionSpec => []SubmissionTypeOK
<1>1. SubmissionInit => SubmissionBounds
  BY SubmissionAssumption DEF SubmissionInit, SubmissionBounds, Bounded
<1>2. SubmissionInv /\ SubmissionBounds => SubmissionTypeOK
  BY DEF SubmissionInv, SubmissionBounds, Bounded, SubmissionTypeOK, Shaped, Calls, CallAts, Fates
<1> QED BY InvInit, InvKept, BoundsKept, <1>1, <1>2, PTL DEF SubmissionSpec

-----------------------------------------------------------------------------
(* Calls with a token (Credentials) *)

Issued == Cardinality(DOMAIN dies)

\* Only one turn of a process is inside the flight, or under the lock.
Inside(c) == request[c].at \in {"look", "mint", "keep"}
OneFlight ==
  /\ \A c \in Request : request[c].at \in {"join", "look", "wait"} => SharesStore
  /\ \A c \in Request : request[c].at = "wait" => minting[home[c]]
  /\ \A c \in Request : Inside(c) /\ provider # "anchor" => minting[home[c]]
  /\ \A c, d \in Request : provider # "anchor" /\ home[c] = home[d] /\ Inside(c) /\ Inside(d) => c = d

\* A turn that was performed and heard so asks no more.
Performed ==
  \A c \in Request :
    /\ request[c].done \in Nat
    /\ ~request[c].lost /\ request[c].done > 0 => request[c].at = "served" /\ request[c].done = 1
    /\ provider # "anchor" /\ request[c].done > 0 =>
         request[c].at \in {"served", "failed"} /\ request[c].done = 1

\* While a process mints, its cache holds nothing that can be used.
Alone == provider # "anchor" /\ \A c, d \in Request : home[c] = home[d]
MintsEmpty ==
  Alone => \A c \in Request :
    /\ request[c].at \in {"mint", "keep"} => ~Cached
    /\ request[c].at = "keep" => request[c].token = Issued

RequestForms ==
  [at : {"ask", "join", "wait", "look", "mint", "keep", "send", "refused", "served", "failed", "rejected"},
   token : Nat, refused : Nat, sent : Nat, done : Nat, lost : BOOLEAN]

Known ==
  /\ request \in [Request -> RequestForms] /\ home \in [Request -> Replica] /\ minting \in [Replica -> BOOLEAN]
  /\ Issued \in Nat /\ dies \in [1..Issued -> Nat]
  /\ hour \in Nat /\ store.token \in 0..Issued /\ store.until \in Int
  /\ \A c \in Request : request[c].token \in 0..Issued /\ (request[c].at = "keep" => request[c].token # 0)
  /\ \A c \in Request : request[c].refused \in 0..1 /\ request[c].sent \in 0..HTTPMaxAttempts
  /\ \A c \in Request : request[c].at = "send" /\ provider = "anchor" => request[c].sent < HTTPMaxAttempts
  /\ \A c \in Request : request[c].at = "send" /\ provider # "anchor" => request[c].sent = 0

CredentialsInv == Known /\ OneFlight /\ Performed /\ MintsEmpty /\ CacheIsNewest

-----------------------------------------------------------------------------

\* Call c alone moved, to the turn given.
Turns(c, turn) ==
  /\ turn \in RequestForms /\ request' \in [Request -> RequestForms]
  /\ request'[c] = turn
  /\ \A d \in Request \ {c} : request'[d] = request[d]

LEMMA Turned ==
  ASSUME request \in [Request -> RequestForms], NEW c \in Request, NEW turn \in RequestForms,
         request' = [request EXCEPT ![c] = turn]
  PROVE  Turns(c, turn)
BY DEF Turns

LEMMA StepTurns ==
  ASSUME request \in [Request -> RequestForms], NEW c \in Request,
         NEW at \in {"ask", "join", "wait", "look", "mint", "refused", "rejected"}, StepsTo(c, at)
  PROVE  Turns(c, [request[c] EXCEPT !.at = at])
BY DEF StepsTo, Turns, RequestForms

LEMMA SendTurns ==
  ASSUME request \in [Request -> RequestForms], NEW c \in Request, NEW token \in Nat, Sends(c, token)
  PROVE  Turns(c, [request[c] EXCEPT !.at = "send", !.token = token, !.sent = 0])
BY DEF Sends, Turns, RequestForms

LEMMA RefusedTurns ==
  ASSUME request \in [Request -> RequestForms], NEW c \in Request,
         request' = [request EXCEPT ![c].at = "ask", ![c].refused = 1]
  PROVE  Turns(c, [request[c] EXCEPT !.at = "ask", !.refused = 1])
BY DEF Turns, RequestForms

LEMMA KeepTurns ==
  ASSUME request \in [Request -> RequestForms], NEW c \in Request, NEW token \in Nat,
         request' = [request EXCEPT ![c].at = "keep", ![c].token = token]
  PROVE  Turns(c, [request[c] EXCEPT !.at = "keep", !.token = token])
BY DEF Turns, RequestForms

LEMMA ServedTurns ==
  ASSUME request \in [Request -> RequestForms], NEW c \in Request,
         request' = [request EXCEPT ![c].at = "served", ![c].done = @ + 1]
  PROVE  Turns(c, [request[c] EXCEPT !.at = "served", !.done = request[c].done + 1])
BY DEF Turns, RequestForms

\* A broken connection: the request counts as sent, and was perhaps performed.
Breaks(c, at, turn) ==
  /\ turn.at = at /\ turn.sent = request[c].sent + 1 /\ turn.lost
  /\ turn.done \in {request[c].done, request[c].done + 1}
  /\ turn.token = request[c].token /\ turn.refused = request[c].refused

LEMMA BrokenTurns ==
  ASSUME request \in [Request -> RequestForms], NEW c \in Request, NEW at \in {"send", "failed"}, Broken(c, at)
  PROVE  \E turn \in RequestForms : Turns(c, turn) /\ Breaks(c, at, turn)
<1> DEFINE r == request[c]
           l == Lost(c, at)
           m == [l EXCEPT !.done = @ + 1]
<1>0. r \in RequestForms /\ r.sent + 1 \in Nat /\ r.done + 1 \in Nat
  BY DEF RequestForms
<1>1. l \in RequestForms /\ Breaks(c, at, l) /\ l.done = r.done
  BY <1>0, Zenon DEF Lost, RequestForms, Breaks
<1>2. m \in RequestForms /\ Breaks(c, at, m)
  <2>1. m = [l EXCEPT !.done = r.done + 1]
    BY <1>1
  <2> HIDE DEF l
  <2> QED BY <1>0, <1>1, <2>1, Zenon DEF RequestForms, Breaks
<1>3. \/ request' = [request EXCEPT ![c] = l]
      \/ request' = [request EXCEPT ![c] = m]
  BY Zenon DEF Broken
<1> HIDE DEF l, m
<1> QED BY <1>1, <1>2, <1>3, Turned

LEMMA FlightTurns ==
  ASSUME request \in [Request -> RequestForms], home \in [Request -> Replica], minting \in [Replica -> BOOLEAN],
         NEW c \in Request, NEW token \in Nat, FlightEnds(c, token)
  PROVE  /\ minting' \in [Replica -> BOOLEAN] /\ ~minting'[home[c]]
         /\ \A r \in Replica : r # home[c] => minting'[r] = minting[r]
         /\ request' \in [Request -> RequestForms]
         /\ \A d \in Request :
              IF d = c \/ (SharesStore /\ home[d] = home[c] /\ request[d].at = "wait")
                THEN request'[d] = IF token = 0 THEN [request[d] EXCEPT !.at = "failed"]
                                   ELSE [request[d] EXCEPT !.at = "send", !.token = token, !.sent = 0]
                ELSE request'[d] = request[d]
<1> DEFINE served == {c} \cup {d \in Request : SharesStore /\ home[d] = home[c] /\ request[d].at = "wait"}
           next(d) == IF d \notin served THEN request[d]
                      ELSE IF token = 0 THEN [request[d] EXCEPT !.at = "failed"]
                      ELSE [request[d] EXCEPT !.at = "send", !.token = token, !.sent = 0]
<1>1. request' = [d \in Request |-> next(d)] /\ minting' = [minting EXCEPT ![home[c]] = FALSE]
  BY DEF FlightEnds
<1>2. \A d \in Request : next(d) \in RequestForms
  BY DEF RequestForms
<1>3. \A d \in Request : d \in served <=> d = c \/ (SharesStore /\ home[d] = home[c] /\ request[d].at = "wait")
  OBVIOUS
<1>4. request' \in [Request -> RequestForms] /\ \A d \in Request : request'[d] = next(d)
  <2> HIDE DEF next
  <2> QED BY <1>1, <1>2
<1>5. /\ minting' \in [Replica -> BOOLEAN] /\ ~minting'[home[c]]
      /\ \A r \in Replica : r # home[c] => minting'[r] = minting[r]
  <2>1. home[c] \in Replica OBVIOUS
  <2> QED BY <1>1, <2>1
<1> HIDE DEF served
<1> QED BY <1>3, <1>4, <1>5

LEMMA CredInit == CredentialsInit => CredentialsInv
<1> SUFFICES ASSUME CredentialsInit PROVE CredentialsInv
  OBVIOUS
<1>1. DOMAIN dies = {} /\ Issued = 0 /\ dies \in [1..Issued -> Nat]
  <2>1. dies = <<>> /\ DOMAIN dies = {}
    BY DEF CredentialsInit
  <2>2. Issued = 0 /\ 1..Issued = {}
    BY <2>1, FS_EmptySet DEF Issued
  <2> QED BY <2>1, <2>2
<1>2. \A c \in Request : request[c] = [at |-> "ask", token |-> 0, refused |-> 0, sent |-> 0, done |-> 0, lost |-> FALSE]
  BY DEF CredentialsInit
<1>3. Known
  <2>1. request \in [Request -> RequestForms]
    BY Zenon DEF CredentialsInit, RequestForms
  <2>2. minting \in [Replica -> BOOLEAN]
    BY Zenon DEF CredentialsInit
  <2> QED BY <1>1, <1>2, <2>1, <2>2 DEF CredentialsInit, Known, NoToken, HTTPMaxAttempts
<1>4. OneFlight /\ Performed /\ MintsEmpty
  BY <1>2 DEF OneFlight, Performed, MintsEmpty, Inside
<1>5. ~Cached
  BY DEF CredentialsInit, Cached, NoToken
<1> QED BY <1>3, <1>4, <1>5 DEF CredentialsInv, CacheIsNewest

\* What a step leaves of the token in the cache.
Books == <<provider, home, store, dies, hour>>

\* The step, token, refusals, requests and performances of turn c after it moved.
Moved(c, at, token, refused, sent, done, missed) ==
  /\ request' \in [Request -> RequestForms]
  /\ \A d \in Request : d # c => request'[d] = request[d]
  /\ request'[c].at = at /\ request'[c].token = token /\ request'[c].refused = refused
  /\ request'[c].sent = sent /\ request'[c].done = done /\ request'[c].lost = missed

LEMMA StepMoves ==
  ASSUME request \in [Request -> RequestForms], NEW c \in Request,
         NEW at \in {"ask", "join", "wait", "look", "mint", "refused", "rejected"}, StepsTo(c, at)
  PROVE  Moved(c, at, request[c].token, request[c].refused, request[c].sent, request[c].done, request[c].lost)
<1> DEFINE turn == [request[c] EXCEPT !.at = at]
<1>1. Turns(c, turn)
  BY StepTurns
<1>2. /\ turn.at = at /\ turn.token = request[c].token /\ turn.refused = request[c].refused
      /\ turn.sent = request[c].sent /\ turn.done = request[c].done /\ turn.lost = request[c].lost
  BY request[c] \in RequestForms, Zenon DEF RequestForms
<1> HIDE DEF turn
<1> QED BY <1>1, <1>2 DEF Turns, Moved

LEMMA SendMoves ==
  ASSUME request \in [Request -> RequestForms], NEW c \in Request, NEW token \in Nat, Sends(c, token)
  PROVE  Moved(c, "send", token, request[c].refused, 0, request[c].done, request[c].lost)
<1> DEFINE turn == [request[c] EXCEPT !.at = "send", !.token = token, !.sent = 0]
<1>1. Turns(c, turn)
  BY SendTurns
<1>2. /\ turn.at = "send" /\ turn.token = token /\ turn.refused = request[c].refused
      /\ turn.sent = 0 /\ turn.done = request[c].done /\ turn.lost = request[c].lost
  BY request[c] \in RequestForms, Zenon DEF RequestForms
<1> HIDE DEF turn
<1> QED BY <1>1, <1>2 DEF Turns, Moved

LEMMA KeepMoves ==
  ASSUME request \in [Request -> RequestForms], NEW c \in Request, NEW token \in Nat,
         request' = [request EXCEPT ![c].at = "keep", ![c].token = token]
  PROVE  Moved(c, "keep", token, request[c].refused, request[c].sent, request[c].done, request[c].lost)
<1> DEFINE turn == [request[c] EXCEPT !.at = "keep", !.token = token]
<1>1. Turns(c, turn)
  BY KeepTurns
<1>2. /\ turn.at = "keep" /\ turn.token = token /\ turn.refused = request[c].refused
      /\ turn.sent = request[c].sent /\ turn.done = request[c].done /\ turn.lost = request[c].lost
  BY request[c] \in RequestForms, Zenon DEF RequestForms
<1> HIDE DEF turn
<1> QED BY <1>1, <1>2 DEF Turns, Moved

LEMMA RefusedMoves ==
  ASSUME request \in [Request -> RequestForms], NEW c \in Request, 
         request' = [request EXCEPT ![c].at = "ask", ![c].refused = 1]
  PROVE  Moved(c, "ask", request[c].token, 1, request[c].sent, request[c].done, request[c].lost)
<1> DEFINE turn == [request[c] EXCEPT !.at = "ask", !.refused = 1]
<1>1. Turns(c, turn)
  BY RefusedTurns
<1>2. /\ turn.at = "ask" /\ turn.token = request[c].token /\ turn.refused = 1
      /\ turn.sent = request[c].sent /\ turn.done = request[c].done /\ turn.lost = request[c].lost
  BY request[c] \in RequestForms, Zenon DEF RequestForms
<1> HIDE DEF turn
<1> QED BY <1>1, <1>2 DEF Turns, Moved

LEMMA ServedMoves ==
  ASSUME request \in [Request -> RequestForms], NEW c \in Request, 
         request' = [request EXCEPT ![c].at = "served", ![c].done = @ + 1]
  PROVE  Moved(c, "served", request[c].token, request[c].refused, request[c].sent, request[c].done + 1, request[c].lost)
<1> DEFINE turn == [request[c] EXCEPT !.at = "served", !.done = request[c].done + 1]
<1>1. Turns(c, turn)
  BY ServedTurns
<1>2. /\ turn.at = "served" /\ turn.token = request[c].token /\ turn.refused = request[c].refused
      /\ turn.sent = request[c].sent /\ turn.done = request[c].done + 1 /\ turn.lost = request[c].lost
  BY request[c] \in RequestForms, Zenon DEF RequestForms
<1> HIDE DEF turn
<1> QED BY <1>1, <1>2 DEF Turns, Moved

\* The types survive a step of one turn that issues nothing.
LEMMA KnownStays ==
  ASSUME Known, NEW c \in Request, UNCHANGED <<provider, home, dies, hour>>,
         minting' \in [Replica -> BOOLEAN], store'.token \in 0..Issued, store'.until \in Int,
         NEW at, NEW token \in 0..Issued, NEW refused \in 0..1, NEW sent \in 0..HTTPMaxAttempts,
         NEW done, NEW missed, Moved(c, at, token, refused, sent, done, missed),
         at = "send" => IF provider = "anchor" THEN sent < HTTPMaxAttempts ELSE sent = 0,
         at # "keep"
  PROVE  Known'
<1>1. Issued' = Issued
  BY DEF Issued
<1>2. request' \in [Request -> RequestForms] /\ UNCHANGED home /\ Issued' \in Nat
      /\ dies' \in [1..Issued' -> Nat] /\ hour' \in Nat /\ store'.token \in 0..Issued'
  BY <1>1 DEF Known, Moved
<1>3. \A d \in Request : request'[d].token \in 0..Issued' /\ (request'[d].at = "keep" => request'[d].token # 0)
  BY <1>1 DEF Known, Moved
<1>4. \A d \in Request : request'[d].refused \in 0..1 /\ request'[d].sent \in 0..HTTPMaxAttempts
  BY DEF Known, Moved
<1>5. \A d \in Request : request'[d].at = "send" =>
        IF provider' = "anchor" THEN request'[d].sent < HTTPMaxAttempts ELSE request'[d].sent = 0
  BY DEF Known, Moved
<1> QED BY <1>2, <1>3, <1>4, <1>5 DEF Known

LEMMA FromCache ==
  ASSUME CredentialsInv, NEW c \in Request, Cached, UNCHANGED Books, UNCHANGED minting, request[c].at = "ask",
         Sends(c, store.token)
  PROVE  CredentialsInv'
<1> USE DEF CredentialsInv
<1>1. store.token \in 0..Issued /\ store.until \in Int /\ request \in [Request -> RequestForms] /\ request[c].refused \in 0..1
      /\ Issued \in Nat /\ minting \in [Replica -> BOOLEAN] /\ 0 \in 0..HTTPMaxAttempts
  BY DEF Known, HTTPMaxAttempts
<1>2. Moved(c, "send", store.token, request[c].refused, 0, request[c].done, request[c].lost)
  BY <1>1, SendMoves
<1>3. Known'
  <2>1. UNCHANGED <<provider, home, dies, hour>> /\ store' = store /\ minting' \in [Replica -> BOOLEAN]
    BY <1>1 DEF Books
  <2>2. 0 < HTTPMaxAttempts
    BY DEF HTTPMaxAttempts
  <2> QED BY <1>1, <1>2, <2>1, <2>2, KnownStays
<1>4. OneFlight'
  BY <1>2 DEF OneFlight, Moved, Books, Inside, SharesStore
<1>5. Performed'
  BY <1>2 DEF Performed, Moved, Books
<1>6. MintsEmpty' /\ CacheIsNewest'
  BY <1>2 DEF MintsEmpty, CacheIsNewest, Moved, Books, Alone, Cached, Issued
<1> QED BY <1>3, <1>4, <1>5, <1>6

\* A turn waits, or goes into the flight or the mint of its process.
LEMMA Steps ==
  ASSUME CredentialsInv, NEW c \in Request, NEW at \in {"join", "wait", "look", "mint"}, StepsTo(c, at),
         UNCHANGED Books, request[c].at \in {"ask", "join", "look"},
         at # "mint" => SharesStore, at = "wait" => minting[home[c]], at = "mint" => ~Cached,
         \/ at \in {"join", "wait"} /\ UNCHANGED minting
         \/ at = "mint" /\ (provider = "anchor" \/ request[c].at = "look") /\ UNCHANGED minting
         \/ at \in {"look", "mint"} /\ ~minting[home[c]] /\ minting' = [minting EXCEPT ![home[c]] = TRUE]
  PROVE  CredentialsInv'
<1> USE DEF CredentialsInv
<1>1. request[c].token \in 0..Issued /\ request \in [Request -> RequestForms] /\ request[c].refused \in 0..1
      /\ request[c].sent \in 0..HTTPMaxAttempts /\ store.token \in 0..Issued /\ store.until \in Int
  BY DEF Known
<1>2. Moved(c, at, request[c].token, request[c].refused, request[c].sent, request[c].done, request[c].lost)
  BY <1>1, StepMoves
<1>a. minting' \in [Replica -> BOOLEAN]
  BY DEF Known
<1>3. Known'
  BY <1>1, <1>2, <1>a, KnownStays DEF Books
<1>4. OneFlight'
  <2>1. home \in [Request -> Replica] /\ minting \in [Replica -> BOOLEAN]
    BY DEF Known
  <2>2. \A d \in Request : minting[home[d]] => minting'[home[d]]
    BY <2>1
  <2>3. at \in {"look", "mint"} /\ provider # "anchor" =>
          minting'[home[c]] /\ \A d \in Request : d # c /\ home[d] = home[c] => ~Inside(d)
    BY <2>1 DEF OneFlight, Inside
  <2> QED BY <1>2, <2>1, <2>2, <2>3 DEF OneFlight, Moved, Books, Inside, SharesStore
<1>5. Performed'
  BY <1>2 DEF Performed, Moved, Books
<1>6. MintsEmpty' /\ CacheIsNewest'
  BY <1>2 DEF MintsEmpty, CacheIsNewest, Moved, Books, Alone, Cached, Issued
<1> QED BY <1>3, <1>4, <1>5, <1>6

\* The flight ends, with a token the provider issued or without one.
LEMMA FlightOver ==
  ASSUME Known, OneFlight, Performed, NEW c \in Request, NEW token \in 0..Issued', FlightEnds(c, token),
         Inside(c), UNCHANGED <<provider, home, hour>>,
         Issued' \in Nat, Issued <= Issued', dies' \in [1..Issued' -> Nat],
         store'.token \in 0..Issued', store'.until \in Int
  PROVE  Known' /\ OneFlight' /\ Performed' /\ \A d \in Request : Inside(d)' => Inside(d) /\ d # c /\ request'[d] = request[d]
<1>1. request \in [Request -> RequestForms] /\ home \in [Request -> Replica] /\ minting \in [Replica -> BOOLEAN] /\ token \in Nat
  BY DEF Known
<1> DEFINE Served(d) == d = c \/ (SharesStore /\ home[d] = home[c] /\ request[d].at = "wait")
<1>2. /\ minting' \in [Replica -> BOOLEAN] /\ request' \in [Request -> RequestForms]
      /\ ~minting'[home[c]] /\ \A r \in Replica : r # home[c] => minting'[r] = minting[r]
  BY <1>1, FlightTurns
<1>b. \A d \in Request :
        request'[d] = IF Served(d) THEN IF token = 0 THEN [request[d] EXCEPT !.at = "failed"]
                                        ELSE [request[d] EXCEPT !.at = "send", !.token = token, !.sent = 0]
                      ELSE request[d]
  <2> TAKE d \in Request
  <2>1. IF Served(d)
          THEN request'[d] = IF token = 0 THEN [request[d] EXCEPT !.at = "failed"]
                             ELSE [request[d] EXCEPT !.at = "send", !.token = token, !.sent = 0]
          ELSE request'[d] = request[d]
    BY <1>1, FlightTurns, Zenon
  <2> QED BY <2>1
<1> HIDE DEF Served
<1> DEFINE Left(d) == /\ \/ /\ request'[d].at = "failed" /\ request'[d].token = request[d].token
                            /\ request'[d].sent = request[d].sent
                         \/ request'[d].at = "send" /\ request'[d].token = token /\ request'[d].sent = 0
                      /\ request'[d].refused = request[d].refused
                      /\ request'[d].done = request[d].done /\ request'[d].lost = request[d].lost
<1>3. \A d \in Request : (~Served(d) => request'[d] = request[d]) /\ (Served(d) => Left(d))
  <2>0. \A d \in Request : ~Served(d) => request'[d] = request[d]
    BY <1>b, Zenon
  <2> SUFFICES ASSUME NEW d \in Request, Served(d) PROVE Left(d)
    BY <2>0, Zenon
  <2>1. request[d] \in RequestForms
    BY <1>1
  <2>2. request'[d] = IF token = 0 THEN [request[d] EXCEPT !.at = "failed"]
                      ELSE [request[d] EXCEPT !.at = "send", !.token = token, !.sent = 0]
    BY <1>b, Zenon
  <2>3. CASE token = 0
    <3>1. request'[d] = [request[d] EXCEPT !.at = "failed"]
      BY <2>2, <2>3
    <3> QED BY <2>1, <3>1, Zenon DEF RequestForms
  <2>4. CASE token # 0
    <3>1. request'[d] = [request[d] EXCEPT !.at = "send", !.token = token, !.sent = 0]
      BY <2>2, <2>4
    <3> QED BY <2>1, <3>1, Zenon DEF RequestForms
  <2> QED BY <2>3, <2>4
<1>a. \A d \in Request : Inside(d)' => Inside(d) /\ ~Served(d) /\ d # c
  BY <1>3 DEF Inside, Served
<1>4. Known'
  <2>1. \A d \in Request : request'[d].token \in 0..Issued' /\ (request'[d].at = "keep" => request'[d].token # 0)
    <3>1. \A d \in Request : request[d].token \in 0..Issued /\ (request[d].at = "keep" => request[d].token # 0)
      BY DEF Known
    <3>2. ASSUME NEW d \in Request, Served(d)
          PROVE  request'[d].token \in 0..Issued' /\ request'[d].at # "keep"
      <4>1. Left(d)
        BY <1>3, <3>2, Zenon
      <4>2. request[d].token \in 0..Issued /\ Issued \in Nat
        BY <3>1 DEF Known
      <4>3. request'[d].token = request[d].token \/ request'[d].token = token
        BY <4>1, Zenon
      <4>4. request'[d].at = "failed" \/ request'[d].at = "send"
        BY <4>1, Zenon
      <4> HIDE DEF Left
      <4>5. request'[d].token \in 0..Issued'
        BY <4>2, <4>3
      <4> QED BY <4>4, <4>5
    <3>3. ASSUME NEW d \in Request, ~Served(d)
          PROVE  request'[d].token \in 0..Issued' /\ (request'[d].at = "keep" => request'[d].token # 0)
      <4>1. request'[d] = request[d] /\ Issued \in Nat
        BY <1>3, <3>3 DEF Known
      <4> QED BY <3>1, <4>1
    <3> QED BY <3>2, <3>3
  <2>2. \A d \in Request : request'[d].refused \in 0..1 /\ request'[d].sent \in 0..HTTPMaxAttempts
    <3> TAKE d \in Request
    <3>1. request[d].refused \in 0..1 /\ request[d].sent \in 0..HTTPMaxAttempts
      BY DEF Known
    <3>2. request'[d].refused = request[d].refused
      BY <1>3, Zenon
    <3>3. request'[d].sent = request[d].sent \/ request'[d].sent = 0
      BY <1>3, Zenon
    <3>4. 0 \in 0..HTTPMaxAttempts
      BY DEF HTTPMaxAttempts
    <3>5. request'[d].sent \in 0..HTTPMaxAttempts
      BY <3>1, <3>3, <3>4, Zenon
    <3> QED BY <3>1, <3>2, <3>5, Zenon
  <2>3. \A d \in Request : request'[d].at = "send" =>
          IF provider' = "anchor" THEN request'[d].sent < HTTPMaxAttempts ELSE request'[d].sent = 0
    BY <1>3 DEF Known, HTTPMaxAttempts
  <2> QED BY <1>2, <2>1, <2>2, <2>3 DEF Known
<1>5. OneFlight'
  <2>1. ASSUME NEW d \in Request, request'[d].at \in {"join", "look", "wait"} PROVE SharesStore'
    BY <1>3, <2>1 DEF OneFlight, SharesStore
  <2>2. ASSUME NEW d \in Request, request'[d].at = "wait" PROVE minting'[home'[d]]
    <3>1. ~Served(d) /\ request[d].at = "wait" /\ home[d] \in Replica
      BY <1>1, <1>3, <2>2 DEF Served
    <3>2. home[d] # home[c] /\ minting[home[d]]
      BY <3>1 DEF OneFlight, Served
    <3> QED BY <1>2, <3>1, <3>2
  <2>3. ASSUME NEW d \in Request, Inside(d)', provider' # "anchor" PROVE minting'[home'[d]]
    <3>1. Inside(d) /\ d # c /\ home[d] \in Replica
      BY <1>1, <1>a, <2>3
    <3>2. home[d] # home[c] /\ minting[home[d]]
      BY <2>3, <3>1 DEF OneFlight
    <3> QED BY <1>2, <3>1, <3>2
  <2> QED BY <1>a, <2>1, <2>2, <2>3 DEF OneFlight
<1>6. Performed'
  BY <1>3 DEF Performed, Inside, Served
<1> QED BY <1>3, <1>4, <1>5, <1>6, <1>a

LEMMA LooksStep ==
  ASSUME CredentialsInv, NEW c \in Request, AccessToken(c) \/ Token(c) \/ GetJWT(c)
  PROVE  CredentialsInv'
<1>1. CASE Cached
  BY <1>1, FromCache DEF AccessToken, Token, GetJWT, Books
<1>2. CASE ~Cached /\ SharesStore
  BY <1>2, Steps DEF AccessToken, Token, GetJWT, Books, SharesStore
<1>3. CASE ~Cached /\ ~SharesStore
  BY <1>3, Steps DEF AccessToken, Token, GetJWT, Books
<1> QED BY <1>1, <1>2, <1>3

LEMMA JoinStep == ASSUME CredentialsInv, NEW c \in Request, Join(c) PROVE CredentialsInv'
<1>1. SharesStore
  BY DEF CredentialsInv, OneFlight, Join
<1>2. CASE minting[home[c]]
  BY <1>1, <1>2, Steps DEF Join, Books
<1>3. CASE ~minting[home[c]]
  BY <1>1, <1>3, Steps DEF Join, Books
<1> QED BY <1>2, <1>3

\* Nobody else of the process is inside when a flight ends.
LEMMA FlightAlone ==
  ASSUME OneFlight, NEW c \in Request, Inside(c), Alone, UNCHANGED <<provider, home>>,
         \A d \in Request : Inside(d)' => Inside(d) /\ d # c
  PROVE  \A d \in Request : ~Inside(d)'
BY DEF OneFlight, Alone

LEMMA LookAgainStep == ASSUME CredentialsInv, NEW c \in Request, LookAgain(c) PROVE CredentialsInv'
<1> USE DEF CredentialsInv
<1>1. CASE Cached
  <2>1. FlightEnds(c, store.token) /\ UNCHANGED Books /\ Inside(c) /\ Issued' = Issued
    BY <1>1 DEF LookAgain, Books, Inside, Issued
  <2>2. store.token \in 0..Issued' /\ Issued' \in Nat /\ dies' \in [1..Issued' -> Nat] /\ store'.token \in 0..Issued' /\ store'.until \in Int
    BY <2>1 DEF Known, Books
  <2>3. Known' /\ OneFlight' /\ Performed' /\ \A d \in Request : Inside(d)' => Inside(d) /\ d # c /\ request'[d] = request[d]
    BY <2>1, <2>2, FlightOver DEF Books
  <2>4. MintsEmpty' /\ CacheIsNewest'
    BY <2>1, <2>3 DEF MintsEmpty, CacheIsNewest, Books, Alone, Cached, Issued, Inside
  <2> QED BY <2>3, <2>4
<1>2. CASE ~Cached
  <2>1. SharesStore
    BY DEF OneFlight, LookAgain
  <2> QED BY <1>2, <2>1, Steps DEF LookAgain, Books
<1> QED BY <1>1, <1>2

LEMMA IssueStep == ASSUME CredentialsInv, NEW c \in Request, Issue(c) PROVE CredentialsInv'
<1> USE DEF CredentialsInv
<1>1. Inside(c) /\ UNCHANGED <<provider, home, store, hour>> /\ request[c].at = "mint"
  BY DEF Issue, Inside
<1>2. Alone => ~Cached /\ ~Cached'
  BY <1>1 DEF MintsEmpty, Cached
<1>3. Issued \in Nat
  BY DEF Known
<1>4. CASE UNCHANGED dies /\ FlightEnds(c, 0)
  <2>1. Issued' = Issued
    BY <1>4 DEF Issued
  <2>2. Known' /\ OneFlight' /\ Performed' /\ \A d \in Request : Inside(d)' => Inside(d) /\ d # c /\ request'[d] = request[d]
    BY <1>1, <1>3, <1>4, <2>1, FlightOver DEF Known
  <2>3. MintsEmpty' /\ CacheIsNewest'
    BY <1>1, <1>2, <2>2 DEF MintsEmpty, CacheIsNewest, Alone, OneFlight, Inside
  <2> QED BY <2>2, <2>3
<1>5. CASE dies' # dies \/ ~FlightEnds(c, 0)
  <2> DEFINE next == Issued + 1
  <2>1. dies' = [t \in 1..next |-> IF t = next THEN hour + Life ELSE dies[t]]
    BY <1>5 DEF Issue, Issued
  <2>2. dies' \in [1..next -> Nat]
    BY <2>1, <1>1, CredentialsAssumption DEF Known
  <2>3. Issued' = next /\ next \in Nat
    <3>1. DOMAIN dies' = 1..next
      BY <2>1
    <3> QED BY <3>1, <1>3, FS_Interval DEF Issued
  <2>4. CASE FlightEnds(c, 0)
    <3>1. Known' /\ OneFlight' /\ Performed' /\ \A d \in Request : Inside(d)' => Inside(d) /\ d # c /\ request'[d] = request[d]
      <4>1. 0 \in 0..Issued' /\ Issued' \in Nat /\ Issued <= Issued' /\ dies' \in [1..Issued' -> Nat]
        BY <1>3, <2>2, <2>3
      <4>2. store'.token \in 0..Issued' /\ store'.until \in Int
        BY <1>1, <1>3, <2>3 DEF Known
      <4> QED BY <1>1, <2>4, <4>1, <4>2, FlightOver
    <3>2. MintsEmpty' /\ CacheIsNewest'
      BY <1>1, <1>2, <3>1 DEF MintsEmpty, CacheIsNewest, Alone, OneFlight, Inside
    <3> QED BY <3>1, <3>2
  <2>5. CASE request' = [request EXCEPT ![c].at = "keep", ![c].token = next] /\ UNCHANGED minting
    <3>1. Moved(c, "keep", next, request[c].refused, request[c].sent, request[c].done, request[c].lost)
      BY <2>3, <2>5, KeepMoves DEF Known
    <3>2. Known'
      <4>1. \A d \in Request : request'[d].token \in 0..Issued' /\ (request'[d].at = "keep" => request'[d].token # 0)
        BY <2>3, <3>1, <1>3 DEF Known, Moved
      <4>2. \A d \in Request : request'[d].refused \in 0..1 /\ request'[d].sent \in 0..HTTPMaxAttempts
        BY <3>1 DEF Known, Moved
      <4>3. \A d \in Request : request'[d].at = "send" =>
              IF provider' = "anchor" THEN request'[d].sent < HTTPMaxAttempts ELSE request'[d].sent = 0
        BY <1>1, <3>1 DEF Known, Moved
      <4>4. store'.token \in 0..Issued'
        BY <1>1, <1>3, <2>3 DEF Known
      <4>5. request' \in [Request -> RequestForms] /\ hour' \in Nat /\ minting' \in [Replica -> BOOLEAN]
            /\ home' \in [Request -> Replica] /\ store'.until \in Int
        BY <1>1, <2>5, <3>1 DEF Known, Moved
      <4> QED BY <2>2, <2>3, <4>1, <4>2, <4>3, <4>4, <4>5 DEF Known
    <3>3. OneFlight'
      BY <1>1, <2>5, <3>1 DEF OneFlight, Moved, Inside, SharesStore
    <3>4. Performed'
      BY <1>1, <3>1 DEF Performed, Moved
    <3>5. MintsEmpty' /\ CacheIsNewest'
      BY <1>1, <1>2, <2>3, <3>1 DEF MintsEmpty, CacheIsNewest, Alone, OneFlight,
         Inside, Moved
    <3> QED BY <3>2, <3>3, <3>4, <3>5
  <2> QED BY <1>5, <2>4, <2>5 DEF Issue, Issued
<1> QED BY <1>4, <1>5

LEMMA KeepStep == ASSUME CredentialsInv, NEW c \in Request, KeepToken(c) PROVE CredentialsInv'
<1> USE DEF CredentialsInv
<1>1. Inside(c) /\ UNCHANGED <<provider, home, dies, hour>> /\ request[c].at = "keep" /\ Issued' = Issued
  BY DEF KeepToken, Inside, Issued
<1>2. Issued \in Nat /\ request[c].token \in 0..Issued /\ 0 \in 0..Issued /\ store.token \in 0..Issued
      /\ dies' \in [1..Issued' -> Nat] /\ store.until \in Int
  BY <1>1 DEF Known
<1>3. CASE UNCHANGED store /\ FlightEnds(c, 0)
  <2>1. Known' /\ OneFlight' /\ Performed' /\ \A d \in Request : Inside(d)' => Inside(d) /\ d # c /\ request'[d] = request[d]
    BY <1>1, <1>2, <1>3, FlightOver
  <2>2. MintsEmpty' /\ CacheIsNewest'
    BY <1>1, <1>3, <2>1 DEF MintsEmpty, CacheIsNewest, Alone, OneFlight, Inside, Cached
  <2> QED BY <2>1, <2>2
<1>4. CASE /\ store' = [token |-> request[c].token, until |-> tokenExpiry(request[c].token) - Margin]
           /\ FlightEnds(c, request[c].token)
  <2>1. store'.token = request[c].token /\ store'.until = tokenExpiry(request[c].token) - Margin
    BY <1>4
  <2>2. store'.until \in Int
    <3>1. request[c].token \in 1..Issued /\ dies \in [1..Issued -> Nat] /\ hour \in Nat /\ Margin \in Nat /\ Life \in Nat
      BY <1>1, <1>2, CredentialsAssumption DEF Known
    <3>2. tokenExpiry(request[c].token) \in Nat
      BY <3>1 DEF tokenExpiry
    <3> QED BY <2>1, <3>1, <3>2
  <2>3. Known' /\ OneFlight' /\ Performed' /\ \A d \in Request : Inside(d)' => Inside(d) /\ d # c /\ request'[d] = request[d]
    BY <1>1, <1>2, <1>4, <2>1, <2>2, FlightOver
  <2>4. Alone => request[c].token = Issued
    BY <1>1 DEF MintsEmpty
  <2>5. MintsEmpty' /\ CacheIsNewest'
    BY <1>1, <2>1, <2>3, <2>4 DEF MintsEmpty, CacheIsNewest, Alone, OneFlight, Inside,
       Issued
  <2> QED BY <2>3, <2>5
<1> QED BY <1>3, <1>4 DEF KeepToken

LEMMA AttemptStep ==
  ASSUME CredentialsInv, NEW c \in Request, Attempt(c) \/ doHTTPWithRetry(c)
  PROVE  CredentialsInv'
<1> USE DEF CredentialsInv
<1>1. request[c].at = "send" /\ UNCHANGED Books /\ UNCHANGED minting
  BY DEF Attempt, doHTTPWithRetry, Books
<1>2. request \in [Request -> RequestForms] /\ request[c].token \in 0..Issued /\ request[c].refused \in 0..1
      /\ request[c].sent \in 0..HTTPMaxAttempts /\ store.token \in 0..Issued /\ store.until \in Int
      /\ minting' \in [Replica -> BOOLEAN] /\ request[c].done \in Nat
  BY <1>1 DEF Known, RequestForms
<1>3. UNCHANGED <<provider, home, dies, hour>> /\ store' = store
  BY <1>1 DEF Books
<1>a. ~request[c].lost => request[c].done = 0
  BY <1>1, <1>2 DEF Performed
<1>b. provider # "anchor" => request[c].done = 0 /\ request[c].sent = 0
  <2>1. provider # "anchor" => request[c].sent = 0
    BY <1>1 DEF Known
  <2>2. provider # "anchor" => request[c].done = 0
    BY <1>1, <1>2 DEF Performed
  <2> QED BY <2>1, <2>2
<1>c. provider = "anchor" => request[c].sent < HTTPMaxAttempts
  BY <1>1 DEF Known
<1>4. CASE request' = [request EXCEPT ![c].at = "served", ![c].done = @ + 1]
  <2>1. Moved(c, "served", request[c].token, request[c].refused, request[c].sent, request[c].done + 1, request[c].lost)
    BY <1>2, <1>4, ServedMoves
  <2>2. Known'
    BY <1>2, <1>3, <2>1, KnownStays
  <2>3. OneFlight'
    BY <1>1, <2>1 DEF OneFlight, Moved, Books, Inside, SharesStore
  <2>4. Performed'
    BY <1>2, <1>3, <1>a, <1>b, <2>1 DEF Performed, Moved
  <2>5. MintsEmpty' /\ CacheIsNewest'
    BY <1>1, <2>1 DEF MintsEmpty, CacheIsNewest, Moved, Books, Alone, Cached, Issued
  <2> QED BY <2>2, <2>3, <2>4, <2>5
<1>5. CASE StepsTo(c, "refused")
  <2>1. Moved(c, "refused", request[c].token, request[c].refused, request[c].sent, request[c].done, request[c].lost)
    BY <1>2, <1>5, StepMoves
  <2>2. Known'
    BY <1>2, <1>3, <2>1, KnownStays
  <2>3. OneFlight'
    BY <1>1, <2>1 DEF OneFlight, Moved, Books, Inside, SharesStore
  <2>4. Performed'
    BY <1>2, <1>3, <1>a, <1>b, <2>1 DEF Performed, Moved
  <2>5. MintsEmpty' /\ CacheIsNewest'
    BY <1>1, <2>1 DEF MintsEmpty, CacheIsNewest, Moved, Books, Alone, Cached, Issued
  <2> QED BY <2>2, <2>3, <2>4, <2>5
<1>6. ASSUME NEW at \in {"send", "failed"}, Broken(c, at),
             at = "send" => provider = "anchor" /\ request[c].sent + 1 < HTTPMaxAttempts
      PROVE  CredentialsInv'
  <2>1. PICK turn \in RequestForms : Turns(c, turn) /\ Breaks(c, at, turn)
    BY <1>2, <1>6, BrokenTurns
  <2> DEFINE done == turn.done
  <2>2. Moved(c, at, request[c].token, request[c].refused, request[c].sent + 1, done, turn.lost) /\ turn.lost
    BY <2>1 DEF Turns, Breaks, Moved
  <2>3. done \in {request[c].done, request[c].done + 1}
    BY <2>1 DEF Breaks
  <2>a. request[c].sent + 1 \in 0..HTTPMaxAttempts
    BY <1>2, <1>b, <1>c DEF HTTPMaxAttempts
  <2> HIDE DEF done
  <2>4. Known'
    BY <1>2, <1>3, <1>6, <2>2, <2>a, KnownStays
  <2>5. OneFlight'
    BY <1>1, <2>2 DEF OneFlight, Moved, Books, Inside, SharesStore
  <2>6. Performed'
    <3>1. request'[c].lost /\ request'[c].at = at /\ request'[c].done = done /\ done \in Nat
      BY <1>2, <2>2, <2>3 DEF Moved
    <3>2. provider # "anchor" /\ done > 0 => at = "failed" /\ done = 1
      BY <1>2, <1>6, <1>b, <2>3
    <3>3. \A d \in Request : d # c => request'[d] = request[d]
      BY <2>2 DEF Moved
    <3> QED BY <1>3, <3>1, <3>2, <3>3 DEF Performed
  <2>7. MintsEmpty' /\ CacheIsNewest'
    BY <1>1, <2>2 DEF MintsEmpty, CacheIsNewest, Moved, Books, Alone, Cached, Issued
  <2> QED BY <2>4, <2>5, <2>6, <2>7
<1>7. CASE Attempt(c)
  BY <1>4, <1>5, <1>6, <1>7 DEF Attempt, Answered
<1>8. CASE doHTTPWithRetry(c)
  BY <1>4, <1>5, <1>6, <1>8 DEF doHTTPWithRetry, Answered
<1> QED BY <1>7, <1>8

LEMMA RefusalStep ==
  ASSUME CredentialsInv, NEW c \in Request, EvictToken(c) \/ Invalidate(c) \/ InvalidateJWT(c)
  PROVE  CredentialsInv'
<1> USE DEF CredentialsInv
<1>1. request[c].at = "refused" /\ UNCHANGED <<provider, home, dies, hour>> /\ UNCHANGED minting
      /\ (store' = NoToken \/ store' = store)
  BY DEF EvictToken, Invalidate, InvalidateJWT
<1>2. request \in [Request -> RequestForms] /\ request[c].token \in 0..Issued /\ request[c].refused \in 0..1
      /\ request[c].sent \in 0..HTTPMaxAttempts /\ minting' \in [Replica -> BOOLEAN] /\ request[c].done \in Nat
  BY <1>1 DEF Known, RequestForms
<1>3. store'.token \in 0..Issued /\ store'.until \in Int /\ (Cached' => Cached /\ store' = store) /\ Issued' = Issued
  BY <1>1 DEF Known, NoToken, Cached, Issued
<1>4. ASSUME NEW at \in {"ask", "rejected"}, NEW refused \in 0..1,
             Moved(c, at, request[c].token, refused, request[c].sent, request[c].done, request[c].lost)
      PROVE  CredentialsInv'
  <2>2. Known'
    BY <1>1, <1>2, <1>3, <1>4, KnownStays
  <2>3. OneFlight'
    BY <1>1, <1>4 DEF OneFlight, Moved, Inside, SharesStore
  <2>4. Performed'
    BY <1>1, <1>2, <1>4 DEF Performed, Moved
  <2>5. MintsEmpty' /\ CacheIsNewest'
    BY <1>1, <1>3, <1>4 DEF MintsEmpty, CacheIsNewest, Moved, Alone, Issued
  <2> QED BY <2>2, <2>3, <2>4, <2>5
<1>5. CASE StepsTo(c, "rejected")
  BY <1>2, <1>4, <1>5, StepMoves
<1>6. CASE request' = [request EXCEPT ![c].at = "ask", ![c].refused = 1]
  <2>1. 1 \in 0..1 /\ "ask" \in {"ask", "rejected"}
    OBVIOUS
  <2>2. Moved(c, "ask", request[c].token, 1, request[c].sent, request[c].done, request[c].lost)
    BY <1>2, <1>6, RefusedMoves
  <2> QED BY <1>4, <2>1, <2>2
<1> QED BY <1>5, <1>6 DEF EvictToken, Invalidate, InvalidateJWT

LEMMA TimeStep == CredentialsInv /\ TimePasses => CredentialsInv'
<1> SUFFICES ASSUME CredentialsInv, TimePasses PROVE CredentialsInv'
  OBVIOUS
<1> USE DEF CredentialsInv, TimePasses
<1>1. Known' /\ OneFlight' /\ Performed'
  BY DEF Known, OneFlight, Performed, Inside, SharesStore, Issued
<1>2. Cached' => Cached
  BY DEF Cached, Known
<1>3. MintsEmpty' /\ CacheIsNewest'
  BY <1>2 DEF MintsEmpty, CacheIsNewest, Alone, Issued
<1> QED BY <1>1, <1>3

LEMMA CredStep == CredentialsInv /\ [CredentialsNext]_credVars => CredentialsInv'
<1> SUFFICES ASSUME CredentialsInv, [CredentialsNext]_credVars PROVE CredentialsInv'
  OBVIOUS
<1>1. CASE UNCHANGED credVars
  BY <1>1 DEF credVars, CredentialsInv, Known, OneFlight, Performed, MintsEmpty,
     CacheIsNewest,
     Inside, SharesStore, Issued, Alone, Cached
<1>2. CASE TimePasses
  BY <1>2, TimeStep
<1> QED
  BY <1>1, <1>2, LooksStep, JoinStep, LookAgainStep, IssueStep, KeepStep, AttemptStep,
     RefusalStep
     DEF CredentialsNext, MintToken, FetchToken, Authenticate

\* No request is performed twice but at the anchor, after an answer was missed, and a
\* process that works alone never uses a token the provider has replaced (mpesa.go,
\* airtel.go, moneygram, anchor): for any number of calls, replicas and mints.
THEOREM CredentialsStaySound == CredentialsInit /\ [][CredentialsNext]_credVars => [](CredentialsTypeOK /\ CredentialsSound)
<1>1. CredentialsInv => CredentialsTypeOK
  <2> SUFFICES ASSUME CredentialsInv PROVE CredentialsTypeOK
    OBVIOUS
  <2>1. DOMAIN dies = 1..Issued /\ Issued \in Nat
    BY DEF CredentialsInv, Known
  <2>2. \A t \in 0..Issued : t \in {0} \cup DOMAIN dies
    BY <2>1
  <2>3. \A c \in Request : request[c].token \in 0..Issued
    BY DEF CredentialsInv, Known
  <2>4. store.token \in 0..Issued
    BY DEF CredentialsInv, Known
  <2>5. \A c \in Request : request[c].at \in {"wait", "look"} => minting[home[c]]
    BY DEF CredentialsInv, OneFlight, Inside, SharesStore
  <2>6. \A c \in Request : request[c].refused \in 0..1 /\ request[c].sent \in 0..HTTPMaxAttempts
    BY DEF CredentialsInv, Known
  <2> QED BY <2>2, <2>3, <2>4, <2>5, <2>6 DEF CredentialsTypeOK
<1>2. CredentialsInv => CredentialsSound
  BY DEF CredentialsInv, Known, Performed, CredentialsSound, PerformedOnce
<1> QED
  BY CredInit, CredStep, <1>1, <1>2, PTL

-----------------------------------------------------------------------------
(* The dialogue (Ussd) *)

SessionForms == [menu : Menus, user : BOOLEAN, data : SUBSET Keys]
Turn == [s : SessionForms, in : Inputs, facts : SUBSET Facts]

\* A PIN reset in progress was earned up to where it is.
Recovering == {"pin_recovery_q1", "pin_recovery_q2", "pin_recovery_new", "pin_recovery_confirm"}
EarnedSoFar(s, known) ==
  /\ s.menu \in Recovering => "id_matched" \in known
  /\ s.menu \in {"pin_recovery_new", "pin_recovery_confirm"} =>
       "answered" \in known \/ "unasked" \in known

Disclosed(known) == "terms" \in known \/ "no_policy" \in known \/ "repeated" \in known
Unseen(known) == "overlapped" \in known \/ "unsaved" \in known

\* What a handler finds in the session, and what happened before that menu.
Holds(s) == s \in SessionForms /\ Needs(s) \subseteq s.data
InOrder(s, o, known) ==
  /\ Holds(s) /\ EarnedSoFar(s, known)
  /\ s.menu = "loan_confirm" \/ (s.menu = "loan_terms" /\ o) => Disclosed(known)
  /\ "started" \in known /\ s.menu \in {"repay_rail", "repay_mobile"} =>
       "repay_open" \in s.data \/ Unseen(known)

\* The facts of a session: what the properties ask, and a request ends the session.
FactsHold(o, known) ==
  /\ known \in SUBSET Facts
  /\ "reset" \in known => "id_matched" \in known /\ ("answered" \in known \/ "unasked" \in known)
  /\ "submitted" \in known => Disclosed(known) /\ (~o \/ "repeated" \in known)
  /\ "started_twice" \in known => Unseen(known)

\* Facts that stay until the borrower dials again.
Lasting == {"id_matched", "answered", "unasked", "repeated", "overlapped", "unsaved", "reset", "submitted"}

DialogueInv ==
  /\ open \in BOOLEAN /\ registered \in BOOLEAN
  /\ repeats \in 0..MaxTroubles /\ lost \in 0..(MaxTroubles - repeats)
  /\ Holds(session) /\ FactsHold(open, facts)
  /\ open \/ last # "none" => InOrder(session, open, facts)
  /\ last \in Inputs \cup {"none"}
  /\ last # "none" => Holds(prev) /\ EarnedSoFar(prev, facts)

\* A turn t may begin: on the session, or on what a repeat beside it read.
MayBegin(t) ==
  /\ t \in Turn /\ InOrder(t.s, TRUE, t.facts) /\ FactsHold(TRUE, t.facts)
  /\ InOrder(session, TRUE, t.facts)
  /\ t.s = session \/ ("repeated" \in t.facts /\ "overlapped" \in t.facts)

\* What a turn leaves.
Kept(t) ==
  /\ open' \in BOOLEAN
  /\ InOrder(session', open', facts') /\ FactsHold(open', facts')
  /\ t.facts \cap Lasting \subseteq facts'
  /\ lost' = lost \/ (lost' = lost + 1 /\ repeats' + lost < MaxTroubles)

LEMMA EditsHold ==
  ASSUME NEW s \in SessionForms, NEW menu \in Menus, NEW adds \in SUBSET Keys, NEW drops
  PROVE  /\ Edit(s, menu, adds, drops) \in SessionForms
         /\ Edit(s, menu, adds, drops).data = (s.data \ drops) \cup adds
<1> DEFINE d == (s.data \ drops) \cup adds
           q == [s EXCEPT !.menu = menu]
<1>1. d \in SUBSET Keys
  BY DEF SessionForms
<1>2. Edit(s, menu, adds, drops) = [q EXCEPT !.data = d]
  BY Zenon DEF Edit
<1>3. q \in SessionForms
  BY Zenon DEF SessionForms
<1> HIDE DEF d, q
<1>4. [q EXCEPT !.data = d] \in SessionForms /\ [q EXCEPT !.data = d].data = d
  BY <1>1, <1>3, Zenon DEF SessionForms
<1> QED  BY <1>2, <1>4, Zenon DEF d

LEMMA EditsTyped ==
  ASSUME NEW s \in SessionForms, NEW menu \in Menus, NEW adds \in SUBSET Keys, NEW drops
  PROVE  Edit(s, menu, adds, drops) \in SessionForms
BY EditsHold, Zenon

LEMMA EditsData ==
  ASSUME NEW s \in SessionForms, NEW menu \in Menus, NEW adds \in SUBSET Keys, NEW drops
  PROVE  Edit(s, menu, adds, drops).data = (s.data \ drops) \cup adds
BY EditsHold

LEMMA EditsAre ==
  ASSUME NEW s \in SessionForms, NEW menu \in Menus, NEW adds, NEW drops
  PROVE  Edit(s, menu, adds, drops).menu = menu
<1> DEFINE d == (s.data \ drops) \cup adds
<1>2. Edit(s, menu, adds, drops) = [s EXCEPT !.menu = menu, !.data = d]
  BY Zenon DEF Edit
<1> HIDE DEF d
<1> QED  BY <1>2, Zenon DEF SessionForms

LEMMA MenusAre ==
  ASSUME NEW s \in SessionForms, NEW menu \in Menus
  PROVE  /\ [s EXCEPT !.menu = menu] \in SessionForms
         /\ [s EXCEPT !.menu = menu].menu = menu
         /\ [s EXCEPT !.menu = menu].user = s.user
         /\ [s EXCEPT !.menu = menu].data = s.data
BY Zenon DEF SessionForms

\* A save that works or fails keeps what the session saved and the one before it keep.
LEMMA SaveKeeps ==
  ASSUME NEW t, MayBegin(t), NEW s, NEW stays \in BOOLEAN, NEW known \in SUBSET Facts,
         Save(t, s, stays, known),
         InOrder(s, stays, known), FactsHold(stays, known),
         t.facts \cap Lasting \subseteq known,
         InOrder(session, FALSE, known \cup {"unsaved"}), FactsHold(FALSE, known \cup {"unsaved"})
  PROVE  Kept(t)
<1>1. CASE session' = s /\ open' = stays /\ facts' = known /\ UNCHANGED lost
  BY <1>1 DEF Kept
<1>2. CASE /\ repeats' + lost < MaxTroubles /\ lost' = lost + 1
           /\ open' = FALSE /\ facts' = known \cup {"unsaved"} /\ UNCHANGED session
  BY <1>2 DEF Kept
<1> QED  BY <1>1, <1>2 DEF Save

\* Needs, as what a menu asks of the session's data.
HasKeys(menu, d) ==
  /\ menu = "register_national_id" => "full_name" \in d
  /\ menu = "recover_offer" => "full_name" \in d /\ "recover_national_id" \in d
  /\ menu = "recover_sim_q1" => "recover_user" \in d
  /\ menu = "recover_sim_q2" => "recover_user" \in d /\ "recover_sq1_answer" \in d
  /\ menu = "pin_create" /\ "set_pin_only" \notin d => "full_name" \in d /\ "national_id" \in d
  /\ menu = "pin_confirm" /\ "set_pin_only" \notin d => "full_name" \in d /\ "national_id" \in d
  /\ menu = "pin_confirm" => "new_pin" \in d
  /\ menu = "security_q1_answer" => "sq1_id" \in d
  /\ menu = "security_q2_select" => "sq1_id" \in d /\ "sq1_answer" \in d
  /\ menu = "security_q2_answer" => "sq1_id" \in d /\ "sq1_answer" \in d /\ "sq2_id" \in d
  /\ menu = "pin_change_new" => "old_pin" \in d
  /\ menu = "pin_change_confirm" => "old_pin" \in d /\ "new_pin" \in d
  /\ menu = "pin_recovery_q1" => "recovery_q" \in d
  /\ menu = "pin_recovery_q2" => "recovery_q" \in d /\ "recovery_a1" \in d
  /\ menu = "pin_recovery_confirm" => "recovery_new_pin" \in d
  /\ menu = "payout_method" => "loan_amount" \in d
  /\ menu \in {"loan_terms", "loan_confirm"} => "loan_amount" \in d /\ "payout_method" \in d
  /\ menu \in {"repay_rail", "repay_mobile"} => "repay_loan" \in d
  /\ menu = "bio_edit" => "bio_field" \in d

LEMMA HasKeysIs ==
  ASSUME NEW s \in SessionForms
  PROVE  Needs(s) \subseteq s.data <=> HasKeys(s.menu, s.data)
<1> DEFINE m == s.menu
           d == s.data
<1>1. m \in Menus
  BY DEF SessionForms
<1>2. Needs(s) = CASE m = "register_national_id" -> {"full_name"}
    [] m = "recover_offer" -> {"full_name", "recover_national_id"}
    [] m = "recover_sim_q1" -> {"recover_user"}
    [] m = "recover_sim_q2" -> {"recover_user", "recover_sq1_answer"}
    [] m = "pin_create" /\ "set_pin_only" \notin d -> {"full_name", "national_id"}
    [] m = "pin_confirm" /\ "set_pin_only" \notin d
         -> {"full_name", "national_id", "new_pin"}
    [] m = "pin_confirm" /\ "set_pin_only" \in d -> {"new_pin"}
    [] m = "security_q1_answer" -> {"sq1_id"}
    [] m = "security_q2_select" -> {"sq1_id", "sq1_answer"}
    [] m = "security_q2_answer" -> {"sq1_id", "sq1_answer", "sq2_id"}
    [] m = "pin_change_new" -> {"old_pin"}
    [] m = "pin_change_confirm" -> {"old_pin", "new_pin"}
    [] m = "pin_recovery_q1" -> {"recovery_q"}
    [] m = "pin_recovery_q2" -> {"recovery_q", "recovery_a1"}
    [] m = "pin_recovery_confirm" -> {"recovery_new_pin"}
    [] m = "payout_method" -> {"loan_amount"}
    [] m \in {"loan_terms", "loan_confirm"} -> {"loan_amount", "payout_method"}
    [] m \in {"repay_rail", "repay_mobile"} -> {"repay_loan"}
    [] m = "bio_edit" -> {"bio_field"}
    [] OTHER -> {}
  BY Zenon DEF Needs
<1> HIDE DEF m, d
<1> QED  BY <1>2, SMTT(60) DEF HasKeys, m, d

Guarded == Recovering \cup {"loan_terms", "loan_confirm", "repay_rail", "repay_mobile"}

\* The session the last turn kept survives an answer that is not saved.
LEMMA Unsaved ==
  ASSUME NEW t, MayBegin(t)
  PROVE  /\ InOrder(session, FALSE, t.facts \cup {"unsaved"}) /\ FactsHold(FALSE, t.facts \cup {"unsaved"})
         /\ t.facts \in SUBSET Facts /\ t.s \in SessionForms /\ t.in \in Inputs
         /\ HasKeys(t.s.menu, t.s.data) /\ t.s.menu \in Menus
<1>1. t.facts \in SUBSET Facts /\ t.s \in SessionForms /\ t.in \in Inputs /\ t.s.menu \in Menus
  BY DEF MayBegin, Turn, SessionForms
<1>2. HasKeys(t.s.menu, t.s.data)
  BY <1>1, HasKeysIs DEF MayBegin, InOrder, Holds
<1>3. InOrder(session, FALSE, t.facts \cup {"unsaved"})
  BY DEF MayBegin, InOrder, EarnedSoFar, Disclosed, Unseen
<1>4. FactsHold(FALSE, t.facts \cup {"unsaved"})
  BY <1>1 DEF MayBegin, FactsHold, Disclosed, Unseen, Facts
<1> QED  BY <1>1, <1>2, <1>3, <1>4

LEMMA StaysKeeps ==
  ASSUME NEW t, MayBegin(t), Stays(t)
  PROVE  Kept(t)
BY DEF Stays, MayBegin, Kept

LEMMA EndsKeeps ==
  ASSUME NEW t, MayBegin(t), Ends(t)
  PROVE  Kept(t)
BY DEF Ends, MayBegin, Kept, InOrder, FactsHold

\* To save a session on a menu nothing guards, with the facts as they are.
LEMMA PlainSave ==
  ASSUME NEW t, MayBegin(t), NEW s \in SessionForms, NEW stays \in BOOLEAN,
         Save(t, s, stays, t.facts),
         s.menu \notin Guarded, HasKeys(s.menu, s.data)
  PROVE  Kept(t)
<1>1. t.facts \in SUBSET Facts
  BY Unsaved
<1>2. InOrder(s, stays, t.facts)
  BY HasKeysIs DEF InOrder, Holds, EarnedSoFar, Guarded, Recovering
<1>3. FactsHold(stays, t.facts)
  BY DEF MayBegin, FactsHold
<1> QED  BY <1>1, <1>2, <1>3, SaveKeeps, Unsaved

LEMMA PlainEdit ==
  ASSUME NEW t, MayBegin(t), NEW menu \in Menus \ Guarded, NEW adds \in SUBSET Keys, NEW drops,
         NEW stays \in BOOLEAN, Save(t, Edit(t.s, menu, adds, drops), stays, t.facts),
         HasKeys(menu, (t.s.data \ drops) \cup adds)
  PROVE  Kept(t)
<1> DEFINE e == Edit(t.s, menu, adds, drops)
<1>0. t.s \in SessionForms /\ menu \in Menus
  BY Unsaved
<1>1. e \in SessionForms /\ e.menu = menu /\ e.data = (t.s.data \ drops) \cup adds
  BY <1>0, EditsAre, EditsHold
<1>2. Save(t, e, stays, t.facts)
  OBVIOUS
<1> HIDE DEF e
<1> QED  BY <1>1, <1>2, PlainSave

LEMMA PlainGoes ==
  ASSUME NEW t, MayBegin(t), NEW menu \in Menus \ Guarded, NEW adds \in SUBSET Keys, NEW drops,
         Goes(t, menu, adds, drops), HasKeys(menu, (t.s.data \ drops) \cup adds)
  PROVE  Kept(t)
BY PlainEdit DEF Goes


\* A menu the handlers of this part leave to a menu nothing guards.
LEMMA AccountKeeps ==
  ASSUME NEW t, MayBegin(t),
         \/ handleMyLoans(t) \/ handleMyAccount(t) \/ handleMyDetails(t) \/ handleBioEdit(t)
         \/ handleLanguageSelect(t)
  PROVE  Kept(t)
BY StaysKeeps, EndsKeeps, PlainGoes, Unsaved
   DEF handleMyLoans, handleMyAccount, handleMyDetails, handleBioEdit, handleLanguageSelect,
       HasKeys, Guarded, Recovering, Menus, Keys

LEMMA RegistrationKeeps ==
  ASSUME NEW t, MayBegin(t),
         \/ handleRegistration(t) \/ handleRegistrationNationalID(t) \/ handleRecoverOffer(t)
         \/ handleRecoverSimQ1(t) \/ handlePINCreate(t)
  PROVE  Kept(t)
<1> USE DEF HasKeys, Guarded, Recovering, Menus, Keys
<1>1. CASE handleRegistration(t)
  BY <1>1, StaysKeeps, PlainGoes, Unsaved DEF handleRegistration
<1>2. CASE handleRegistrationNationalID(t)
  BY <1>2, StaysKeeps, EndsKeeps, PlainGoes, Unsaved DEF handleRegistrationNationalID
<1>3. CASE handleRecoverOffer(t)
  BY <1>3, StaysKeeps, EndsKeeps, PlainGoes, Unsaved DEF handleRecoverOffer
<1>4. CASE handleRecoverSimQ1(t)
  BY <1>4, StaysKeeps, PlainGoes, Unsaved DEF handleRecoverSimQ1
<1>5. CASE handlePINCreate(t)
  BY <1>5, StaysKeeps, PlainGoes, Unsaved DEF handlePINCreate
<1> QED  BY <1>1, <1>2, <1>3, <1>4, <1>5

LEMMA SignedInKeeps ==
  ASSUME NEW t, MayBegin(t), NEW drops, SignedIn(t, drops)
  PROVE  Kept(t) /\ registered' = TRUE
<1> DEFINE e == Edit(t.s, "main", {}, drops)
           s == [e EXCEPT !.user = TRUE]
<1>0. t.s \in SessionForms /\ "main" \in Menus /\ {} \in SUBSET Keys
  BY Unsaved DEF Menus
<1>1. e \in SessionForms /\ e.menu = "main"
  <2>1. e \in SessionForms
    BY <1>0, EditsHold
  <2>2. e.menu = "main"
    BY <1>0, EditsAre
  <2> QED  BY <2>1, <2>2
<1> HIDE DEF e
<1>2. s \in SessionForms /\ s.menu = e.menu /\ s.data = e.data
  BY <1>1, Zenon DEF SessionForms
<1>3. Save(t, s, FALSE, t.facts) /\ registered' = TRUE
  BY Zenon DEF SignedIn, e
<1> HIDE DEF s
<1> QED  BY <1>1, <1>2, <1>3, PlainSave DEF HasKeys, Guarded, Recovering

LEMMA RegisteredKeeps ==
  ASSUME NEW t, MayBegin(t), registered \in BOOLEAN, handleRecoverSimQ2(t) \/ handlePINConfirm(t)
  PROVE  Kept(t) /\ registered' \in BOOLEAN
<1> USE DEF HasKeys, Guarded, Recovering, Menus, Keys
<1>1. CASE handleRecoverSimQ2(t)
  BY <1>1, EndsKeeps, SignedInKeeps DEF handleRecoverSimQ2
<1>2. CASE handlePINConfirm(t)
  <2>1. Ends(t) \/ Goes(t, "pin_create", {}, {"new_pin"}) => Kept(t)
    BY <1>2, EndsKeeps, PlainGoes, Unsaved DEF handlePINConfirm
  <2>2. Save(t, Edit(t.s, "main", {}, {"new_pin", "set_pin_only"}), FALSE, t.facts) => Kept(t)
    BY PlainEdit, Unsaved
  <2> QED  BY <1>2, <2>1, <2>2, SignedInKeeps DEF handlePINConfirm
<1> QED  BY <1>1, <1>2

LEMMA PINKeeps ==
  ASSUME NEW t, MayBegin(t),
         \/ handlePINManager(t) \/ handleSecurityQ1Select(t) \/ handleSecurityQ1Answer(t)
         \/ handleSecurityQ2Select(t) \/ handleSecurityQ2Answer(t) \/ handlePINChangeOld(t)
         \/ handlePINChangeNew(t) \/ handlePINChangeConfirm(t)
  PROVE  Kept(t)
<1> USE DEF HasKeys, Guarded, Recovering, Menus, Keys
<1>1. CASE handlePINManager(t)
  BY <1>1, StaysKeeps, PlainGoes, Unsaved DEF handlePINManager
<1>2. CASE handleSecurityQ1Select(t) \/ handleSecurityQ1Answer(t) \/ handleSecurityQ2Select(t)
  BY <1>2, StaysKeeps, PlainGoes, Unsaved
     DEF handleSecurityQ1Select, handleSecurityQ1Answer, handleSecurityQ2Select
<1>3. CASE handleSecurityQ2Answer(t)
  BY <1>3, StaysKeeps, EndsKeeps, PlainEdit, Unsaved DEF handleSecurityQ2Answer
<1>4. CASE handlePINChangeOld(t) \/ handlePINChangeNew(t)
  BY <1>4, StaysKeeps, EndsKeeps, PlainGoes, Unsaved DEF handlePINChangeOld, handlePINChangeNew
<1>5. CASE handlePINChangeConfirm(t)
  BY <1>5, EndsKeeps, PlainGoes, Unsaved DEF handlePINChangeConfirm
<1> QED  BY <1>1, <1>2, <1>3, <1>4, <1>5

-----------------------------------------------------------------------------

\* To save an edit with the facts it needs added to those known.
LEMMA EditWith ==
  ASSUME NEW t, MayBegin(t), NEW menu \in Menus, NEW adds \in SUBSET Keys, NEW drops,
         NEW stays \in BOOLEAN, NEW known \in SUBSET Facts,
         Save(t, Edit(t.s, menu, adds, drops), stays, known),
         t.facts \subseteq known,
         known \cap {"reset", "submitted", "started_twice", "started"} \subseteq t.facts,
         HasKeys(menu, (t.s.data \ drops) \cup adds),
         menu \notin {"repay_rail", "repay_mobile"},
         menu \in Recovering => "id_matched" \in known,
         menu \in {"pin_recovery_new", "pin_recovery_confirm"} =>
           "answered" \in known \/ "unasked" \in known,
         menu = "loan_confirm" \/ (menu = "loan_terms" /\ stays) => Disclosed(known)
  PROVE  Kept(t)
<1> DEFINE e == Edit(t.s, menu, adds, drops)
<1>0. t.s \in SessionForms
  BY Unsaved
<1>1. e \in SessionForms /\ e.menu = menu /\ e.data = (t.s.data \ drops) \cup adds
  BY <1>0, EditsAre, EditsHold
<1>2. Save(t, e, stays, known)
  OBVIOUS
<1> HIDE DEF e
<1>3. InOrder(e, stays, known)
  BY <1>1, HasKeysIs DEF InOrder, Holds, EarnedSoFar
<1>4. FactsHold(stays, known) /\ FactsHold(FALSE, known \cup {"unsaved"})
  BY <1>2 DEF MayBegin, FactsHold, Disclosed, Unseen, Facts
<1>5. InOrder(session, FALSE, known \cup {"unsaved"})
  BY DEF MayBegin, InOrder, EarnedSoFar, Disclosed, Unseen
<1> QED  BY <1>2, <1>3, <1>4, <1>5, SaveKeeps

LEMMA EarnedAre ==
  ASSUME NEW t, MayBegin(t)
  PROVE  /\ t.s.menu \in Recovering => "id_matched" \in t.facts
         /\ t.s.menu \in {"pin_recovery_new", "pin_recovery_confirm"} =>
              "answered" \in t.facts \/ "unasked" \in t.facts
BY DEF MayBegin, InOrder, EarnedSoFar

LEMMA RecoveryEdit ==
  ASSUME NEW t, MayBegin(t), NEW menu \in Recovering, NEW adds \in SUBSET Keys, NEW drops,
         NEW more \in SUBSET {"id_matched", "answered", "unasked"},
         Save(t, Edit(t.s, menu, adds, drops), TRUE, t.facts \cup more),
         HasKeys(menu, (t.s.data \ drops) \cup adds),
         "id_matched" \in t.facts \cup more,
         menu \in {"pin_recovery_new", "pin_recovery_confirm"} =>
           "answered" \in t.facts \cup more \/ "unasked" \in t.facts \cup more
  PROVE  Kept(t)
<1> DEFINE known == t.facts \cup more
<1>1. /\ known \in SUBSET Facts /\ t.facts \subseteq known
      /\ known \cap {"reset", "submitted", "started_twice", "started"} \subseteq t.facts
  BY Unsaved DEF Facts
<1>2. /\ menu \in Menus /\ menu \notin {"repay_rail", "repay_mobile"}
      /\ menu # "loan_confirm" /\ menu # "loan_terms"
  BY DEF Recovering, Menus
<1>3. Save(t, Edit(t.s, menu, adds, drops), TRUE, known)
  OBVIOUS
<1>4. /\ "id_matched" \in known
      /\ menu \in {"pin_recovery_new", "pin_recovery_confirm"} =>
           "answered" \in known \/ "unasked" \in known
  OBVIOUS
<1> HIDE DEF known
<1> QED  BY <1>1, <1>2, <1>3, <1>4, EditWith

LEMMA RecoveryKeeps ==
  ASSUME NEW t, MayBegin(t),
         \/ handlePINRecoveryNationalID(t) \/ handlePINRecoveryQ1(t) \/ handlePINRecoveryQ2(t)
         \/ handlePINRecoveryNew(t) \/ handlePINRecoveryConfirm(t)
  PROVE  Kept(t)
<1> DEFINE Reaches(menu, adds, drops, more) ==
             Save(t, Edit(t.s, menu, adds, drops), TRUE, t.facts \cup more)
<1>0. /\ t.facts \in SUBSET Facts /\ HasKeys(t.s.menu, t.s.data) /\ t.facts \cup {} = t.facts
      /\ \A menu, adds, drops : Goes(t, menu, adds, drops) <=> Reaches(menu, adds, drops, {})
  BY Unsaved DEF Goes
<1>k. /\ {"recovery_q"} \in SUBSET Keys /\ {"recovery_no_sq"} \in SUBSET Keys
      /\ {"recovery_a1"} \in SUBSET Keys /\ {"recovery_new_pin"} \in SUBSET Keys /\ {} \in SUBSET Keys
  BY DEF Keys
<1>m. /\ "pin_recovery_q1" \in Recovering /\ "pin_recovery_q2" \in Recovering
      /\ "pin_recovery_new" \in Recovering /\ "pin_recovery_confirm" \in Recovering
  BY DEF Recovering
<1>q. /\ Reaches("pin_recovery_q1", {"recovery_q"}, {}, {"id_matched"}) => Kept(t)
      /\ Reaches("pin_recovery_new", {"recovery_no_sq"}, {}, {"id_matched", "unasked"}) => Kept(t)
  <2>1. HasKeys("pin_recovery_q1", (t.s.data \ {}) \cup {"recovery_q"})
    BY DEF HasKeys
  <2>2. HasKeys("pin_recovery_new", (t.s.data \ {}) \cup {"recovery_no_sq"})
    BY DEF HasKeys
  <2> HIDE DEF Reaches
  <2>3. ASSUME NEW menu \in Recovering, NEW adds \in SUBSET Keys, NEW drops,
               NEW more \in SUBSET {"id_matched", "answered", "unasked"},
               Reaches(menu, adds, drops, more), HasKeys(menu, (t.s.data \ drops) \cup adds),
               "id_matched" \in more,
               menu \in {"pin_recovery_new", "pin_recovery_confirm"} => "unasked" \in more
        PROVE  Kept(t)
    BY <2>3, RecoveryEdit DEF Reaches
  <2>4. Reaches("pin_recovery_q1", {"recovery_q"}, {}, {"id_matched"}) => Kept(t)
    BY <1>k, <1>m, <2>1, <2>3
  <2>5. Reaches("pin_recovery_new", {"recovery_no_sq"}, {}, {"id_matched", "unasked"}) => Kept(t)
    BY <1>k, <1>m, <2>2, <2>3
  <2> QED  BY <2>4, <2>5
<1>r. /\ t.s.menu \in Recovering /\ Reaches("pin_recovery_q2", {"recovery_a1"}, {}, {})
           /\ t.s.menu = "pin_recovery_q1" => Kept(t)
      /\ t.s.menu \in Recovering /\ Reaches("pin_recovery_new", {}, {"recovery_a1"}, {"answered"}) => Kept(t)
      /\ t.s.menu \in {"pin_recovery_new", "pin_recovery_confirm"} =>
           /\ Reaches("pin_recovery_confirm", {"recovery_new_pin"}, {}, {}) => Kept(t)
           /\ Reaches("pin_recovery_new", {}, {"recovery_new_pin"}, {}) => Kept(t)
  <2>1. t.s.menu = "pin_recovery_q1" => HasKeys("pin_recovery_q2", (t.s.data \ {}) \cup {"recovery_a1"})
    BY <1>0 DEF HasKeys
  <2>2. /\ HasKeys("pin_recovery_new", (t.s.data \ {"recovery_a1"}) \cup {})
        /\ HasKeys("pin_recovery_new", (t.s.data \ {"recovery_new_pin"}) \cup {})
        /\ HasKeys("pin_recovery_confirm", (t.s.data \ {}) \cup {"recovery_new_pin"})
    BY DEF HasKeys
  <2>3. {"pin_recovery_new", "pin_recovery_confirm"} \subseteq Recovering
    BY DEF Recovering
  <2> HIDE DEF Reaches
  <2>4. ASSUME NEW menu \in Recovering, NEW adds \in SUBSET Keys, NEW drops,
               NEW more \in SUBSET {"id_matched", "answered", "unasked"},
               Reaches(menu, adds, drops, more), HasKeys(menu, (t.s.data \ drops) \cup adds),
               t.s.menu \in Recovering,
               menu \in {"pin_recovery_new", "pin_recovery_confirm"} =>
                 t.s.menu \in {"pin_recovery_new", "pin_recovery_confirm"} \/ "answered" \in more
        PROVE  Kept(t)
    BY <2>4, EarnedAre, RecoveryEdit DEF Reaches
  <2>5. t.s.menu \in Recovering /\ Reaches("pin_recovery_q2", {"recovery_a1"}, {}, {})
           /\ t.s.menu = "pin_recovery_q1" => Kept(t)
    BY <1>k, <1>m, <2>1, <2>4
  <2>6. t.s.menu \in Recovering /\ Reaches("pin_recovery_new", {}, {"recovery_a1"}, {"answered"}) => Kept(t)
    BY <1>k, <1>m, <2>2, <2>4
  <2>7. t.s.menu \in {"pin_recovery_new", "pin_recovery_confirm"} =>
           /\ Reaches("pin_recovery_confirm", {"recovery_new_pin"}, {}, {}) => Kept(t)
           /\ Reaches("pin_recovery_new", {}, {"recovery_new_pin"}, {}) => Kept(t)
    BY <1>k, <1>m, <2>2, <2>3, <2>4
  <2> QED  BY <2>5, <2>6, <2>7
<1> HIDE DEF Reaches
<1>1. CASE handlePINRecoveryNationalID(t)
  <2>1. (t.facts \cup {"id_matched"}) \cup {"unasked"} = t.facts \cup {"id_matched", "unasked"}
    OBVIOUS
  <2> QED  BY <1>1, <1>q, <2>1, EndsKeeps, Zenon DEF handlePINRecoveryNationalID, Reaches
<1>2. CASE handlePINRecoveryQ1(t)
  BY <1>0, <1>2, <1>m, <1>r DEF handlePINRecoveryQ1
<1>3. CASE handlePINRecoveryQ2(t)
  <2>1. t.s.menu \in Recovering
    BY <1>3, <1>m DEF handlePINRecoveryQ2
  <2> QED  BY <1>3, <1>r, <2>1, EndsKeeps, Zenon DEF handlePINRecoveryQ2, Reaches
<1>4. CASE handlePINRecoveryNew(t)
  <2>1. t.s.menu = "pin_recovery_new"
    BY <1>4 DEF handlePINRecoveryNew
  <2>2. Goes(t, "pin_recovery_confirm", {"recovery_new_pin"}, {}) => Kept(t)
    BY <1>0, <1>r, <2>1
  <2> QED  BY <1>4, <2>2, StaysKeeps, Zenon DEF handlePINRecoveryNew
<1>5. CASE handlePINRecoveryConfirm(t)
  <2>1. t.s.menu = "pin_recovery_confirm"
    BY <1>5 DEF handlePINRecoveryConfirm
  <2>2. Goes(t, "pin_recovery_new", {}, {"recovery_new_pin"}) => Kept(t)
    BY <1>0, <1>r, <2>1
  <2>3. ASSUME open' = FALSE, facts' = t.facts \cup {"reset"}, UNCHANGED <<session, lost>>
        PROVE  Kept(t)
    <3>1. InOrder(session', open', facts')
      BY <2>3 DEF MayBegin, InOrder, EarnedSoFar, Disclosed, Unseen
    <3>2. FactsHold(open', facts')
      BY <1>0, <1>m, <2>1, <2>3, EarnedAre DEF MayBegin, FactsHold, Disclosed, Unseen, Facts
    <3> QED  BY <2>3, <3>1, <3>2 DEF Kept
  <2>4. \/ Ends(t) \/ Goes(t, "pin_recovery_new", {}, {"recovery_new_pin"})
        \/ open' = FALSE /\ facts' = t.facts \cup {"reset"} /\ UNCHANGED <<session, lost>>
    BY <1>5, Zenon DEF handlePINRecoveryConfirm
  <2> QED  BY <2>2, <2>3, <2>4, EndsKeeps, Zenon
<1> QED  BY <1>1, <1>2, <1>3, <1>4, <1>5

-----------------------------------------------------------------------------

\* What is saved on the terms, shown or not, or past them.
LEMMA TermsSave ==
  ASSUME NEW t, MayBegin(t), NEW s \in SessionForms, NEW stays \in BOOLEAN, NEW known \in SUBSET Facts,
         Save(t, s, stays, known), s.menu \in {"loan_terms", "loan_confirm"}, HasKeys(s.menu, s.data),
         s.menu = "loan_confirm" \/ stays => Disclosed(known),
         \/ t.facts \subseteq known
         \/ /\ t.facts \ {"terms", "no_policy"} \subseteq known
            /\ t.s.menu \in {"request_loan", "loan_amount"},
         known \subseteq t.facts \cup {"terms", "no_policy"}
  PROVE  Kept(t)
<1>1. InOrder(s, stays, known)
  BY HasKeysIs DEF InOrder, Holds, EarnedSoFar, Recovering
<1>2. FactsHold(stays, known) /\ FactsHold(FALSE, known \cup {"unsaved"})
  BY Unsaved DEF MayBegin, FactsHold, Disclosed, Unseen, Facts
<1>3. InOrder(session, FALSE, known \cup {"unsaved"})
  BY DEF MayBegin, InOrder, EarnedSoFar, Disclosed, Unseen, Recovering
<1>4. t.facts \cap Lasting \subseteq known
  BY DEF Lasting
<1> QED  BY <1>1, <1>2, <1>3, <1>4, SaveKeeps

LEMMA ShowTermsKeeps ==
  ASSUME NEW t, MayBegin(t), NEW u, NEW s \in SessionForms, showLoanTerms(u, s),
         s.menu = "loan_terms", HasKeys("loan_terms", s.data), u.facts \subseteq t.facts,
         \/ t.facts \subseteq u.facts
         \/ /\ t.facts \ {"terms", "no_policy"} \subseteq u.facts
            /\ t.s.menu \in {"request_loan", "loan_amount"}
  PROVE  Kept(t)
<1>0. t.facts \in SUBSET Facts
  BY Unsaved
<1>1. \A q, stays, known : Save(u, q, stays, known) => Save(t, q, stays, known)
  BY DEF Save
<1> DEFINE shown == u.facts \cup {"terms"}
           past == u.facts \cup {"no_policy"}
           c == [s EXCEPT !.menu = "loan_confirm"]
<1>2. Save(u, s, TRUE, shown) \/ Save(u, s, FALSE, u.facts) \/ Save(u, c, TRUE, past)
  BY DEF showLoanTerms, Policies
<1>3. c \in SessionForms /\ c.menu = "loan_confirm" /\ c.data = s.data
  BY MenusAre DEF Menus
<1> HIDE DEF c
<1>4. HasKeys(c.menu, c.data) /\ HasKeys(s.menu, s.data)
  BY <1>3 DEF HasKeys
<1>5. shown \in SUBSET Facts /\ past \in SUBSET Facts /\ u.facts \in SUBSET Facts
  BY <1>0 DEF Facts
<1>6. Disclosed(shown) /\ Disclosed(past)
  BY DEF Disclosed
<1>7. CASE Save(u, s, TRUE, shown)
  BY <1>1, <1>4, <1>5, <1>6, <1>7, TermsSave
<1>8. CASE Save(u, s, FALSE, u.facts)
  BY <1>1, <1>4, <1>5, <1>8, TermsSave
<1>9. CASE Save(u, c, TRUE, past)
  BY <1>1, <1>3, <1>4, <1>5, <1>6, <1>9, TermsSave
<1> QED  BY <1>2, <1>7, <1>8, <1>9

LEMMA PayoutMethodKeeps == ASSUME NEW t, MayBegin(t), handlePayoutMethod(t)  PROVE Kept(t)
<1> DEFINE e == Edit(t.s, "loan_terms", {"payout_method"}, {})
<1>1. "loan_terms" \in Menus /\ {"payout_method"} \in SUBSET Keys /\ t.s \in SessionForms
      /\ HasKeys(t.s.menu, t.s.data) /\ t.s.menu = "payout_method"
  BY Unsaved DEF Menus, Keys, handlePayoutMethod
<1>2. e \in SessionForms /\ e.menu = "loan_terms" /\ e.data = (t.s.data \ {}) \cup {"payout_method"}
  BY <1>1, EditsAre, EditsHold
<1>3. HasKeys("loan_terms", (t.s.data \ {}) \cup {"payout_method"})
  BY <1>1 DEF HasKeys
<1>4. Stays(t) \/ showLoanTerms(t, e)
  BY Zenon DEF handlePayoutMethod
<1> HIDE DEF e
<1> QED  BY <1>2, <1>3, <1>4, StaysKeeps, ShowTermsKeeps

LEMMA LoanTermsKeeps == ASSUME NEW t, MayBegin(t), handleLoanTerms(t)  PROVE Kept(t)
<1> DEFINE c == [t.s EXCEPT !.menu = "loan_confirm"]
<1>1. /\ t.s \in SessionForms /\ HasKeys(t.s.menu, t.s.data) /\ t.s.menu = "loan_terms"
      /\ t.facts \in SUBSET Facts
  BY Unsaved DEF handleLoanTerms
<1>2. c \in SessionForms /\ c.menu = "loan_confirm" /\ c.data = t.s.data
  BY <1>1, MenusAre DEF Menus
<1>3. HasKeys(c.menu, c.data)
  BY <1>1, <1>2 DEF HasKeys
<1>4. Disclosed(t.facts)
  BY <1>1 DEF MayBegin, InOrder
<1>5. Save(t, c, TRUE, t.facts) \/ showLoanTerms(t, t.s)
  BY Zenon DEF handleLoanTerms
<1> HIDE DEF c
<1> QED  BY <1>1, <1>2, <1>3, <1>4, <1>5, TermsSave, ShowTermsKeeps

LEMMA LoanConfirmKeeps == ASSUME NEW t, MayBegin(t), handleLoanConfirm(t)  PROVE Kept(t)
<1>1. t.s.menu = "loan_confirm" /\ Disclosed(t.facts) /\ t.facts \in SUBSET Facts
  BY Unsaved DEF handleLoanConfirm, MayBegin, InOrder
<1>2. ASSUME open' = FALSE, UNCHANGED <<session, lost>>, facts' = t.facts \cup {"submitted"}
      PROVE  Kept(t)
  <2>1. InOrder(session', open', facts')
    BY <1>2 DEF MayBegin, InOrder, EarnedSoFar, Disclosed, Unseen
  <2>2. FactsHold(open', facts')
    BY <1>1, <1>2 DEF MayBegin, FactsHold, Disclosed, Unseen, Facts
  <2> QED  BY <1>2, <2>1, <2>2 DEF Kept
<1>3. \/ Stays(t) \/ Ends(t)
      \/ open' = FALSE /\ UNCHANGED <<session, lost>> /\ facts' = t.facts \cup {"submitted"}
  BY Zenon DEF handleLoanConfirm, submitLoan
<1> QED  BY <1>2, <1>3, StaysKeeps, EndsKeeps

LEMMA LoanAmountKeeps == ASSUME NEW t, MayBegin(t), handleLoanAmount(t)  PROVE Kept(t)
<1> DEFINE known == t.facts \ {"terms", "no_policy"}
           u == [t EXCEPT !.facts = known]
<1>1. /\ t \in Turn /\ t.s \in SessionForms /\ t.facts \in SUBSET Facts
      /\ t.s.menu \in {"request_loan", "loan_amount"}
  BY Unsaved DEF MayBegin, handleLoanAmount
<1>2. u.facts = known /\ u.s = t.s
  BY <1>1, Zenon DEF Turn
<1>3. [t EXCEPT !.facts = @ \ {"terms", "no_policy"}] = u
  BY <1>1, Zenon DEF Turn
<1>4. \/ Stays(t) \/ Ends(t) \/ Goes(u, t.s.menu, {}, {"loan_amount"})
      \/ showLoanTerms(u, Edit(t.s, "loan_terms", {"loan_amount", "payout_method"}, {}))
      \/ Goes(u, "payout_method", {"loan_amount"}, {})
  BY <1>3, Zenon DEF handleLoanAmount
<1> HIDE DEF u
<1>5. ASSUME showLoanTerms(u, Edit(t.s, "loan_terms", {"loan_amount", "payout_method"}, {}))
      PROVE  Kept(t)
  <2> DEFINE e == Edit(t.s, "loan_terms", {"loan_amount", "payout_method"}, {})
  <2>1. "loan_terms" \in Menus /\ {"loan_amount", "payout_method"} \in SUBSET Keys
    BY DEF Menus, Keys
  <2>2. /\ e \in SessionForms /\ e.menu = "loan_terms"
        /\ e.data = (t.s.data \ {}) \cup {"loan_amount", "payout_method"}
    BY <1>1, <2>1, EditsAre, EditsHold
  <2>3. HasKeys("loan_terms", (t.s.data \ {}) \cup {"loan_amount", "payout_method"})
    BY DEF HasKeys
  <2>4. showLoanTerms(u, e)
    BY <1>5
  <2> HIDE DEF e
  <2>5. u.facts \subseteq t.facts /\ t.facts \ {"terms", "no_policy"} \subseteq u.facts
    BY <1>2
  <2> QED  BY <1>1, <2>2, <2>3, <2>4, <2>5, ShowTermsKeeps
<1>6. ASSUME NEW menu \in {"request_loan", "loan_amount", "payout_method"}, NEW adds \in SUBSET Keys,
             NEW drops, Goes(u, menu, adds, drops), menu = "payout_method" => "loan_amount" \in adds
      PROVE  Kept(t)
  <2> DEFINE e == Edit(t.s, menu, adds, drops)
  <2>1. menu \in Menus
    BY DEF Menus
  <2>2. e \in SessionForms /\ e.menu = menu /\ e.data = (t.s.data \ drops) \cup adds
    <3>1. e.menu = menu
      BY <1>1, <2>1, EditsAre
    <3>2. e \in SessionForms
      BY <1>1, <2>1, EditsTyped, Zenon
    <3>3. e.data = (t.s.data \ drops) \cup adds
      BY <1>1, <2>1, EditsData
    <3> QED  BY <3>1, <3>2, <3>3, Zenon
  <2>3. HasKeys(menu, (t.s.data \ drops) \cup adds)
    BY <1>6 DEF HasKeys
  <2>4. Save(t, e, TRUE, known)
    BY <1>2, <1>6, Zenon DEF Goes, Save
  <2> HIDE DEF e
  <2>5. InOrder(e, TRUE, known)
    BY <2>2, <2>3, HasKeysIs DEF InOrder, Holds, EarnedSoFar, Recovering
  <2>6. known \in SUBSET Facts /\ FactsHold(TRUE, known) /\ FactsHold(FALSE, known \cup {"unsaved"})
    BY <1>1 DEF MayBegin, FactsHold, Disclosed, Unseen, Facts
  <2>7. InOrder(session, FALSE, known \cup {"unsaved"})
    BY <1>1 DEF MayBegin, InOrder, EarnedSoFar, Disclosed, Unseen, Recovering
  <2>8. t.facts \cap Lasting \subseteq known
    BY DEF Lasting
  <2> QED  BY <2>4, <2>5, <2>6, <2>7, <2>8, SaveKeeps
<1>7. {"loan_amount"} \in SUBSET Keys /\ {} \in SUBSET Keys
  BY DEF Keys
<1>8. Goes(u, "payout_method", {"loan_amount"}, {}) => Kept(t)
  BY <1>6, <1>7
<1>9. Goes(u, t.s.menu, {}, {"loan_amount"}) => Kept(t)
  BY <1>1, <1>6, <1>7
<1> QED  BY <1>4, <1>5, <1>8, <1>9, StaysKeeps, EndsKeeps

-----------------------------------------------------------------------------

\* What is saved on the repayment's menus.
LEMMA RepaySave ==
  ASSUME NEW t, MayBegin(t), NEW s \in SessionForms, NEW stays \in BOOLEAN, NEW known \in SUBSET Facts,
         Save(t, s, stays, known), s.menu \in {"repay_loan", "repay_rail", "repay_mobile"},
         HasKeys(s.menu, s.data),
         "started" \in known => "repay_open" \in s.data \/ Unseen(known) \/ s.menu = "repay_loan",
         "started_twice" \in known => "started_twice" \in t.facts \/ Unseen(known),
         t.facts \ {"started"} \subseteq known, known \subseteq t.facts \cup {"started", "started_twice"}
  PROVE  Kept(t)
<1>1. InOrder(s, stays, known)
  BY HasKeysIs DEF InOrder, Holds, EarnedSoFar, Recovering
<1>2. FactsHold(stays, known) /\ FactsHold(FALSE, known \cup {"unsaved"})
  BY Unsaved DEF MayBegin, FactsHold, Disclosed, Unseen, Facts
<1>3. InOrder(session, FALSE, known \cup {"unsaved"})
  BY DEF MayBegin, InOrder, EarnedSoFar, Disclosed, Unseen, Recovering
<1>4. t.facts \cap Lasting \subseteq known
  BY DEF Lasting
<1> QED  BY <1>1, <1>2, <1>3, <1>4, SaveKeeps

LEMMA RepayLoanKeeps == ASSUME NEW t, MayBegin(t), handleRepayLoan(t)  PROVE Kept(t)
<1> DEFINE known == t.facts \ {"started"}
           c == [t.s EXCEPT !.menu = "repay_loan"]
           e == Edit(t.s, "repay_rail", {"repay_loan", "repay_open"}, {})
           f == Edit(t.s, "repay_rail", {"repay_loan"}, {"repay_open"})
<1>1. t.s \in SessionForms /\ t.facts \in SUBSET Facts
  BY Unsaved
<1>m. "repay_loan" \in Menus /\ "repay_rail" \in Menus
      /\ {"repay_loan", "repay_open"} \in SUBSET Keys /\ {"repay_loan"} \in SUBSET Keys
  BY DEF Menus, Keys
<1>2. \/ Save(t, c, FALSE, t.facts) \/ Save(t, e, FALSE, known) \/ Save(t, f, TRUE, known)
  BY Zenon DEF handleRepayLoan
<1>3. c \in SessionForms /\ c.menu = "repay_loan" /\ HasKeys(c.menu, c.data)
  BY <1>1, <1>m, MenusAre DEF HasKeys
<1>4. e \in SessionForms /\ e.menu = "repay_rail" /\ HasKeys(e.menu, e.data)
  <2>1. e.menu = "repay_rail"
    BY <1>1, <1>m, EditsAre
  <2>2. e \in SessionForms /\ e.data = (t.s.data \ {}) \cup {"repay_loan", "repay_open"}
    BY <1>1, <1>m, EditsHold
  <2> HIDE DEF e
  <2> QED  BY <2>1, <2>2 DEF HasKeys
<1>5. f \in SessionForms /\ f.menu = "repay_rail" /\ HasKeys(f.menu, f.data)
  <2>1. f.menu = "repay_rail"
    BY <1>1, <1>m, EditsAre
  <2>2. f \in SessionForms /\ f.data = (t.s.data \ {"repay_open"}) \cup {"repay_loan"}
    BY <1>1, <1>m, EditsHold
  <2> HIDE DEF f
  <2> QED  BY <2>1, <2>2 DEF HasKeys
<1> HIDE DEF c, e, f
<1>6. known \in SUBSET Facts /\ "started" \notin known /\ t.facts \ {"started"} \subseteq known /\ known \subseteq t.facts
  BY <1>1
<1>7. Save(t, e, FALSE, known) => Kept(t)
  BY <1>4, <1>6, RepaySave
<1>8. Save(t, f, TRUE, known) => Kept(t)
  BY <1>5, <1>6, RepaySave
<1>9. Save(t, c, FALSE, t.facts) => Kept(t)
  BY <1>1, <1>3, RepaySave
<1> QED  BY <1>2, <1>7, <1>8, <1>9

LEMMA StartKeeps ==
  ASSUME NEW t, MayBegin(t), startRepayment(t), t.s.menu \in {"repay_rail", "repay_mobile"},
         "repay_open" \notin t.s.data
  PROVE  Kept(t)
<1> DEFINE more == IF "started" \in t.facts THEN {"started_twice"} ELSE {"started"}
           known == t.facts \cup more
           e == Edit(t.s, t.s.menu, {"repay_open"}, {})
<1>1. t.s \in SessionForms /\ t.facts \in SUBSET Facts /\ t.s.menu \in Menus /\ HasKeys(t.s.menu, t.s.data)
      /\ {"repay_open"} \in SUBSET Keys
  BY Unsaved DEF Keys
<1>2. Save(t, e, FALSE, known)
  BY Zenon DEF startRepayment
<1>3. e \in SessionForms /\ e.menu = t.s.menu /\ e.data = (t.s.data \ {}) \cup {"repay_open"}
  <2>1. e.menu = t.s.menu
    BY <1>1, EditsAre
  <2>2. e \in SessionForms
    BY <1>1, EditsTyped, Zenon
  <2>3. e.data = (t.s.data \ {}) \cup {"repay_open"}
    BY <1>1, EditsData
  <2> QED  BY <2>1, <2>2, <2>3, Zenon
<1> HIDE DEF e
<1>4. HasKeys(e.menu, e.data) /\ "repay_open" \in e.data
  BY <1>1, <1>3 DEF HasKeys
<1>5. "started" \in t.facts => Unseen(t.facts)
  BY DEF MayBegin, InOrder
<1>6. /\ known \in SUBSET Facts /\ t.facts \subseteq known /\ known \subseteq t.facts \cup {"started", "started_twice"}
      /\ "started_twice" \in known => "started_twice" \in t.facts \/ Unseen(known)
  BY <1>1, <1>5 DEF Unseen, Facts
<1> HIDE DEF known
<1> QED  BY <1>2, <1>3, <1>4, <1>6, RepaySave

LEMMA RepayKeeps ==
  ASSUME NEW t, MayBegin(t), handleRepayRail(t) \/ handleRepayMobile(t)
  PROVE  Kept(t)
<1>1. CASE handleRepayMobile(t)
  BY <1>1, StaysKeeps, EndsKeeps, StartKeeps DEF handleRepayMobile
<1>2. CASE handleRepayRail(t)
  <2>1. ASSUME Goes(t, "repay_mobile", {}, {}), "repay_open" \notin t.s.data  PROVE Kept(t)
    <3> DEFINE e == Edit(t.s, "repay_mobile", {}, {})
    <3>1. /\ t.s \in SessionForms /\ t.facts \in SUBSET Facts /\ "repay_mobile" \in Menus
          /\ HasKeys(t.s.menu, t.s.data) /\ t.s.menu = "repay_rail" /\ {} \in SUBSET Keys
      BY <1>2, Unsaved DEF Menus, handleRepayRail
    <3>2. Save(t, e, TRUE, t.facts)
      BY <2>1, Zenon DEF Goes
    <3>3. e.menu = "repay_mobile"
      BY <3>1, EditsAre
    <3>4. e \in SessionForms
      BY <3>1, EditsTyped, Zenon
    <3>7. e.data = t.s.data
      <4> DEFINE none == {}
      <4>1. none \in SUBSET Keys /\ e = Edit(t.s, "repay_mobile", none, none)
        OBVIOUS
      <4> HIDE DEF none, e
      <4>2. e.data = (t.s.data \ none) \cup none
        BY <3>1, <4>1, EditsData
      <4> QED  BY <4>2 DEF none
    <3> HIDE DEF e
    <3>5. HasKeys(e.menu, e.data)
      BY <3>1, <3>3, <3>7 DEF HasKeys
    <3>6. "started" \in t.facts => Unseen(t.facts)
      BY <2>1, <3>1 DEF MayBegin, InOrder
    <3> QED  BY <3>1, <3>2, <3>3, <3>4, <3>5, <3>6, RepaySave
  <2> QED  BY <1>2, <2>1, StaysKeeps, EndsKeeps, StartKeeps DEF handleRepayRail
<1> QED  BY <1>1, <1>2

LEMMA MainMenuKeeps ==
  ASSUME NEW t, MayBegin(t), handleMainMenu(t)
  PROVE  Kept(t)
<1> USE DEF HasKeys, Guarded, Recovering, Menus, Keys
<1>0. t.facts \in SUBSET Facts /\ t.s \in SessionForms
  BY Unsaved
<1>1. ASSUME Save(t, [t.s EXCEPT !.menu = "my_loans"], FALSE, t.facts)  PROVE Kept(t)
  <2> DEFINE c == [t.s EXCEPT !.menu = "my_loans"]
  <2>1. c \in SessionForms /\ c.menu = "my_loans"
    BY <1>0, MenusAre
  <2> HIDE DEF c
  <2> QED  BY <1>1, <2>1, PlainSave DEF c
<1>2. Goes(t, "request_loan", {}, {}) \/ Goes(t, "my_account", {}, {}) => Kept(t)
  BY PlainGoes
<1> QED  BY <1>1, <1>2, StaysKeeps, EndsKeeps, RepayLoanKeeps DEF handleMainMenu

-----------------------------------------------------------------------------

\* Stepping back off a menu leaves what the menu before needs.
LEMMA BackIsReady ==
  ASSUME NEW menu \in DOMAIN navBackTargets \ {"loan_terms", "loan_confirm"}, NEW d, HasKeys(menu, d),
         ~(menu = "pin_create" /\ "set_pin_only" \in d)
  PROVE  /\ navBackTargets[menu] \in Menus \ Guarded
         /\ HasKeys(navBackTargets[menu], (d \ navBackClears(menu)) \cup {})
<1> DEFINE back == navBackTargets[menu]
           clears == navBackClears(menu)
<1>1. /\ menu = "register" => back = "language_select"
      /\ menu = "register_national_id" => back = "register"
      /\ menu = "pin_create" => back = "register_national_id" /\ clears = {}
      /\ menu = "pin_confirm" => back = "pin_create" /\ clears = {"new_pin"}
      /\ menu = "security_q1_select" => back = "pin_manager"
      /\ menu = "security_q1_answer" => back = "security_q1_select"
      /\ menu = "security_q2_select" => back = "security_q1_answer" /\ clears = {"sq1_answer"}
      /\ menu = "security_q2_answer" => back = "security_q2_select" /\ clears = {"sq2_id"}
      /\ menu = "pin_change_old" => back = "pin_manager"
      /\ menu = "pin_change_new" => back = "pin_change_old"
      /\ menu = "pin_change_confirm" => back = "pin_change_new" /\ clears = {"new_pin"}
      /\ menu = "pin_recovery_national_id" => back = "pin_manager"
      /\ menu = "bio_edit" => back = "my_details"
      /\ menu = "loan_amount" => back = "main"
      /\ menu = "payout_method" => back = "loan_amount"
      /\ menu = "repay_rail" => back = "main"
  BY DEF navBackTargets, navBackClears
<1>2. menu \in {"register", "register_national_id", "pin_create", "pin_confirm",
                "security_q1_select", "security_q1_answer", "security_q2_select", "security_q2_answer",
                "pin_change_old", "pin_change_new", "pin_change_confirm", "pin_recovery_national_id",
                "bio_edit", "loan_amount", "payout_method", "repay_rail"}
  BY DEF navBackTargets
<1> HIDE DEF back, clears
<1>3. back \in Menus \ Guarded
  BY <1>1, <1>2 DEF Menus, Guarded, Recovering
<1>4. ~(menu = "pin_create" /\ "set_pin_only" \in d) => HasKeys(back, (d \ clears) \cup {})
  BY <1>1, <1>2 DEF HasKeys
<1> QED  BY <1>3, <1>4 DEF back, clears

LEMMA BeforeTermsKeeps ==
  ASSUME NEW t, MayBegin(t), t.s.menu \in {"loan_terms", "loan_confirm"},
         Save(t, BeforeTerms(t.s), TRUE, t.facts)
  PROVE  Kept(t)
<1>1. HasKeys(t.s.menu, t.s.data)
  BY Unsaved
<1>2. "loan_amount" \in Menus \ Guarded /\ "payout_method" \in Menus \ Guarded /\ {} \in SUBSET Keys
  BY DEF Menus, Guarded, Recovering
<1>3. CASE mobileMoneyBorrowOff
  <2>1. Save(t, Edit(t.s, "loan_amount", {}, {"payout_method", "loan_amount"}), TRUE, t.facts)
    BY <1>3, Zenon DEF BeforeTerms
  <2>2. HasKeys("loan_amount", (t.s.data \ {"payout_method", "loan_amount"}) \cup {})
    BY DEF HasKeys
  <2> QED  BY <1>2, <2>1, <2>2, PlainEdit
<1>4. CASE ~mobileMoneyBorrowOff
  <2>1. Save(t, Edit(t.s, "payout_method", {}, {"payout_method"}), TRUE, t.facts)
    BY <1>4, Zenon DEF BeforeTerms
  <2>2. HasKeys("payout_method", (t.s.data \ {"payout_method"}) \cup {})
    BY <1>1 DEF HasKeys
  <2> QED  BY <1>2, <2>1, <2>2, PlainEdit
<1> QED  BY <1>3, <1>4

LEMMA NavigationKeeps ==
  ASSUME NEW t, MayBegin(t), handleNavigation(t)
  PROVE  Kept(t)
<1>0. t.s \in SessionForms /\ t.facts \in SUBSET Facts /\ HasKeys(t.s.menu, t.s.data)
  BY Unsaved
<1>1. CASE Goes(t, "main", {}, navFlowKeys)
  <2>1. "main" \in Menus \ Guarded /\ {} \in SUBSET Keys
    BY DEF Menus, Guarded, Recovering
  <2>2. HasKeys("main", (t.s.data \ navFlowKeys) \cup {})
    BY DEF HasKeys
  <2> QED  BY <1>1, <2>1, <2>2, PlainGoes
<1>2. CASE t.s.menu = "loan_confirm" /\ backToLoanTerms(t)
  <2> DEFINE e == Edit(t.s, "loan_terms", {}, {})
             known == t.facts \cup {"terms"}
  <2>1. Save(t, e, TRUE, known) \/ Save(t, BeforeTerms(t.s), TRUE, t.facts)
    BY <1>2, Zenon DEF backToLoanTerms
  <2>2. "loan_terms" \in Menus /\ {} \in SUBSET Keys
    BY DEF Menus
  <2>3. e.menu = "loan_terms"
    BY <1>0, <2>2, EditsAre
  <2>4. e \in SessionForms
    BY <1>0, <2>2, EditsTyped, Zenon
  <2>5. e.data = t.s.data
    <3> DEFINE none == {}
    <3>1. none \in SUBSET Keys /\ e = Edit(t.s, "loan_terms", none, none)
      OBVIOUS
    <3> HIDE DEF none, e
    <3>2. e.data = (t.s.data \ none) \cup none
      BY <1>0, <2>2, <3>1, EditsData
    <3> QED  BY <3>2 DEF none
  <2> HIDE DEF e
  <2>6. HasKeys(e.menu, e.data)
    BY <1>0, <1>2, <2>3, <2>5 DEF HasKeys
  <2>7. known \in SUBSET Facts /\ t.facts \subseteq known /\ known \subseteq t.facts \cup {"terms", "no_policy"}
        /\ Disclosed(known)
    BY <1>0 DEF Facts, Disclosed
  <2> HIDE DEF known
  <2> QED  BY <1>2, <2>1, <2>3, <2>4, <2>6, <2>7, TermsSave, BeforeTermsKeeps
<1>3. CASE t.s.menu = "loan_terms" /\ Save(t, BeforeTerms(t.s), TRUE, t.facts)
  BY <1>3, BeforeTermsKeeps
<1>4. CASE goesBack(t) /\ t.s.menu \notin {"loan_terms", "loan_confirm"}
           /\ Goes(t, navBackTargets[t.s.menu], {}, navBackClears(t.s.menu))
  <2>1. t.s.menu \in DOMAIN navBackTargets \ {"loan_terms", "loan_confirm"}
        /\ ~(t.s.menu = "pin_create" /\ "set_pin_only" \in t.s.data)
    BY <1>4, Zenon DEF goesBack, canGoBack
  <2>2. /\ navBackTargets[t.s.menu] \in Menus \ Guarded
        /\ HasKeys(navBackTargets[t.s.menu], (t.s.data \ navBackClears(t.s.menu)) \cup {})
    BY <1>0, <2>1, BackIsReady, Zenon
  <2> DEFINE back == navBackTargets[t.s.menu]
             clears == navBackClears(t.s.menu)
  <2>3. back \in Menus \ Guarded /\ HasKeys(back, (t.s.data \ clears) \cup {}) /\ Goes(t, back, {}, clears)
    BY <1>4, <2>2, Zenon
  <2> HIDE DEF back, clears
  <2>4. {} \in SUBSET Keys
    OBVIOUS
  <2> QED  BY <2>3, <2>4, PlainGoes
<1> QED  BY <1>1, <1>2, <1>3, <1>4, Zenon DEF handleNavigation

\* Every turn.
LEMMA TurnKeeps ==
  ASSUME NEW t, MayBegin(t), registered \in BOOLEAN, handleMenuInput(t)
  PROVE  Kept(t) /\ registered' \in BOOLEAN
<1>1. CASE handleNavigation(t)
  BY <1>1, NavigationKeeps DEF handleNavigation
<1>2. CASE PlainHandler(t) /\ UNCHANGED registered
  <2>1. Kept(t)
    BY <1>2, MainMenuKeeps, AccountKeeps, RegistrationKeeps, PINKeeps, RecoveryKeeps, RepayKeeps,
       RepayLoanKeeps, LoanAmountKeeps, PayoutMethodKeeps, LoanTermsKeeps, LoanConfirmKeeps, Zenon
       DEF PlainHandler
  <2> QED  BY <1>2, <2>1
<1>3. CASE handleRecoverSimQ2(t) \/ handlePINConfirm(t)
  BY <1>3, RegisteredKeeps
<1> QED  BY <1>1, <1>2, <1>3, Zenon DEF handleMenuInput

LEMMA FreshIs == Fresh \in SessionForms /\ Fresh.menu = "main" /\ Fresh.data = {}
BY DEF Fresh, SessionForms, Menus

LEMMA FreshHolds ==
  ASSUME NEW o, NEW known
  PROVE  InOrder(Fresh, o, known)
BY FreshIs, HasKeysIs DEF InOrder, Holds, EarnedSoFar, HasKeys, Recovering

\* The bound on troubles, in plain numbers.
LEMMA TroublesCount ==
  ASSUME NEW m \in Nat, NEW r \in 0..m, NEW l \in 0..(m - r), NEW k,
         k = l \/ (k = l + 1 /\ r + l < m)
  PROVE  k \in 0..(m - r)
OBVIOUS

\* After a turn the invariant holds again.
LEMMA AfterTurn ==
  ASSUME DialogueInv, NEW t, MayBegin(t), handleMenuInput(t), NEW s, NEW in \in Inputs, Keep(s, in),
         Holds(s), EarnedSoFar(s, t.facts),
         repeats' \in 0..MaxTroubles, lost \in 0..(MaxTroubles - repeats')
  PROVE  DialogueInv'
<1>1. Kept(t) /\ registered' \in BOOLEAN
  BY TurnKeeps DEF DialogueInv
<1>2. lost' \in 0..(MaxTroubles - repeats')
  <2>1. lost' = lost \/ (lost' = lost + 1 /\ repeats' + lost < MaxTroubles)
    BY <1>1 DEF Kept
  <2> QED  BY <2>1, UssdAssumption, TroublesCount, Zenon
<1>3. Holds(session)' /\ InOrder(session', open', facts')
  BY <1>1 DEF Kept, InOrder, Holds, Needs
<1>4. EarnedSoFar(s, facts')
  BY <1>1 DEF Kept, EarnedSoFar, Lasting
<1>5. \/ prev' = s /\ last' = in
      \/ prev' = Fresh /\ last' = "none"
  BY DEF Keep
<1>6. last' \in Inputs \cup {"none"} /\ (last' # "none" => prev' = s)
  BY <1>5
<1>7. last' # "none" => Holds(prev)' /\ EarnedSoFar(prev', facts')
  BY <1>4, <1>6 DEF Holds, Needs
<1> QED  BY <1>1, <1>2, <1>3, <1>6, <1>7 DEF DialogueInv, Kept

LEMMA DialogueStarts == ASSUME UssdInit PROVE DialogueInv
<1>1. Holds(Fresh) /\ FactsHold(FALSE, {})
  BY FreshHolds DEF InOrder, FactsHold, Facts
<1>2. repeats \in 0..MaxTroubles /\ lost \in 0..(MaxTroubles - repeats)
  BY UssdAssumption DEF UssdInit
<1>3. session = Fresh /\ facts = {} /\ open = FALSE /\ last = "none" /\ registered \in BOOLEAN
  BY DEF UssdInit
<1> QED  BY <1>1, <1>2, <1>3 DEF DialogueInv

LEMMA ReplyKeeps == ASSUME DialogueInv, NEW in \in Inputs, Reply(in) PROVE DialogueInv'
<1> DEFINE t == [s |-> session, in |-> in, facts |-> facts]
<1>1. t.s = session /\ t.in = in /\ t.facts = facts
  OBVIOUS
<1>2. session \in SessionForms /\ facts \in SUBSET Facts /\ InOrder(session, TRUE, facts)
      /\ FactsHold(TRUE, facts)
  BY DEF DialogueInv, Reply, Holds, FactsHold
<1>3. t \in Turn
  BY <1>2 DEF Turn
<1>4. handleMenuInput(t) /\ Keep(session, in) /\ repeats' = repeats
  BY DEF Reply
<1> HIDE DEF t
<1>5. MayBegin(t)
  BY <1>1, <1>2, <1>3 DEF MayBegin
<1>6. Holds(session) /\ EarnedSoFar(session, t.facts)
  BY <1>1, <1>2 DEF InOrder
<1>7. repeats' \in 0..MaxTroubles /\ lost \in 0..(MaxTroubles - repeats')
  BY <1>4 DEF DialogueInv
<1> QED  BY <1>4, <1>5, <1>6, <1>7, AfterTurn

LEMMA RepeatKeeps == ASSUME DialogueInv, Repeat PROVE DialogueInv'
<1> DEFINE after == [s |-> session, in |-> last, facts |-> facts \cup {"repeated"}]
           beside == [s |-> prev, in |-> last, facts |-> facts \cup {"repeated", "overlapped"}]
<1>1. /\ after.s = session /\ after.in = last /\ after.facts = facts \cup {"repeated"}
      /\ beside.s = prev /\ beside.in = last /\ beside.facts = facts \cup {"repeated", "overlapped"}
  OBVIOUS
<1>2. /\ last \in Inputs /\ session \in SessionForms /\ prev \in SessionForms /\ facts \in SUBSET Facts
      /\ InOrder(session, open, facts) /\ FactsHold(open, facts)
      /\ Holds(session) /\ Holds(prev) /\ EarnedSoFar(prev, facts)
  BY DEF DialogueInv, Repeat, Holds, FactsHold
<1>3. after \in Turn /\ beside \in Turn
  BY <1>2 DEF Turn, Facts
<1>4. handleMenuInput(after) \/ handleMenuInput(beside)
  BY Zenon DEF Repeat
<1>5. Keep(prev, last) /\ repeats' = repeats + 1 /\ repeats + lost < MaxTroubles
  BY DEF Repeat
<1> HIDE DEF after, beside
<1>6. repeats' \in 0..MaxTroubles /\ lost \in 0..(MaxTroubles - repeats')
  BY <1>5, UssdAssumption DEF DialogueInv
<1>7. ASSUME NEW known, known = facts \cup {"repeated"} \/ known = facts \cup {"repeated", "overlapped"}
      PROVE  InOrder(session, TRUE, known) /\ FactsHold(TRUE, known) /\ EarnedSoFar(prev, known)
  BY <1>2, <1>7 DEF InOrder, FactsHold, EarnedSoFar, Disclosed, Unseen, Facts
<1>8. InOrder(prev, TRUE, facts \cup {"repeated", "overlapped"})
  BY <1>2 DEF InOrder, EarnedSoFar, Disclosed, Unseen
<1>9. MayBegin(after) /\ EarnedSoFar(prev, after.facts)
  BY <1>1, <1>3, <1>7 DEF MayBegin
<1>10. MayBegin(beside) /\ EarnedSoFar(prev, beside.facts)
  BY <1>1, <1>3, <1>7, <1>8 DEF MayBegin
<1> QED  BY <1>2, <1>4, <1>5, <1>6, <1>9, <1>10, AfterTurn

LEMMA DialKeeps == ASSUME DialogueInv, Dial PROVE DialogueInv'
<1>1. PICK s \in {session, Fresh} :
        LET t == [s |-> s, in |-> "none", facts |-> {}]
            signed == [s EXCEPT !.user = TRUE] IN
        /\ last' = "none" /\ prev' = Fresh /\ UNCHANGED <<registered, mobileMoneyBorrowOff>>
        /\ repeats' = IF s = Fresh THEN repeats ELSE repeats + 1
        /\ repeats' + lost <= MaxTroubles
        /\ \/ session' = s /\ open' = FALSE /\ facts' = {} /\ UNCHANGED lost
           \/ Save(t, [s EXCEPT !.menu = "language_select"], TRUE, {})
           \/ registered /\ Save(t, [signed EXCEPT !.menu = "main"], TRUE, {})
           \/ registered /\ Save(t, Edit(signed, "pin_create", {"set_pin_only"}, {}), TRUE, {})
  BY Zenon DEF Dial
<1> DEFINE signed == [s EXCEPT !.user = TRUE]
           again == Edit(signed, "pin_create", {"set_pin_only"}, {})
<1>2. /\ s \in SessionForms /\ Holds(s) /\ repeats' \in 0..MaxTroubles
      /\ lost \in 0..(MaxTroubles - repeats')
  <2>1. s \in SessionForms /\ Holds(s)
    BY <1>1, FreshHolds DEF DialogueInv, Holds, InOrder
  <2>2. repeats' = repeats \/ repeats' = repeats + 1
    BY <1>1
  <2>3. repeats' + lost <= MaxTroubles
    BY <1>1
  <2>4. repeats \in Nat /\ lost \in Nat
    BY UssdAssumption DEF DialogueInv
  <2> QED  BY <2>1, <2>2, <2>3, <2>4, UssdAssumption
<1>3. signed \in SessionForms /\ signed.data = s.data
  BY <1>2, Zenon DEF SessionForms
<1> HIDE DEF signed
<1> DEFINE none == {}
<1>4. none \in SUBSET Keys /\ {"set_pin_only"} \in SUBSET Keys /\ "pin_create" \in Menus
  BY DEF Keys, Menus
<1>5. again \in SessionForms /\ again.menu = "pin_create" /\ "set_pin_only" \in again.data
  <2>1. again \in SessionForms
    BY <1>3, <1>4, EditsTyped
  <2>2. again.menu = "pin_create"
    BY <1>3, <1>4, EditsAre
  <2>3. again.data = (signed.data \ {}) \cup {"set_pin_only"}
    BY <1>3, <1>4, EditsData
  <2> QED  BY <2>1, <2>2, <2>3
<1> DEFINE chosen == [s EXCEPT !.menu = "language_select"]
           mainMenu == [signed EXCEPT !.menu = "main"]
<1>6. /\ chosen \in SessionForms /\ chosen.menu = "language_select" /\ chosen.data = s.data
      /\ mainMenu \in SessionForms /\ mainMenu.menu = "main"
  <2>1. "language_select" \in Menus /\ "main" \in Menus
    BY DEF Menus
  <2> QED  BY <1>2, <1>3, <2>1, MenusAre
<1>7. \/ session' = s /\ open' = FALSE /\ facts' = {} /\ lost' = lost
      \/ \E q \in {chosen, mainMenu, again} :
           Save([s |-> s, in |-> "none", facts |-> {}], q, TRUE, {})
  BY <1>1, Zenon DEF signed
<1>8. HasKeys(chosen.menu, chosen.data) /\ HasKeys(mainMenu.menu, mainMenu.data) /\ HasKeys(again.menu, again.data)
  BY <1>5, <1>6 DEF HasKeys
<1>9. \A q \in {chosen, mainMenu, again} : InOrder(q, TRUE, {})
  <2>1. \A q \in {chosen, mainMenu, again} : q \in SessionForms /\ Needs(q) \subseteq q.data
    BY <1>5, <1>6, <1>8, HasKeysIs
  <2> QED  BY <1>5, <1>6, <2>1 DEF InOrder, Holds, EarnedSoFar, Recovering
<1> HIDE DEF chosen, mainMenu, again
<1>10. /\ last' = "none" /\ registered' \in BOOLEAN
       /\ FactsHold(FALSE, {}) /\ FactsHold(FALSE, {"unsaved"}) /\ FactsHold(TRUE, {})
  BY <1>1 DEF DialogueInv, FactsHold, Facts
<1>11. CASE session' = s /\ open' = FALSE /\ facts' = {} /\ lost' = lost
  <2>1. Holds(session)'
    BY <1>2, <1>11 DEF Holds, Needs
  <2> QED  BY <1>2, <1>10, <1>11, <2>1 DEF DialogueInv
<1>12. ASSUME NEW q \in {chosen, mainMenu, again},
              Save([s |-> s, in |-> "none", facts |-> {}], q, TRUE, {})
       PROVE  DialogueInv'
  <2>1. CASE session' = q /\ open' = TRUE /\ facts' = {} /\ lost' = lost
    <3>1. InOrder(session', open', facts') /\ Holds(session)'
      BY <1>9, <2>1 DEF InOrder, Holds, Needs
    <3> QED  BY <1>2, <1>10, <2>1, <3>1 DEF DialogueInv
  <2>2. CASE session' = session /\ open' = FALSE /\ facts' = {"unsaved"} /\ lost' = lost + 1
             /\ repeats' + lost < MaxTroubles
    <3>1. lost' \in 0..(MaxTroubles - repeats')
      BY <1>2, <2>2, UssdAssumption, TroublesCount, Zenon
    <3>2. Holds(session)'
      BY <2>2 DEF DialogueInv, Holds, Needs
    <3> QED  BY <1>2, <1>10, <2>2, <3>1, <3>2 DEF DialogueInv
  <2>3. \/ session' = q /\ open' = TRUE /\ facts' = {} /\ lost' = lost
        \/ /\ session' = session /\ open' = FALSE /\ facts' = {} \cup {"unsaved"} /\ lost' = lost + 1
           /\ repeats' + lost < MaxTroubles
    BY <1>12, Zenon DEF Save
  <2> QED  BY <2>1, <2>2, <2>3
<1> QED  BY <1>7, <1>11, <1>12

LEMMA LoseKeeps == ASSUME DialogueInv, Lose PROVE DialogueInv'
<1>1. session' = Fresh /\ UNCHANGED <<prev, last, open, registered, facts, repeats>>
      /\ repeats + lost < MaxTroubles /\ lost' = lost + 1
  BY DEF Lose
<1>2. \A o, known : InOrder(Fresh, o, known)
  BY FreshHolds
<1>3. Holds(Fresh) /\ InOrder(Fresh, open, facts)
  BY <1>2 DEF InOrder
<1>4. lost' \in 0..(MaxTroubles - repeats') /\ repeats' \in 0..MaxTroubles
  BY <1>1, UssdAssumption DEF DialogueInv
<1>5. Holds(session)' /\ InOrder(session', open', facts')
  BY <1>1, <1>3 DEF Holds, Needs
<1>6. last' # "none" => Holds(prev)' /\ EarnedSoFar(prev', facts')
  BY <1>1 DEF DialogueInv, Holds, Needs
<1> QED  BY <1>1, <1>4, <1>5, <1>6 DEF DialogueInv

LEMMA DialogueStep == ASSUME DialogueInv, [UssdNext]_ussdVars PROVE DialogueInv'
<1>1. CASE UssdNext
  BY <1>1, ReplyKeeps, RepeatKeeps, DialKeeps, LoseKeeps DEF UssdNext
<1>2. CASE UNCHANGED ussdVars
  BY <1>2 DEF ussdVars, DialogueInv, Holds, Needs
<1> QED  BY <1>1, <1>2

\* UssdTypeOK and DialogueSound follow.
LEMMA DialogueShows == ASSUME DialogueInv PROVE UssdTypeOK /\ ResetIsEarned /\ ConsentIsInformed
<1>1. UssdTypeOK
  BY DEF DialogueInv, UssdTypeOK, Holds, SessionForms, FactsHold
<1>2. ResetIsEarned
  BY DEF DialogueInv, ResetIsEarned, FactsHold
<1>3. ConsentIsInformed
  BY DEF DialogueInv, ConsentIsInformed, UndisclosedOnlyIfRepeated, SecondRepaymentOnlyIfUnseen,
         FactsHold, Disclosed, Unseen
<1> QED  BY <1>1, <1>2, <1>3

\* What a borrower decides is decided on the screens shown, by the PIN or the answers
\* asked for (handler.go, navigation.go): no PIN is reset unearned, no loan is asked
\* for without its terms and no second repayment is started, but for the repeats and
\* lost writes the facts name, for any number of them.
THEOREM DialogueStaysSound ==
  UssdInit /\ [][UssdNext]_ussdVars => [](UssdTypeOK /\ ResetIsEarned /\ ConsentIsInformed)
BY DialogueStarts, DialogueStep, DialogueShows, PTL

-----------------------------------------------------------------------------
(* Sign-in (Login) *)

\* A challenge that is not among the reopened ones is verified by one call at a time,
\* and once it has admitted its account it is gone and nobody verifies it.
Spent ==
  \A c \in ChallengeID \ reopened :
    /\ admitted[c] <= 1
    /\ admitted[c] = 1 => challenge[c].held = "gone" /\ \A v \in Verifier : verifying[v] # c
    /\ \A v, w \in Verifier : verifying[v] = c /\ verifying[w] = c => v = w

\* Whoever is about to be admitted has signed.
AboutToEnter ==
  \A v \in Verifier : verifying[v] # NoChallenge =>
    /\ challenge[verifying[v]].held # "no"
    /\ challenge[verifying[v]].account \in proven

LoginInv ==
  /\ LoginTypeOK /\ Spent /\ AboutToEnter /\ SessionsEnd
  /\ \A a \in Account : vouched[a] <= moment

LEMMA LoginStarts == LoginInit => LoginInv
<1> SUFFICES ASSUME LoginInit PROVE LoginInv
  OBVIOUS
<1>1. \A c \in ChallengeID : c # NoChallenge /\ c \in Nat
  BY LoginAssumption DEF ChallengeID, NoChallenge
<1>2. [held |-> "no", account |-> AdminPublicKey, expires |-> 0] \in ChallengeRow
  BY LoginAssumption DEF ChallengeRow
<1>3. LoginTypeOK
  BY <1>1, <1>2 DEF LoginInit, LoginTypeOK
<1>4. Spent /\ AboutToEnter /\ SessionsEnd /\ \A a \in Account : vouched[a] <= moment
  BY <1>1 DEF LoginInit, Spent, AboutToEnter, SessionsEnd
<1> QED BY <1>3, <1>4 DEF LoginInv

\* What a step on one challenge may do to its row.
LEMMA RowStep ==
  ASSUME LoginInv, NEW c \in ChallengeID, NEW row \in ChallengeRow,
         challenge' = [challenge EXCEPT ![c] = row],
         challenge[c].held = "no" \/ row.account = challenge[c].account,
         row.held # "no", challenge[c].held = "gone" => row.held = "gone",
         UNCHANGED <<moment, verifying, cookie, operating, admitted, reopened, proven, vouched>>,
         loginFaults' \in Nat
  PROVE  LoginInv'
<1> USE DEF LoginInv
<1>1. challenge' \in [ChallengeID -> ChallengeRow]
  BY DEF LoginTypeOK
<1>2. LoginTypeOK'
  BY <1>1 DEF LoginTypeOK
<1>3. \A d \in ChallengeID : /\ challenge[d].held # "no" => challenge'[d].account = challenge[d].account
                             /\ challenge[d].held # "no" => challenge'[d].held # "no"
                             /\ challenge[d].held = "gone" => challenge'[d].held = "gone"
  BY DEF LoginTypeOK
<1>4. Spent'
  BY <1>3 DEF Spent
<1>5. AboutToEnter'
  BY <1>3 DEF AboutToEnter, LoginTypeOK
<1>6. SessionsEnd' /\ \A a \in Account : vouched'[a] <= moment'
  BY DEF SessionsEnd
<1> QED BY <1>2, <1>4, <1>5, <1>6

LEMMA GenerateStep ==
  ASSUME LoginInv, NEW c \in ChallengeID, NEW a \in Account, GenerateChallengeFor(c, a)
  PROVE  LoginInv'
<1>1. moment + ChallengeExpiration \in Nat /\ loginFaults' \in Nat
  BY LoginAssumption DEF LoginInv, LoginTypeOK, GenerateChallengeFor, LoginFaulty
<1>2. PICK h \in {"yes", "gone"} :
        challenge' = [challenge EXCEPT ![c] = [held |-> h, account |-> a, expires |-> moment + ChallengeExpiration]]
  BY DEF GenerateChallengeFor
<1> DEFINE row == [held |-> h, account |-> a, expires |-> moment + ChallengeExpiration]
<1>3. row \in ChallengeRow /\ row.held # "no"
  BY <1>1 DEF ChallengeRow
<1>4. challenge' = [challenge EXCEPT ![c] = row]
  BY <1>2
<1>5. challenge[c].held = "no" /\ UNCHANGED <<moment, verifying, cookie, operating, admitted, reopened, proven, vouched>>
  BY DEF GenerateChallengeFor
<1> HIDE DEF row
<1> QED BY <1>1, <1>3, <1>4, <1>5, RowStep

\* The row of a challenge that is deleted.
LEMMA GoneRow ==
  ASSUME LoginInv, NEW c \in ChallengeID
  PROVE  \E row \in ChallengeRow : /\ [challenge EXCEPT ![c].held = "gone"] = [challenge EXCEPT ![c] = row]
                                   /\ row.held = "gone" /\ row.account = challenge[c].account
<1> DEFINE row == [challenge[c] EXCEPT !.held = "gone"]
<1>1. challenge[c] \in ChallengeRow
  BY DEF LoginInv, LoginTypeOK
<1>2. row \in ChallengeRow /\ row.held = "gone" /\ row.account = challenge[c].account
  BY <1>1 DEF ChallengeRow
<1>3. [challenge EXCEPT ![c].held = "gone"] = [challenge EXCEPT ![c] = row]
  OBVIOUS
<1> QED BY <1>2, <1>3

LEMMA GoneStep ==
  ASSUME LoginInv, NEW c \in ChallengeID, challenge[c].held # "no",
         challenge' = [challenge EXCEPT ![c].held = "gone"] \/ UNCHANGED challenge,
         UNCHANGED <<moment, verifying, cookie, operating, admitted, reopened, proven, vouched>>,
         loginFaults' \in Nat
  PROVE  LoginInv'
<1>1. CASE challenge' = [challenge EXCEPT ![c].held = "gone"]
  <2>1. PICK row \in ChallengeRow : /\ challenge' = [challenge EXCEPT ![c] = row]
                                    /\ row.held = "gone" /\ row.account = challenge[c].account
    BY <1>1, GoneRow
  <2>2. row.held # "no"
    BY <2>1
  <2> QED BY <2>1, <2>2, RowStep
<1>2. CASE UNCHANGED challenge
  BY <1>2 DEF LoginInv, LoginTypeOK, Spent, AboutToEnter, SessionsEnd
<1> QED BY <1>1, <1>2

LEMMA CheckStep ==
  ASSUME LoginInv, NEW v \in Verifier, NEW c \in ChallengeID,
         NEW signed \in [of : ChallengeID, by : Account], CheckSigned(v, c, signed)
  PROVE  LoginInv'
<1> USE DEF LoginInv
<1>1. /\ verifying[v] = NoChallenge /\ challenge[c].held = "yes" /\ signed.by = challenge[c].account
      /\ verifying' = [verifying EXCEPT ![v] = c]
      /\ reopened' = reopened \cup {d \in {c} : \E w \in Verifier : verifying[w] = d}
      /\ proven' = proven \cup {signed.by}
      /\ UNCHANGED <<moment, challenge, cookie, operating, loginFaults, admitted, vouched>>
  BY DEF CheckSigned
<1>2. c # NoChallenge /\ signed.by \in Account
  BY LoginAssumption DEF ChallengeID, NoChallenge
<1>3. LoginTypeOK'
  BY <1>1, <1>2 DEF LoginTypeOK
<1>4. \A w \in Verifier : verifying'[w] = IF w = v THEN c ELSE verifying[w]
  BY <1>1 DEF LoginTypeOK
<1>5. Spent'
  <2> SUFFICES ASSUME NEW d \in ChallengeID, d \notin reopened'
               PROVE  /\ admitted'[d] <= 1
                      /\ admitted'[d] = 1 => challenge'[d].held = "gone" /\ \A w \in Verifier : verifying'[w] # d
                      /\ \A w, x \in Verifier : verifying'[w] = d /\ verifying'[x] = d => w = x
    BY DEF Spent
  <2>1. d \notin reopened /\ (d = c => \A w \in Verifier : verifying[w] # c)
    BY <1>1
  <2>2. admitted[d] <= 1 /\ (d = c => admitted[d] # 1)
    BY <1>1, <2>1 DEF Spent
  <2> QED BY <1>1, <1>4, <2>1, <2>2 DEF Spent
<1>6. AboutToEnter'
  BY <1>1, <1>4 DEF AboutToEnter
<1>7. SessionsEnd' /\ \A a \in Account : vouched'[a] <= moment'
  BY <1>1 DEF SessionsEnd
<1> QED BY <1>3, <1>5, <1>6, <1>7

LEMMA AdmitStep ==
  ASSUME LoginInv, NEW v \in Verifier, NEW c \in ChallengeID, Admit(v, c)
  PROVE  LoginInv'
<1> USE DEF LoginInv
<1> DEFINE a == challenge[c].account
<1>1. /\ verifying[v] = c
      /\ verifying' = [verifying EXCEPT ![v] = NoChallenge]
      /\ cookie' = [cookie EXCEPT ![a] = moment + JWTExpiration]
      /\ vouched' = [vouched EXCEPT ![a] = moment]
      /\ admitted' = [admitted EXCEPT ![c] = admitted[c] + 1]
      /\ UNCHANGED <<moment, operating, proven>>
  BY DEF Admit, Finishes
<1>2. \/ challenge' = [challenge EXCEPT ![c].held = "gone"] /\ loginFaults' = loginFaults /\ reopened' = reopened
      \/ challenge' = challenge /\ loginFaults' = loginFaults + 1 /\ reopened' = reopened \cup {c}
  BY DEF Admit, DeleteChallenge, LoginFaulty, LoginTypeOK
<1>3. c # NoChallenge /\ a \in Account /\ a \in proven /\ moment + JWTExpiration \in Nat
  <2>1. c # NoChallenge /\ moment + JWTExpiration \in Nat
    BY LoginAssumption DEF ChallengeID, NoChallenge, LoginTypeOK
  <2>2. challenge[c] \in ChallengeRow
    BY DEF LoginTypeOK
  <2>3. a \in Account
    BY <2>2 DEF ChallengeRow
  <2>4. a \in proven
    BY <1>1, <2>1 DEF AboutToEnter
  <2> QED BY <2>1, <2>3, <2>4
<1>4. /\ challenge' \in [ChallengeID -> ChallengeRow]
      /\ \A d \in ChallengeID : /\ challenge'[d].account = challenge[d].account
                                /\ challenge[d].held # "no" => challenge'[d].held # "no"
                                /\ challenge[d].held = "gone" => challenge'[d].held = "gone"
                                /\ d # c => challenge'[d] = challenge[d]
  <2>1. CASE challenge' = [challenge EXCEPT ![c].held = "gone"]
    <3>1. PICK row \in ChallengeRow : /\ challenge' = [challenge EXCEPT ![c] = row]
                                      /\ row.held = "gone" /\ row.account = challenge[c].account
      BY <2>1, GoneRow
    <3> QED BY <3>1 DEF LoginTypeOK
  <2> QED BY <1>2, <2>1 DEF LoginTypeOK
<1> HIDE DEF a
<1>5. loginFaults' \in Nat /\ reopened' \subseteq ChallengeID
  BY <1>2 DEF LoginTypeOK
<1>6. /\ cookie' \in [Account -> Nat] /\ vouched' \in [Account -> Nat] /\ admitted' \in [ChallengeID -> Nat]
      /\ verifying' \in [Verifier -> ChallengeID \cup {NoChallenge}]
  BY <1>1, <1>3 DEF LoginTypeOK
<1>7. LoginTypeOK'
  BY <1>1, <1>4, <1>5, <1>6 DEF LoginTypeOK
<1>8. \A w \in Verifier : verifying'[w] = IF w = v THEN NoChallenge ELSE verifying[w]
  BY <1>1 DEF LoginTypeOK
<1>9. Spent'
  <2> SUFFICES ASSUME NEW d \in ChallengeID, d \notin reopened'
               PROVE  /\ admitted'[d] <= 1
                      /\ admitted'[d] = 1 => challenge'[d].held = "gone" /\ \A w \in Verifier : verifying'[w] # d
                      /\ \A w, x \in Verifier : verifying'[w] = d /\ verifying'[x] = d => w = x
    BY DEF Spent
  <2>1. d \notin reopened /\ d # NoChallenge
    BY <1>2, LoginAssumption DEF ChallengeID, NoChallenge
  <2>2. CASE d = c
    <3>1. challenge'[c].held = "gone"
      BY <1>2, <2>2 DEF LoginTypeOK, ChallengeRow
    <3>2. admitted[c] \in Nat /\ admitted[c] <= 1 /\ admitted[c] # 1
      BY <1>1, <2>1, <2>2 DEF Spent, LoginTypeOK
    <3>3. admitted'[c] = 1
      BY <1>1, <3>2 DEF LoginTypeOK
    <3>4. \A w \in Verifier : verifying'[w] # c
      BY <1>1, <1>3, <1>8, <2>1, <2>2 DEF Spent
    <3> QED BY <2>2, <3>1, <3>3, <3>4
  <2>3. CASE d # c
    <3>1. admitted'[d] = admitted[d] /\ challenge'[d] = challenge[d]
      BY <1>1, <1>4, <2>3 DEF LoginTypeOK
    <3> QED BY <1>8, <2>1, <3>1 DEF Spent
  <2> QED BY <2>2, <2>3
<1>10. AboutToEnter'
  BY <1>1, <1>4, <1>8 DEF AboutToEnter, LoginTypeOK
<1>11. \A b \in Account : /\ cookie'[b] = IF b = a THEN moment + JWTExpiration ELSE cookie[b]
                          /\ vouched'[b] = IF b = a THEN moment ELSE vouched[b]
  BY <1>1 DEF LoginTypeOK
<1>12. SessionsEnd' /\ \A b \in Account : vouched'[b] <= moment'
  BY <1>1, <1>3, <1>11 DEF SessionsEnd, LoginTypeOK
<1> QED BY <1>7, <1>9, <1>10, <1>12

LEMMA SessionStep ==
  ASSUME LoginInv, NEW a \in Account, Serve(a) \/ TurnAway(a) \/ Enrol(a)
  PROVE  LoginInv'
<1> USE DEF LoginInv
<1>1. CASE Serve(a)
  <2>1. /\ moment < cookie[a]
        /\ cookie' = [cookie EXCEPT ![a] = IF ShouldRefresh(cookie[a]) THEN moment + JWTExpiration ELSE cookie[a]]
        /\ vouched' = [vouched EXCEPT ![a] = moment]
        /\ UNCHANGED <<moment, challenge, verifying, operating, loginFaults, admitted, reopened, proven>>
    BY <1>1 DEF Serve
  <2>2. moment + JWTExpiration \in Nat /\ cookie[a] \in Nat /\ moment \in Nat /\ vouched[a] \in Nat /\ JWTExpiration \in Nat
    BY LoginAssumption DEF LoginTypeOK
  <2>3. LoginTypeOK'
    BY <2>1, <2>2 DEF LoginTypeOK
  <2>4. Spent' /\ AboutToEnter'
    BY <2>1 DEF Spent, AboutToEnter
  <2>5. a \in proven /\ cookie[a] <= moment + JWTExpiration
    BY <2>1, <2>2 DEF SessionsEnd
  <2>6. \A b \in Account \ {a} : cookie'[b] = cookie[b] /\ vouched'[b] = vouched[b]
    BY <2>1 DEF LoginTypeOK
  <2>7. vouched'[a] = moment /\ cookie'[a] <= moment + JWTExpiration
    BY <2>1, <2>2, <2>5 DEF LoginTypeOK
  <2>8. SessionsEnd' /\ \A b \in Account : vouched'[b] <= moment'
    BY <2>1, <2>2, <2>5, <2>6, <2>7 DEF SessionsEnd
  <2> QED BY <2>3, <2>4, <2>8
<1>2. CASE TurnAway(a)
  <2>1. /\ cookie' = [cookie EXCEPT ![a] = 0]
        /\ UNCHANGED <<moment, challenge, verifying, operating, admitted, reopened, proven, vouched>>
        /\ loginFaults' \in Nat
    BY <1>2 DEF TurnAway, LoginFaulty, LoginTypeOK
  <2>2. LoginTypeOK'
    BY <2>1 DEF LoginTypeOK
  <2>3. Spent' /\ AboutToEnter' /\ SessionsEnd' /\ \A b \in Account : vouched'[b] <= moment'
    BY <2>1 DEF Spent, AboutToEnter, SessionsEnd, LoginTypeOK
  <2> QED BY <2>2, <2>3
<1>3. CASE Enrol(a)
  BY <1>3 DEF Enrol, LoginTypeOK, Spent, AboutToEnter, SessionsEnd
<1> QED BY <1>1, <1>2, <1>3

LEMMA LoginSteps == LoginInv /\ [LoginNext]_loginVars => LoginInv'
<1> SUFFICES ASSUME LoginInv, [LoginNext]_loginVars PROVE LoginInv'
  OBVIOUS
<1>1. CASE UNCHANGED loginVars
  BY <1>1 DEF loginVars, LoginInv, LoginTypeOK, Spent, AboutToEnter, SessionsEnd
<1>2. ASSUME NEW c \in ChallengeID, Evict(c) \/ RefuseExpired(c) PROVE LoginInv'
  <2>1. /\ challenge[c].held # "no"
        /\ challenge' = [challenge EXCEPT ![c].held = "gone"] \/ UNCHANGED challenge
        /\ UNCHANGED <<moment, verifying, cookie, operating, admitted, reopened, proven, vouched>>
    BY <1>2 DEF Evict, RefuseExpired, DeleteChallenge
  <2>2. loginFaults' \in Nat
    BY <1>2 DEF Evict, RefuseExpired, DeleteChallenge, LoginFaulty, LoginInv, LoginTypeOK
  <2> QED BY <2>1, <2>2, GoneStep
<1>3. CASE MomentPasses
  BY <1>3 DEF MomentPasses, LoginInv, LoginTypeOK, Spent, AboutToEnter, SessionsEnd
<1> QED BY <1>1, <1>2, <1>3, GenerateStep, CheckStep, AdmitStep, SessionStep DEF LoginNext

\* A challenge admits once, but for two verifications that held it or a delete that
\* failed, and a session ends one lifetime after its account was last found authorised
\* (challenge.go, auth_middleware.go).
LEMMA LoginShows == LoginInv => LoginTypeOK /\ LoginSound
BY DEF LoginInv, Spent, AdmitsOnce, LoginSound, LoginTypeOK

-----------------------------------------------------------------------------
(* The payment relay (Relay) *)

RouteTyped ==
  /\ setup \in [enabled : BOOLEAN, default : Source, serves : [Source -> SUBSET Direction]]
  /\ rates \in [Source -> [Direction -> 0..MaxRate]]
  /\ moves \in 0..MaxMoves /\ shifted \in BOOLEAN
  /\ routing \in [at : {"idle", "buy", "sell", "weigh", "given"}, direction : Direction,
                  best : Quote \cup {NoQuote}, buy : Quote \cup {NoQuote}, sell : Quote \cup {NoQuote}]

\* What the router has heard is usable, and, while no rate has moved, still the best.
Asked ==
  /\ routing.at # "idle" =>
       /\ routing.best.rate > 0
       /\ setup.enabled => routing.direction \in setup.serves[routing.best.source]
       /\ ~setup.enabled => routing.best.source = setup.default
       /\ ~shifted => routing.best \in Best(routing.direction)
  /\ routing.at \in {"sell", "weigh", "given"} =>
       routing.buy.rate > 0 /\ (~shifted => routing.buy \in Best("on_ramp"))
  /\ routing.at \in {"weigh", "given"} => (~shifted => routing.sell \in Best("off_ramp"))
  /\ routing.at = "given" => WithinMargin(routing.buy, routing.sell)

RouteInv == RouteTyped /\ Asked

\* Better is strict, so the best answers of a direction agree on the rate.
LEMMA BestAgree ==
  ASSUME RouteTyped, NEW d \in Direction, NEW q \in Best(d), NEW r \in Best(d)
  PROVE  /\ q \in Quote /\ q.rate > 0 /\ q.rate = r.rate
         /\ setup.enabled => d \in setup.serves[q.source]
         /\ ~setup.enabled => q.source = setup.default
<1> DEFINE one == [source |-> setup.default, rate |-> rates[setup.default][d]]
<1>1. CASE setup.enabled
  <2>1. q \in Quotes(d) /\ r \in Quotes(d) /\ ~Better(d, r, q) /\ ~Better(d, q, r)
    BY <1>1 DEF Best
  <2>2. PICK s \in Source : /\ d \in setup.serves[s] /\ rates[s][d] > 0
                            /\ q = [source |-> s, rate |-> rates[s][d]]
    BY <2>1 DEF Quotes
  <2>3. PICK t \in Source : r = [source |-> t, rate |-> rates[t][d]]
    BY <2>1 DEF Quotes
  <2>4. rates[s][d] \in 0..MaxRate /\ rates[t][d] \in 0..MaxRate
    BY DEF RouteTyped
  <2>5. q \in Quote
    BY <2>2, <2>4 DEF Quote
  <2>6. q.rate \in Int /\ r.rate \in Int
    BY <2>2, <2>3, <2>4
  <2> QED BY <1>1, <2>1, <2>2, <2>5, <2>6 DEF Better
<1>2. CASE ~setup.enabled
  <2>1. q = one /\ r = one /\ one.rate > 0
    BY <1>2 DEF Best
  <2>2. setup.default \in Source
    BY DEF RouteTyped
  <2>3. rates[setup.default][d] \in 0..MaxRate
    BY <2>2 DEF RouteTyped
  <2>4. one \in Quote
    BY <2>2, <2>3 DEF Quote
  <2> QED BY <1>2, <2>1, <2>4
<1> QED BY <1>1, <1>2

LEMMA RestingTyped ==
  Resting \in [at : {"idle", "buy", "sell", "weigh", "given"}, direction : Direction,
               best : Quote \cup {NoQuote}, buy : Quote \cup {NoQuote}, sell : Quote \cup {NoQuote}]
BY DEF Resting, Direction

LEMMA RouteStarts == RouteInit => RouteInv
<1> SUFFICES ASSUME RouteInit PROVE RouteInv
  OBVIOUS
<1>1. setup \in [enabled : BOOLEAN, default : Source, serves : [Source -> SUBSET Direction]]
  BY Zenon DEF RouteInit
<1>2. /\ rates \in [Source -> [Direction -> 0..MaxRate]] /\ moves \in 0..MaxMoves
  BY RelayAssumption DEF RouteInit
<1>3. shifted \in BOOLEAN /\ routing = Resting /\ routing.at = "idle"
  BY DEF RouteInit, Resting
<1> QED BY <1>1, <1>2, <1>3, RestingTyped DEF RouteInv, RouteTyped, Asked

\* A request begins with its best answer.
LEMMA BeginStep ==
  ASSUME RouteInv, NEW d \in Direction, BeginRoute(d)
  PROVE  RouteInv'
<1>1. PICK q \in Best(d) : routing' = [Resting EXCEPT !.at = "buy", !.direction = d, !.best = q]
  BY DEF BeginRoute
<1>2. shifted' = FALSE /\ UNCHANGED <<setup, rates, moves>>
  BY DEF BeginRoute
<1>3. RouteTyped
  BY DEF RouteInv
<1>4. /\ q \in Quote /\ q.rate > 0
      /\ setup.enabled => d \in setup.serves[q.source]
      /\ ~setup.enabled => q.source = setup.default
  BY <1>3, BestAgree
<1>5. routing' = [at |-> "buy", direction |-> d, best |-> q, buy |-> NoQuote, sell |-> NoQuote]
  BY <1>1 DEF Resting
<1>6. RouteTyped'
  BY <1>2, <1>3, <1>4, <1>5 DEF RouteTyped
<1>7. Best(d)' = Best(d)
  BY <1>2 DEF Best, Quotes
<1>8. Asked'
  BY <1>2, <1>4, <1>5, <1>7 DEF Asked, Best, Quotes
<1> QED BY <1>6, <1>8 DEF RouteInv

LEMMA BestStays ==
  ASSUME UNCHANGED <<setup, rates>>
  PROVE  Best("on_ramp")' = Best("on_ramp") /\ Best("off_ramp")' = Best("off_ramp")
BY DEF Best, Quotes

LEMMA AskStep ==
  ASSUME RouteInv, AskBuy \/ AskSell \/ Weigh \/ TakeQuote
  PROVE  RouteInv'
<1>1. RouteTyped /\ Asked
  BY DEF RouteInv
<1>2. "on_ramp" \in Direction /\ "off_ramp" \in Direction /\ routing.direction \in Direction
  BY <1>1 DEF Direction, RouteTyped
<1>3. UNCHANGED <<setup, rates, moves>> /\ shifted' \in BOOLEAN
  BY <1>1 DEF AskBuy, AskSell, Weigh, TakeQuote, RouteTyped
<1>4. Best("on_ramp")' = Best("on_ramp") /\ Best("off_ramp")' = Best("off_ramp")
  BY <1>3, BestStays
<1>5. CASE routing' = Resting
  <2>1. RouteTyped'
    BY <1>1, <1>3, <1>5, RestingTyped DEF RouteTyped
  <2>2. routing'.at = "idle"
    BY <1>5 DEF Resting
  <2> QED BY <2>1, <2>2 DEF RouteInv, Asked
<1>6. ASSUME routing.at = "buy", NEW q \in Best("on_ramp"),
             routing' = [routing EXCEPT !.at = "sell", !.buy = q], UNCHANGED shifted
      PROVE  RouteInv'
  <2>1. q \in Quote /\ q.rate > 0
    BY <1>1, <1>2, <1>6, BestAgree
  <2>2. /\ routing'.at = "sell" /\ routing'.buy = q /\ routing'.direction = routing.direction
        /\ routing'.best = routing.best
        /\ routing' \in [at : {"idle", "buy", "sell", "weigh", "given"}, direction : Direction,
                         best : Quote \cup {NoQuote}, buy : Quote \cup {NoQuote}, sell : Quote \cup {NoQuote}]
    BY <1>1, <1>6, <2>1 DEF RouteTyped
  <2>3. RouteTyped'
    BY <1>1, <1>3, <2>2 DEF RouteTyped
  <2>4. Asked'
    BY <1>1, <1>2, <1>3, <1>4, <1>6, <2>1, <2>2 DEF Asked, Direction
  <2> QED BY <2>3, <2>4 DEF RouteInv
<1>7. ASSUME routing.at = "sell", NEW q \in Best("off_ramp"),
             routing' = [routing EXCEPT !.at = "weigh", !.sell = q], UNCHANGED shifted
      PROVE  RouteInv'
  <2>1. q \in Quote
    BY <1>1, <1>2, <1>7, BestAgree
  <2>2. /\ routing'.at = "weigh" /\ routing'.sell = q /\ routing'.direction = routing.direction
        /\ routing'.best = routing.best /\ routing'.buy = routing.buy
        /\ routing' \in [at : {"idle", "buy", "sell", "weigh", "given"}, direction : Direction,
                         best : Quote \cup {NoQuote}, buy : Quote \cup {NoQuote}, sell : Quote \cup {NoQuote}]
    BY <1>1, <1>7, <2>1 DEF RouteTyped
  <2>3. RouteTyped'
    BY <1>1, <1>3, <2>2 DEF RouteTyped
  <2>4. Asked'
    BY <1>1, <1>2, <1>3, <1>4, <1>7, <2>2 DEF Asked, Direction
  <2> QED BY <2>3, <2>4 DEF RouteInv
<1>8. ASSUME routing.at = "weigh", WithinMargin(routing.buy, routing.sell),
             routing' = [routing EXCEPT !.at = "given"], UNCHANGED shifted
      PROVE  RouteInv'
  <2>2. /\ routing'.at = "given" /\ routing'.sell = routing.sell /\ routing'.direction = routing.direction
        /\ routing'.best = routing.best /\ routing'.buy = routing.buy
        /\ routing' \in [at : {"idle", "buy", "sell", "weigh", "given"}, direction : Direction,
                         best : Quote \cup {NoQuote}, buy : Quote \cup {NoQuote}, sell : Quote \cup {NoQuote}]
    BY <1>1, <1>8 DEF RouteTyped
  <2>3. RouteTyped'
    BY <1>1, <1>3, <2>2 DEF RouteTyped
  <2>4. WithinMargin(routing'.buy, routing'.sell)
    BY <1>8, <2>2
  <2>5. Asked'
    BY <1>1, <1>2, <1>3, <1>4, <1>8, <2>2, <2>4 DEF Asked, Direction, WithinMargin
  <2> QED BY <2>3, <2>5 DEF RouteInv
<1> QED BY <1>5, <1>6, <1>7, <1>8 DEF AskBuy, AskSell, Weigh, TakeQuote

LEMMA MoveStep ==
  ASSUME RouteInv, NEW s \in Source, NEW d \in Direction, RateMoves(s, d)
  PROVE  RouteInv'
<1>1. RouteTyped /\ Asked
  BY DEF RouteInv
<1>2. PICK rate \in Fiat(s, d) : rates' = [rates EXCEPT ![s] = [rates[s] EXCEPT ![d] = rate]]
  BY DEF RateMoves
<1>3. /\ moves < MaxMoves /\ moves' = moves + 1 /\ shifted' = (routing.at # "idle")
      /\ UNCHANGED <<setup, routing>>
  BY DEF RateMoves
<1>4. rate \in 0..MaxRate
  BY <1>2 DEF Fiat
<1>5. rates' \in [Source -> [Direction -> 0..MaxRate]]
  BY <1>1, <1>2, <1>4 DEF RouteTyped
<1>6. moves' \in 0..MaxMoves
  BY <1>1, <1>3, RelayAssumption DEF RouteTyped
<1>7. shifted' \in BOOLEAN
  BY <1>3
<1>8. RouteTyped'
  BY <1>1, <1>3, <1>5, <1>6, <1>7 DEF RouteTyped
<1>9. Asked'
  BY <1>1, <1>3 DEF Asked, WithinMargin
<1> QED BY <1>8, <1>9 DEF RouteInv

LEMMA RouteSteps == RouteInv /\ [RoutingNext]_routeVars => RouteInv'
<1> SUFFICES ASSUME RouteInv, [RoutingNext]_routeVars PROVE RouteInv'
  OBVIOUS
<1>1. CASE UNCHANGED routeVars
  BY <1>1 DEF routeVars, RouteInv, RouteTyped, Asked, Best, Quotes, WithinMargin
<1> QED BY <1>1, BeginStep, AskStep, MoveStep DEF RoutingNext

LEMMA RouteShows == RouteInv => QuotesWeighed
<1> SUFFICES ASSUME RouteInv, routing.at = "given"
             PROVE  LET best == routing.best IN
                    /\ best.rate > 0 /\ routing.buy.rate > 0
                    /\ setup.enabled => routing.direction \in setup.serves[best.source]
                    /\ ~setup.enabled => best.source = setup.default
                    /\ ~shifted => IF routing.direction = "on_ramp"
                                   THEN (routing.sell.rate - best.rate) * 100 >= -(MaxLoss * best.rate)
                                   ELSE (best.rate - routing.buy.rate) * 100 >= -(MaxLoss * routing.buy.rate)
  BY DEF QuotesWeighed
<1>1. RouteTyped /\ Asked
  BY DEF RouteInv
<1>2. (routing.sell.rate - routing.buy.rate) * 100 >= -(MaxLoss * routing.buy.rate)
  BY <1>1 DEF Asked, WithinMargin
<1>3. "on_ramp" \in Direction /\ "off_ramp" \in Direction /\ routing.direction \in Direction
  BY <1>1 DEF Direction, RouteTyped
<1>4. ASSUME ~shifted, routing.direction = "on_ramp" PROVE routing.best.rate = routing.buy.rate
  BY <1>1, <1>3, <1>4, BestAgree DEF Asked
<1>5. ASSUME ~shifted, routing.direction # "on_ramp" PROVE routing.best.rate = routing.sell.rate
  BY <1>1, <1>3, <1>5, BestAgree DEF Asked, Direction
<1> QED BY <1>1, <1>2, <1>4, <1>5 DEF Asked

-----------------------------------------------------------------------------
(* A disbursement through Fonbnk (Relay) *)

OrdersTyped ==
  /\ orders \in [Order -> {"none", "refused", "open", "cancelled", "confirmed"}]
  /\ landed \subseteq Order /\ misread \subseteq Order
  /\ till \in [order : Order \cup {0}, at : {"away", "send", "confirm"}]
  /\ heard \in {"nothing", "error", "done"} /\ relayFaults \in Nat

\* The order in hand is open, and every other one whose USDC landed was misread.
OneInHand ==
  /\ till.at = "away" => till = Away /\ (heard # "done" => landed \subseteq misread)
  /\ till.at # "away" => /\ heard # "done" /\ till.order \in Order /\ orders[till.order] = "open"
                         /\ landed \ {till.order} \subseteq misread
                         /\ till.at = "send" => till.order \notin landed
                         /\ till.at = "confirm" => till.order \in landed
  /\ \A k \in landed : orders[k] # "none"

OrdersInv == OrdersTyped /\ OneInHand /\ OrdersPaidOnce

LEMMA OrdersStart == OrdersInit => OrdersInv
BY RelayAssumption DEF OrdersInit, OrdersInv, OrdersTyped, OneInHand, OrdersPaidOnce, Away

LEMMA AwayApart == Away \in [order : Order \cup {0}, at : {"away", "send", "confirm"}] /\ Away.at = "away"
BY DEF Away

LEMMA CreateOrderStep == ASSUME OrdersInv, NEW k \in Order, CreateOrder(k) PROVE OrdersInv'
<1>1. /\ till = Away /\ heard # "done" /\ orders[k] = "none" /\ UNCHANGED <<landed, misread>>
      /\ till' \in {Away, [order |-> k, at |-> "send"]}
      /\ till' = Away => heard' = "error"
      /\ till' # Away => heard' = heard /\ orders' = [orders EXCEPT ![k] = "open"]
      /\ \E s \in {"refused", "open"} : orders' = [orders EXCEPT ![k] = s]
      /\ relayFaults' \in Nat
  <2>1. relayFaults \in Nat /\ [order |-> k, at |-> "send"].at = "send" /\ Away.at = "away"
    BY AwayApart DEF OrdersInv, OrdersTyped
  <2>2. [order |-> k, at |-> "send"] # Away
    BY <2>1
  <2>3. /\ till = Away /\ heard # "done" /\ orders[k] = "none" /\ UNCHANGED <<landed, misread>>
    BY DEF CreateOrder
  <2>4. CASE \E s \in {"refused", "open"} : orders' = [orders EXCEPT ![k] = s] /\ till' = Away /\ heard' = "error"
    <3>1. relayFaults' \in Nat
      BY <2>1 DEF CreateOrder, RelayFault
    <3> QED BY <2>3, <2>4, <3>1
  <2>5. CASE /\ orders' = [orders EXCEPT ![k] = "open"] /\ till' = [order |-> k, at |-> "send"]
             /\ UNCHANGED <<heard, relayFaults>>
    BY <2>1, <2>2, <2>3, <2>5
  <2> QED BY <2>4, <2>5 DEF CreateOrder, Leaves
<1>2. PICK s \in {"refused", "open"} : orders' = [orders EXCEPT ![k] = s]
  BY <1>1
<1>3. landed \subseteq misread /\ k \notin landed
  BY <1>1, AwayApart DEF OrdersInv, OneInHand
<1>4. [order |-> k, at |-> "send"] \in [order : Order \cup {0}, at : {"away", "send", "confirm"}]
  OBVIOUS
<1>5. OrdersTyped'
  BY <1>1, <1>2, <1>4, AwayApart DEF OrdersInv, OrdersTyped
<1>6. \A j \in Order : orders'[j] = IF j = k THEN s ELSE orders[j]
  BY <1>2 DEF OrdersInv, OrdersTyped
<1>7. landed \subseteq Order
  BY DEF OrdersInv, OrdersTyped
<1>8. OneInHand'
  <2>1. CASE till' = Away
    BY <1>1, <1>3, <1>6, <1>7, <2>1, AwayApart DEF OneInHand, OrdersInv
  <2>2. CASE till' = [order |-> k, at |-> "send"]
    <3>1. till'.at = "send" /\ till'.order = k /\ till' # Away
      BY <2>2, AwayApart
    <3>2. orders'[k] = "open" /\ heard' = heard
      BY <1>1, <3>1 DEF OrdersInv, OrdersTyped
    <3> QED BY <1>1, <1>3, <1>6, <1>7, <3>1, <3>2 DEF OneInHand, OrdersInv
  <2> QED BY <1>1, <2>1, <2>2
<1>9. OrdersPaidOnce'
  BY <1>1, <1>3, <1>6, <1>7 DEF OrdersPaidOnce, OrdersInv
<1> QED BY <1>5, <1>8, <1>9 DEF OrdersInv

\* An attempt that ends, whatever it leaves behind.
LEMMA GiveUpStep ==
  ASSUME OrdersInv, NEW k \in Order, till = [order |-> k, at |-> "send"], cancelQuietly(k),
         till' = Away, heard' = "error", relayFaults' \in Nat,
         \/ UNCHANGED <<landed, misread>>
         \/ landed' = landed \cup {k} /\ misread' = misread \cup {k}
  PROVE  OrdersInv'
<1>1. till.at = "send" /\ till.order = k
  OBVIOUS
<1>2. landed \subseteq misread /\ k \notin landed /\ orders[k] = "open" /\ landed \subseteq Order
  BY <1>1 DEF OrdersInv, OneInHand, OrdersTyped
<1>3. landed' \subseteq misread' /\ landed' \subseteq Order /\ misread' \subseteq Order
  BY <1>2 DEF OrdersInv, OrdersTyped
<1>4. \A j \in Order : orders'[j] = orders[j] \/ (j = k /\ orders'[j] = "cancelled")
  BY DEF cancelQuietly, OrdersInv, OrdersTyped
<1>5. orders' \in [Order -> {"none", "refused", "open", "cancelled", "confirmed"}]
  BY DEF cancelQuietly, OrdersInv, OrdersTyped
<1>6. OrdersTyped'
  BY <1>3, <1>5, AwayApart DEF OrdersTyped
<1>7. \A j \in landed' : orders'[j] # "none"
  BY <1>2, <1>4 DEF OrdersInv, OneInHand
<1>8. OneInHand'
  BY <1>3, <1>7, AwayApart DEF OneInHand
<1>9. OrdersPaidOnce'
  BY <1>3 DEF OrdersPaidOnce
<1> QED BY <1>6, <1>8, <1>9 DEF OrdersInv

LEMMA SendOrderStep == ASSUME OrdersInv, NEW k \in Order, SendToOrder(k) PROVE OrdersInv'
<1>1. till = [order |-> k, at |-> "send"]
  BY DEF SendToOrder
<1>2. till.at = "send" /\ till.order = k
  BY <1>1
<1>3. landed \subseteq misread /\ k \notin landed /\ orders[k] = "open" /\ landed \subseteq Order /\ heard # "done"
  BY <1>2 DEF OrdersInv, OneInHand, OrdersTyped
<1>4. CASE /\ landed' = landed \cup {k} /\ till' = [till EXCEPT !.at = "confirm"]
           /\ UNCHANGED <<orders, misread, heard, relayFaults>>
  <2>1. till' = [order |-> k, at |-> "confirm"]
    BY <1>1, <1>4
  <2>2. till'.at = "confirm" /\ till'.order = k
    BY <2>1
  <2>3. till' \in [order : Order \cup {0}, at : {"away", "send", "confirm"}]
    BY <2>1
  <2>4. OrdersTyped'
    BY <1>4, <2>3 DEF OrdersTyped, OrdersInv
  <2>5. OneInHand'
    BY <1>3, <1>4, <2>2 DEF OneInHand, OrdersInv
  <2>6. till' # Away
    BY <2>2, AwayApart
  <2>7. OrdersPaidOnce'
    BY <1>3, <1>4, <2>6 DEF OrdersPaidOnce, OrdersInv
  <2> QED BY <2>4, <2>5, <2>7 DEF OrdersInv
<1>5. CASE /\ cancelQuietly(k) /\ Leaves("error")
           /\ \/ UNCHANGED <<landed, misread, relayFaults>>
              \/ landed' = landed \cup {k} /\ misread' = misread \cup {k} /\ RelayFault
  <2>1. relayFaults' \in Nat
    BY <1>5 DEF RelayFault, OrdersInv, OrdersTyped
  <2>2. till' = Away /\ heard' = "error"
    BY <1>5 DEF Leaves
  <2> QED BY <1>1, <1>5, <2>1, <2>2, GiveUpStep
<1> QED BY <1>4, <1>5 DEF SendToOrder

LEMMA ConfirmStep == ASSUME OrdersInv, NEW k \in Order, ConfirmOrder(k) PROVE OrdersInv'
<1>1. till = [order |-> k, at |-> "confirm"] /\ till' = Away /\ heard' = "done" /\ UNCHANGED <<landed, misread, relayFaults>>
  BY DEF ConfirmOrder, Leaves
<1>2. till.at = "confirm" /\ till.order = k
  BY <1>1
<1>3. /\ k \in landed /\ orders[k] = "open" /\ landed \subseteq Order /\ landed \ {k} \subseteq misread
  BY <1>2 DEF OrdersInv, OneInHand, OrdersTyped
<1>4. /\ \A j \in Order : orders'[j] = orders[j] \/ (j = k /\ orders'[j] = "confirmed")
      /\ orders' \in [Order -> {"none", "refused", "open", "cancelled", "confirmed"}]
  BY DEF ConfirmOrder, OrdersInv, OrdersTyped
<1>5. OrdersTyped'
  BY <1>1, <1>4, AwayApart DEF OrdersInv, OrdersTyped
<1>6. OneInHand'
  BY <1>1, <1>3, <1>4, AwayApart DEF OneInHand, OrdersInv
<1>7. OrdersPaidOnce'
  BY <1>1, <1>3, <1>4 DEF OrdersPaidOnce, OrdersInv
<1> QED BY <1>5, <1>6, <1>7 DEF OrdersInv

LEMMA OrdersSteps == OrdersInv /\ [OrdersNext]_orderVars => OrdersInv'
<1> SUFFICES ASSUME OrdersInv, [OrdersNext]_orderVars PROVE OrdersInv'
  OBVIOUS
<1>1. CASE UNCHANGED orderVars
  BY <1>1 DEF orderVars, OrdersInv, OrdersTyped, OneInHand, OrdersPaidOnce
<1>2. ASSUME NEW k \in Order, NoTarget(k) PROVE OrdersInv'
  <2>1. relayFaults' \in Nat
    BY <1>2 DEF NoTarget, OrdersInv, OrdersTyped
  <2> QED BY <1>2, <2>1, GiveUpStep DEF NoTarget, Leaves
<1> QED BY <1>1, <1>2, CreateOrderStep, SendOrderStep, ConfirmStep DEF OrdersNext

\* A quote given out is of a source that serves its direction and within the margin,
\* and a loan's treasury money goes to one order, but for a transfer that landed and
\* was reported as failed (relay.go, offramp_fonbnk.go).
LEMMA RelayShows == RouteInv /\ OrdersInv => RelayTypeOK /\ RelaySound
BY RouteShows DEF RouteInv, RouteTyped, OrdersInv, OrdersTyped, RelayTypeOK, RelaySound

-----------------------------------------------------------------------------
(* The composition (MCRequests) *)

\* A step of MCRequests is a step of one part and leaves the others alone.
LEMMA PartsMoveAlone ==
  ASSUME [Next]_<<part, ussdVars, payoutVars, submitVars, credVars, peopleVars>>
  PROVE  /\ [UssdNext]_ussdVars
         /\ [PayoutsNext]_payoutVars
         /\ [SubmissionNext]_submitVars
         /\ [CredentialsNext]_credVars
         /\ [ScreeningNext]_screeningVars
         /\ [VerificationNext]_verificationVars
         /\ [LoginNext]_loginVars
         /\ [RoutingNext]_routeVars
         /\ [OrdersNext]_orderVars
BY DEF Next, UssdMoves, PayoutsMove, SubmissionMoves, CredentialsMove, ScreeningMoves,
       VerificationMoves, LoginMoves, RoutingMoves, OrdersMove, peopleVars, moneyVars, relayVars

\* Lenders are screened as two people decided, on evidence from every provider, and
\* what providers report about them is kept (screening_settings.go, switch.go,
\* combine.go, kyb.go, monitoring.go): whatever the sets of operators, providers'
\* answers, sessions and notifications, and the number of failures.
THEOREM ComplianceStaysSound == Spec => []ComplianceSound
<1>1. Init => ScreeningInit /\ VerificationInit
  BY DEF Init
<1> QED
  BY <1>1, PartsMoveAlone, ScreeningStaysSound, VerificationStaysSound, PTL
     DEF Spec, ComplianceSound

\* The invariants of the sign-in and of the relay hold of the server.
LEMMA LoginHolds == Spec => []LoginInv
<1>1. Init => LoginInit
  BY DEF Init
<1> QED
  BY <1>1, PartsMoveAlone, LoginStarts, LoginSteps, PTL DEF Spec

LEMMA RelayHolds == Spec => [](RouteInv /\ OrdersInv)
<1>1. Init => RouteInit /\ OrdersInit
  BY DEF Init
<1> QED
  BY <1>1, PartsMoveAlone, RouteStarts, RouteSteps, OrdersStart, OrdersSteps, PTL DEF Spec

\* Contract calls land once and callers are told what became of them, in the server where
\* everything else moves on beside them (transaction.go).
THEOREM RequestsStaySound == Spec => [](LandsOnce /\ OutcomesAreTrue)
<1>1. Init => SubmissionInit
  BY DEF Init
<1> QED
  BY <1>1, PartsMoveAlone, CallsLandOnce, ToldOutcomesAreTrue, PTL DEF Spec, SubmissionSpec

\* Requests made with a provider's token are performed once, and a sign-in challenge
\* admits one administrator, whose session ends when the account is no longer found
\* authorised (mpesa.go, airtel.go, anchor, challenge.go, auth_middleware.go): however
\* tokens expire, answers are lost and sign-ins overlap.
THEOREM TokensStaySound == Spec => []TokensSound
<1>1. Init => CredentialsInit
  BY DEF Init
<1> QED
  BY <1>1, PartsMoveAlone, CredentialsStaySound, LoginHolds, LoginShows, PTL
     DEF Spec, TokensSound

\* A loan is paid out on one rail, its USDC goes back to the vault only while it is at
\* home, and the relay gives out rates that were weighed and pays one order
\* (offramp_yellowcard.go, refund_poller.go, relay.go, offramp_fonbnk.go): for any number
\* of failures, any rates and any largest loss the relay accepts.
THEOREM PaymentsStaySound == Spec => []PaymentsSound
<1>1. Init => PayoutsInit
  BY DEF Init
<1> QED
  BY <1>1, PartsMoveAlone, PayoutStaysSound, RelayHolds, RelayShows, PTL
     DEF Spec, PayoutsSpec, PaymentsSound

\* Every part of the server that answers requests keeps its types, whatever is
\* repeated, lost or told late (handler.go, offramp_yellowcard.go, transaction.go,
\* mpesa.go, screening_settings.go, kyb.go, challenge.go, relay.go): no menu is reached
\* without what its handler reads, and no token or hash is used that was not given out.
THEOREM RequestsTyped == Spec => []TypesOK
<1>1. Init => /\ UssdInit /\ PayoutsInit /\ SubmissionInit /\ CredentialsInit
              /\ ScreeningInit /\ VerificationInit
  BY DEF Init
<1>2. Spec => [](UssdTypeOK /\ PayoutsTypeOK /\ SubmissionTypeOK /\ CredentialsTypeOK
                 /\ ScreeningTypeOK /\ VerificationTypeOK)
  BY <1>1, PartsMoveAlone, DialogueStaysSound, PayoutsTyped, SubmissionTyped, CredentialsStaySound,
     ScreeningStaysSound, VerificationStaysSound, PTL DEF Spec, PayoutsSpec, SubmissionSpec
<1>3. Spec => [](LoginTypeOK /\ RelayTypeOK)
  BY LoginHolds, RelayHolds, LoginShows, RelayShows, PTL
<1> QED
  BY <1>2, <1>3, PTL DEF TypesOK

\* A borrower's decisions are made on the screens the server showed, also in the server
\* where payouts and contract calls move on beside the dialogue (handler.go).
THEOREM DialogueSoundInServer == Spec => []DialogueSound
<1>1. Init => UssdInit
  BY DEF Init
<1> QED
  BY <1>1, PartsMoveAlone, DialogueStaysSound, PTL DEF Spec, DialogueSound
=============================================================================
