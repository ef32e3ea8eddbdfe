------------------------------- MODULE Payouts -------------------------------
(***************************************************************************)
(* The YellowCard payout of one loan: the off-ramp adapter that starts it   *)
(* (offramp_yellowcard.go), the webhook service that follows it             *)
(* (webhook_service.go) and the refund poller that starts it again          *)
(* (refund_poller.go).  YellowCard, the ledger and the lending module's row *)
(* are external.                                                           *)
(*                                                                         *)
(* The webhook answers 200 before it works, in a goroutine per event, so    *)
(* events may be repeated, reordered, handled at once, or lost: an error, a *)
(* sequence id the lending module does not resolve and a stop of the        *)
(* process all end a handler where it stands.                               *)
(*                                                                         *)
(* Abstracted: channels, networks, names and amounts, which Initiate checks *)
(* before anything moves; fees; texts and alerts, which no step waits for.  *)
(* Statuses that lead to the same write are one: processing stands for      *)
(* process, pending, created and pending_approval, failed for expired and   *)
(* cancelled, pending_refund for refund_processing.                         *)
(***************************************************************************)
EXTENDS Naturals, FiniteSets

CONSTANTS
  MaxHandlers, \* bound: webhook goroutines at once
  MaxFaults    \* bound: lost answers, failed calls of the poller, stops

ASSUME PayoutsAssumption == MaxHandlers \in Nat /\ MaxFaults \in Nat

VARIABLES
  yc,        \* YellowCard's status of the direct and of the _fiat payment
  carried,   \* the loan's USDC was sent to YellowCard
  misjudged, \* SendUSDC reported an error for a transfer that landed
  desk,      \* where Initiate stands for the loan
  loanRow,   \* disbursement_status and settlement_method
  repaid,    \* the principal is back in the vault
  announced, \* events YellowCard has sent
  handlers,  \* events in work: payment, status and the method read, if any
  poller,    \* where the refund poller stands, and the status it looked up
  faults

payoutVars ==
  <<yc, carried, misjudged, desk, loanRow, repaid, announced, handlers, poller, faults>>

PaymentKeys == {"direct", "fiat"}
YcStatuses == {"none", "pending_settlement", "processing", "pending_liquidity", "complete",
               "failed", "pending_refund", "refunded", "refund_failed"}
RowStatuses == {"pending", "direct_submitted", "fiat_submitted", "processing", "complete",
                "refund_pending", "refund_received", "failed"}

Idle == [at |-> "idle", seen |-> "none"]

Fault == faults < MaxFaults /\ faults' = faults + 1

-----------------------------------------------------------------------------
(* YellowCard *)

ProviderMoves ==
  {<<"direct", "pending_settlement", "failed">>, <<"direct", "processing", "complete">>,
   <<"direct", "processing", "failed">>, <<"direct", "failed", "pending_refund">>,
   <<"direct", "pending_refund", "refunded">>, <<"direct", "pending_refund", "refund_failed">>,
   <<"fiat", "processing", "pending_liquidity">>, <<"fiat", "pending_liquidity", "processing">>,
   <<"fiat", "processing", "complete">>, <<"fiat", "processing", "failed">>}

\* A payment moves on and its event goes out.  Only USDC that arrived is
\* refunded, and a direct payment is paid out only when it did.
ProviderMove(key, status) ==
  /\ \/ <<key, yc[key], status>> \in ProviderMoves /\ (status = "pending_refund" => carried)
     \/ key = "direct" /\ yc.direct = "pending_settlement" /\ carried /\ status = "processing"
  /\ yc' = [yc EXCEPT ![key] = status]
  /\ announced' = announced \cup {<<key, status>>}
  /\ UNCHANGED <<carried, misjudged, desk, loanRow, repaid, handlers, poller, faults>>

\* A payment is created once per sequence id, which is YellowCard's
\* idempotency key.
Created(key) ==
  LET first == IF key = "direct" THEN "pending_settlement" ELSE "processing" IN
  IF yc[key] = "none"
    THEN yc' = [yc EXCEPT ![key] = first] /\ announced' = announced \cup {<<key, first>>}
    ELSE UNCHANGED <<yc, announced>>

\* SubmitPayment: refused, or accepted and the answer lost, or accepted.
Submit(key, ok) ==
  \/ Created(key) /\ ok /\ UNCHANGED faults
  \/ UNCHANGED <<yc, announced, faults>> /\ ~ok
  \/ Created(key) /\ ~ok /\ Fault

-----------------------------------------------------------------------------
(* Initiate, direct settlement first *)

\* No channel, or no network, serves the borrower: nothing is submitted.
NoChannel ==
  /\ desk = "direct" /\ desk' = "done"
  /\ loanRow' = [loanRow EXCEPT !.status = "failed"]
  /\ UNCHANGED <<yc, carried, misjudged, repaid, announced, handlers, poller, faults>>

SubmitDirect ==
  /\ desk = "direct"
  /\ \E ok \in BOOLEAN : Submit("direct", ok) /\ desk' = IF ok THEN "send" ELSE "fiat"
  /\ UNCHANGED <<carried, misjudged, loanRow, repaid, handlers, poller>>

\* Fault: the trustline is checked after the transfer.
RejectWalletLate ==
  /\ desk = "send" /\ desk' = "fiat" /\ carried' = TRUE
  /\ UNCHANGED <<yc, misjudged, loanRow, repaid, announced, handlers, poller, faults>>

\* No wallet address, one that does not parse, or one without a trustline.
RejectWallet ==
  /\ desk = "send" /\ desk' = "fiat"
  /\ UNCHANGED <<yc, carried, misjudged, loanRow, repaid, announced, handlers, poller, faults>>

SendUSDC ==
  /\ desk = "send"
  /\ \/ /\ carried' = TRUE /\ desk' = "done" /\ UNCHANGED <<misjudged, faults>>
        /\ loanRow' = [status |-> "direct_submitted", method |-> "direct"]
     \/ desk' = "fiat" /\ UNCHANGED <<carried, misjudged, loanRow, faults>>
     \/ carried' = TRUE /\ misjudged' = TRUE /\ desk' = "fiat" /\ Fault /\ UNCHANGED loanRow
  /\ UNCHANGED <<yc, repaid, announced, handlers, poller>>

\* The fallback.  A balance too low is a refusal too.
SubmitFiat ==
  /\ desk = "fiat" /\ desk' = "done"
  /\ \E ok \in BOOLEAN :
       /\ Submit("fiat", ok)
       /\ loanRow' = IF ok THEN [status |-> "fiat_submitted", method |-> "fiat"]
                       ELSE [loanRow EXCEPT !.status = "failed"]
  /\ UNCHANGED <<carried, misjudged, repaid, handlers, poller>>

-----------------------------------------------------------------------------
(* ProcessYellowCardEvent *)

Deliver(event) ==
  /\ Cardinality(handlers) < MaxHandlers
  /\ handlers' = handlers \cup {[key |-> event[1], status |-> event[2], method |-> "unread"]}
  /\ UNCHANGED <<yc, carried, misjudged, desk, loanRow, repaid, announced, poller, faults>>

\* IsDirectSettlement, asked for failures alone and before the write; a loan
\* with no method recorded is not direct.
LookUpMethod(h) ==
  /\ h.status = "failed" /\ h.method = "unread"
  /\ handlers' = (handlers \ {h})
       \cup {[h EXCEPT !.method = IF loanRow.method = "direct" THEN "direct" ELSE "fiat"]}
  /\ UNCHANGED <<yc, carried, misjudged, desk, loanRow, repaid, announced, poller, faults>>

\* The status an event writes, whatever the row holds; an event about
\* liquidity only alerts.
Handled(h) ==
  CASE h.status = "complete" -> "complete"
    [] h.status = "failed" -> IF h.method = "direct" THEN "refund_pending" ELSE "failed"
    [] h.status = "pending_refund" -> "refund_pending"
    [] h.status = "refunded" -> "refund_received"
    [] h.status = "refund_failed" -> "failed"
    [] h.status = "processing" -> "processing"
    [] h.status = "pending_settlement" -> "direct_submitted"
    [] OTHER -> loanRow.status

\* The lending module repays the vault when a payout of the fiat method
\* completes: the USDC was not needed.
CompletionRepays(status) == repaid \/ (status = "complete" /\ loanRow.method = "fiat")

Handle(h) ==
  /\ h.status = "failed" => h.method # "unread"
  /\ loanRow' = [loanRow EXCEPT !.status = Handled(h)]
  /\ repaid' = CompletionRepays(Handled(h))
  /\ handlers' = handlers \ {h}
  /\ UNCHANGED <<yc, carried, misjudged, desk, announced, poller, faults>>

\* An error, an id that does not resolve, or a stop: the event was answered.
LoseAnswer(h) ==
  /\ handlers' = handlers \ {h}
  /\ UNCHANGED <<yc, carried, misjudged, desk, loanRow, repaid, announced, poller, faults>>

-----------------------------------------------------------------------------
(* The refund poller *)

pollerFrame == UNCHANGED <<carried, misjudged, desk, handlers>>

\* GetRefundPendingDisbursements, then LookupPayment of the direct payment.
LookUpRefund ==
  /\ poller = Idle /\ loanRow.status = "refund_pending" /\ yc.direct # "none"
  /\ poller' = [at |-> "looked", seen |-> yc.direct]
  /\ pollerFrame /\ UNCHANGED <<yc, loanRow, repaid, announced, faults>>

\* A write of the row by the poller: done, or failed with or without effect.
RowWrite(new, done, failed) ==
  \/ loanRow' = new /\ poller' = done /\ UNCHANGED faults
  \/ loanRow' \in {loanRow, new} /\ poller' = failed /\ Fault

At(step) == [Idle EXCEPT !.at = step]

\* The statuses that start the failover.
Ready == {"refunded"}

ActOnRefund ==
  /\ poller.at = "looked"
  /\ \/ /\ poller.seen \in Ready
        /\ RowWrite([loanRow EXCEPT !.status = "refund_received"], At("failover"), Idle)
     \/ /\ poller.seen = "refund_failed"
        /\ RowWrite([loanRow EXCEPT !.status = "failed"], Idle, Idle)
     \/ /\ poller.seen \notin Ready \cup {"refund_failed"}
        /\ poller' = Idle /\ UNCHANGED <<loanRow, faults>>
  /\ pollerFrame /\ UNCHANGED <<yc, repaid, announced>>

\* attemptFiatFailover: Initiate with the method fiat and the _fiat id.
FailOver ==
  /\ poller.at = "failover"
  /\ \E ok \in BOOLEAN : Submit("fiat", ok) /\ poller' = At(IF ok THEN "flip" ELSE "sink")
  /\ pollerFrame /\ UNCHANGED <<loanRow, repaid>>

\* The errors of these writes are logged and the next one follows.
FlipMethod ==
  /\ poller.at = "flip" /\ RowWrite([loanRow EXCEPT !.method = "fiat"], At("mark"), At("mark"))
  /\ pollerFrame /\ UNCHANGED <<yc, repaid, announced>>
MarkSubmitted ==
  /\ poller.at = "mark" /\ RowWrite([loanRow EXCEPT !.status = "fiat_submitted"], Idle, Idle)
  /\ pollerFrame /\ UNCHANGED <<yc, repaid, announced>>
MarkFailed ==
  /\ poller.at = "sink" /\ RowWrite([loanRow EXCEPT !.status = "failed"], At("repay"), At("repay"))
  /\ pollerFrame /\ UNCHANGED <<yc, repaid, announced>>
RepayVault ==
  /\ poller.at = "repay" /\ poller' = Idle
  /\ \/ repaid' = TRUE /\ UNCHANGED faults
     \/ repaid' \in {repaid, TRUE} /\ Fault
  /\ pollerFrame /\ UNCHANGED <<yc, loanRow, announced>>

PollerStep ==
  LookUpRefund \/ ActOnRefund \/ FailOver \/ FlipMethod \/ MarkSubmitted \/ MarkFailed \/ RepayVault

\* A stop while the transfer is out leaves it landed or not, and the row as it was.
Crash ==
  /\ Fault /\ handlers' = {} /\ poller' = Idle
  /\ desk' = "done"
  /\ carried' \in (IF desk = "send" THEN {FALSE, TRUE} ELSE {carried})
  /\ UNCHANGED <<yc, misjudged, loanRow, repaid, announced>>

-----------------------------------------------------------------------------

PayoutsInit ==
  /\ yc = [key \in PaymentKeys |-> "none"] /\ announced = {} /\ handlers = {}
  /\ carried = FALSE /\ misjudged = FALSE /\ repaid = FALSE
  /\ desk = "direct" /\ loanRow = [status |-> "pending", method |-> "none"]
  /\ poller = Idle /\ faults = 0

PayoutsNext ==
  \/ \E key \in PaymentKeys, status \in YcStatuses : ProviderMove(key, status)
  \/ NoChannel \/ SubmitDirect \/ RejectWallet \/ SendUSDC \/ SubmitFiat
  \/ \E event \in announced : Deliver(event)
  \/ \E h \in handlers : LookUpMethod(h) \/ Handle(h) \/ LoseAnswer(h)
  \/ PollerStep \/ Crash

PayoutsSpec == PayoutsInit /\ [][PayoutsNext]_payoutVars

-----------------------------------------------------------------------------
(* Properties *)

\* Every variable keeps to its values, and the settlement method is read for
\* failures alone.
PayoutsTypeOK ==
  /\ yc \in [PaymentKeys -> YcStatuses] /\ announced \subseteq PaymentKeys \X YcStatuses
  /\ carried \in BOOLEAN /\ misjudged \in BOOLEAN /\ repaid \in BOOLEAN
  /\ desk \in {"direct", "send", "fiat", "done"}
  /\ loanRow \in [status : RowStatuses, method : PaymentKeys \cup {"none"}]
  /\ handlers \subseteq
       [key : PaymentKeys, status : YcStatuses, method : PaymentKeys \cup {"unread"}]
  /\ \A h \in handlers : h.method # "unread" => h.status = "failed"
  /\ poller \in [at : {"idle", "looked", "failover", "flip", "mark", "sink", "repay"},
                 seen : YcStatuses]
  /\ faults \in 0..MaxFaults

PaidTwice == yc.direct = "complete" /\ yc.fiat = "complete"

\* However events are repeated, reordered or lost, and whatever fails, the
\* borrower is paid by both payments only if SendUSDC reported a transfer that
\* landed as failed.
PaidTwiceOnlyIfMisjudged == PaidTwice => misjudged

\* The vault is repaid only while the loan's USDC is not with YellowCard: it
\* was never sent, or it was refunded.
RepaidOnlyWithUSDCHome == repaid => (~carried \/ yc.direct = "refunded" \/ misjudged)

\* The loan's money is in one place: not with the borrower twice, and not back
\* in the vault while YellowCard holds it.
PayoutSound == PaidTwiceOnlyIfMisjudged /\ RepaidOnlyWithUSDCHome

\* offramp_yellowcard.go:128-134: on a failed transfer the USDC is still in the
\* treasury, so falling back to fiat cannot pay twice.
PaidAtMostOnce == ~PaidTwice
=============================================================================
