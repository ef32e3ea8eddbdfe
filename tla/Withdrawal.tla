------------------------------ MODULE Withdrawal ------------------------------
(***************************************************************************)
(* The MoneyGram cash-out of one loan: the poller of                        *)
(* pkg/services/mgpoller/withdrawal.go, the treasury payment of             *)
(* pkg/stellar/classic/classic.go, and around them the anchor, the ledger   *)
(* and the lending module's store, which are external.                      *)
(*                                                                         *)
(* A tick fetches a snapshot of the loan's row, asks the anchor for its     *)
(* transaction and drives the loan to the end of one handler.  Every call   *)
(* that leaves the process is a step of its own, so the anchor, the ledger  *)
(* and a crash may come between any two.  A store write that fails may      *)
(* still have been applied.  Loans share no state and the poller runs in    *)
(* one process, so one loan is modelled.                                    *)
(*                                                                         *)
(* Abstracted: logging, traces, amounts the row only displays, drift        *)
(* counting, the alerts of an excess or of a refund the anchor misreported, *)
(* and the statuses the poller only waits through ("waiting").              *)
(* The payment verifier is configured, as in every wiring with a ledger.    *)
(***************************************************************************)
EXTENDS Rounding, FiniteSetsExt, Sequences

CONSTANTS
  Principal,     \* USDC owed to the anchor
  Refunds,       \* transactions a refund may arrive in
  RefundAmount,  \* USDC each of them carries to the refund wallet
  Listings,      \* refund payments the anchor may list, as sequences of hashes
  Outbound,      \* hash of the treasury's own payment
  Nothing,       \* no hash
  Reports,       \* what SendUSDC may report of a payment that failed on ledger
  MaxAttempts,   \* RefundSettleMaxAttempts
  MaxFaults      \* bound: failed calls and crashes

Hashes == Refunds \cup {Outbound}

ASSUME WithdrawalAssumption ==
  /\ Principal \in Nat \ {0}
  /\ RefundAmount \in [Refunds -> Nat \ {0}]
  /\ Listings \subseteq Seq(Hashes)
  /\ Outbound \notin Refunds /\ Nothing \notin Hashes
  /\ Reports \subseteq {"on_ledger", "unknown"}
  /\ MaxAttempts \in Nat /\ MaxFaults \in Nat

VARIABLES
  mg,        \* the anchor's transaction: status, hash it has seen, listing, payable
  arrived,   \* refund transactions on the ledger
  paid,      \* payments of the principal that landed at the anchor
  flying,    \* submitted payments whose fate is open
  fate,      \* of the latest submission
  claim,     \* ramp_stellar_tx_hash: "none", "claimed" or "hash"
  status,    \* disbursement_status
  refund,    \* the recorded refund, 0 for none
  vaultPaid, \* USDC returned to the vault for this loan
  deferred,  \* repay left to the lending module's reconciler, 0 for none
  pc, rec, tx, net,  \* the tick in progress: step, row and anchor snapshots, refund
  waits,     \* refundWaits, in memory
  alerts, told, faults

anchorVars == <<mg, arrived>>
ledgerVars == <<paid, flying, fate>>
rowVars    == <<claim, status, refund>>
vaultVars  == <<vaultPaid, deferred>>
tickVars   == <<pc, rec, tx, net, waits>>
vars == <<anchorVars, ledgerVars, rowVars, vaultVars, tickVars, alerts, told, faults>>

\* Fault: a loan that waits for its refund is no longer fetched.
TerminalPending == {"completed", "failed", "refund_pending", "refund_received"}
Terminal == {"completed", "failed", "refund_received"}
Notices  == {"ready", "complete", "refund", "failed"}
NoRow == [claimed |-> FALSE, status |-> "pending"]
NoTx  == [status |-> "waiting", seen |-> Nothing, listing |-> <<>>, payable |-> FALSE]

Init ==
  /\ mg = NoTx /\ arrived = {}
  /\ paid = 0 /\ flying = 0 /\ fate = "none"
  /\ claim = "none" /\ status = "pending" /\ refund = 0
  /\ vaultPaid = 0 /\ deferred = 0
  /\ pc = "idle" /\ rec = NoRow /\ tx = NoTx /\ net = 0 /\ waits = 0
  /\ alerts = {} /\ told = [n \in Notices |-> 0] /\ faults = 0

-----------------------------------------------------------------------------
(* Steps of a handler *)

Go(step) == pc' = step /\ UNCHANGED <<rec, tx, net, waits>>
NoFault == UNCHANGED faults
Fault == faults < MaxFaults /\ faults' = faults + 1
Raise(subject) == alerts' = alerts \cup {subject}

\* Counted up to 2: once and more than once is all that matters.
Tell(notice) == told' = [told EXCEPT ![notice] = Lesser(@ + 1, 2)]

\* UpdateDisbursementStatus, then the step after it or, on an error, another.
SetStatus(s, next, onError) ==
  /\ \/ status' = s /\ Go(next) /\ NoFault
     \/ Fault /\ status' \in {status, s} /\ Go(onError)
  /\ UNCHANGED <<anchorVars, ledgerVars, claim, refund, vaultVars, alerts, told>>

Notify(notice, next) ==
  /\ Tell(notice)
  /\ Go(next)
  /\ UNCHANGED <<anchorVars, ledgerVars, rowVars, vaultVars, alerts, faults>>

Stay == UNCHANGED <<anchorVars, ledgerVars, rowVars, vaultVars, told>>

-----------------------------------------------------------------------------
(* A tick: fetch, ask the anchor, dispatch *)

Fetch ==
  /\ pc = "idle" /\ status \notin Terminal
  /\ rec' = [claimed |-> claim # "none", status |-> status]
  /\ pc' = "ask"
  /\ UNCHANGED <<anchorVars, ledgerVars, rowVars, vaultVars, tx, net, waits,
                 alerts, told, faults>>

Handler(s) ==
  CASE s = "start"     -> "start"
    [] s = "complete"  -> "ready"
    [] s = "completed" -> "done"
    [] s = "refunded"  -> "refunded"
    [] s = "failed"    -> "failing"
    [] OTHER           -> "idle"

Ask ==
  /\ pc = "ask"
  /\ \/ tx' = mg /\ pc' = Handler(mg.status) /\ NoFault
     \/ Fault /\ tx' = tx /\ pc' = "idle"
  /\ UNCHANGED <<anchorVars, ledgerVars, rowVars, vaultVars, rec, net, waits,
                 alerts, told>>

-----------------------------------------------------------------------------
(* pending_user_transfer_start: claim, send, record *)

AlreadySent == tx.seen # Nothing \/ rec.claimed

Start ==
  /\ pc = "start"
  /\ IF AlreadySent THEN Go("idle") /\ UNCHANGED alerts
     ELSE IF ~tx.payable THEN Go("idle") /\ Raise("blocked")
     ELSE Go("claim") /\ UNCHANGED alerts
  /\ Stay /\ NoFault

\* Fault: the attempt is left to be recorded with the payment.
ClaimDeferred ==
  /\ pc = "claim" /\ Go("send") /\ NoFault /\ UNCHANGED <<alerts, claim>>
  /\ UNCHANGED <<anchorVars, ledgerVars, status, refund, vaultVars, told>>

\* RecordSendAttempt.  No claim, no send.
Claim ==
  /\ pc = "claim"
  /\ \/ claim' = "claimed" /\ Go("send") /\ NoFault /\ UNCHANGED alerts
     \/ Fault /\ claim' \in {claim, "claimed"} /\ Go("idle") /\ Raise("blocked")
  /\ UNCHANGED <<anchorVars, ledgerVars, status, refund, vaultVars, told>>

\* SendUSDC up to the submission: it may fail before anything is submitted,
\* and the submission may be accepted although the call failed.
Send ==
  /\ pc = "send"
  /\ \/ flying' = flying + 1 /\ fate' = "open" /\ Go("confirm") /\ NoFault
        /\ UNCHANGED alerts
     \/ Fault /\ UNCHANGED <<flying, fate>> /\ Go("idle") /\ Raise("unknown")
     \/ Fault /\ flying' = flying + 1 /\ fate' = "open" /\ Go("idle")
        /\ Raise("unknown")
  /\ UNCHANGED <<anchorVars, paid, rowVars, vaultVars, told>>

\* The outcome the poller is told of: the fate on the ledger, or none in time.
Confirm ==
  /\ pc = "confirm"
  /\ \/ fate = "landed" /\ Go("record") /\ NoFault /\ UNCHANGED alerts
     \/ fate = "failed" /\ "on_ledger" \in Reports /\ Go("clear") /\ NoFault
        /\ UNCHANGED alerts
     \/ fate = "failed" /\ "unknown" \in Reports /\ Go("idle") /\ NoFault
        /\ Raise("unknown")
     \/ Fault /\ Go("idle") /\ Raise("unknown")
  /\ Stay

\* ClearSendAttempt.
Clear ==
  /\ pc = "clear" /\ Go("idle") /\ Raise("failed_send")
  /\ \/ claim' = "none" /\ NoFault
     \/ Fault /\ claim' \in {claim, "none"}
  /\ UNCHANGED <<anchorVars, ledgerVars, status, refund, vaultVars, told>>

\* RecordSendUSDC; a failure is only logged.
Record ==
  /\ pc = "record" /\ Go("idle")
  /\ \/ claim' = "hash" /\ NoFault
     \/ Fault /\ claim' \in {claim, "hash"}
  /\ UNCHANGED <<anchorVars, ledgerVars, status, refund, vaultVars, alerts, told>>

-----------------------------------------------------------------------------
(* pending_user_transfer_complete, completed *)

\* Fault: the text goes out whether or not the status was written.
ReadyLogged ==
  /\ pc = "ready"
  /\ IF rec.status = "processing"
     THEN Go("idle") /\ Stay /\ UNCHANGED alerts /\ NoFault
     ELSE SetStatus("processing", "tell_ready", "tell_ready")

Ready ==
  /\ pc = "ready"
  /\ IF rec.status = "processing"
     THEN Go("idle") /\ Stay /\ UNCHANGED alerts /\ NoFault
     ELSE SetStatus("processing", "tell_ready", "idle")
TellReady == pc = "tell_ready" /\ Notify("ready", "idle")

Done == pc = "done" /\ SetStatus("completed", "tell_done", "idle")
TellDone == pc = "tell_done" /\ Notify("complete", "idle")

-----------------------------------------------------------------------------
(* refunded: mark, find the payments, record, repay, close *)

Refunded ==
  /\ pc = "refunded"
  /\ IF rec.status = "refund_pending"
     THEN Go("settle") /\ Stay /\ UNCHANGED alerts /\ NoFault
     ELSE SetStatus("refund_pending", "settle", "idle")

\* What a set of transactions carried to the refund wallet.
Carried(hashes) == MapThenSumSet(LAMBDA h : RefundAmount[h], hashes)

Listed(listing) == {listing[i] : i \in DOMAIN listing}

\* Fault: a hash listed twice is counted twice.
LedgerTotalTwice(listing) ==
  MapThenSumSet(LAMBDA i : RefundAmount[listing[i]], DOMAIN listing)

\* ledgerRefundTotal counts a hash once, however often it is listed.
LedgerTotal(listing) == Carried(Listed(listing))

\* awaitRefundDetails: the alert fires once, at the ceiling.
Await ==
  /\ waits' = Lesser(waits + 1, MaxAttempts + 1)
  /\ IF waits' = MaxAttempts THEN Raise("no_details") ELSE UNCHANGED alerts
  /\ pc' = "idle" /\ UNCHANGED <<rec, tx, net>>

Found(amount) ==
  /\ net' = amount /\ waits' = 0 /\ pc' = "log"
  /\ UNCHANGED <<rec, tx, alerts>>

NotYet(subjects) ==
  /\ waits' = 0 /\ pc' = "idle" /\ alerts' = alerts \cup subjects
  /\ UNCHANGED <<rec, tx, net>>

\* Without a listing the hash the anchor shows decides, once it is a payment
\* to us.  With one, every payment must have succeeded and carried something.
Settle ==
  /\ pc = "settle" /\ Stay
  /\ IF tx.listing = <<>>
     THEN \/ tx.seen \in arrived /\ Found(RefundAmount[tx.seen]) /\ NoFault
          \/ tx.seen \notin arrived /\ Await /\ NoFault
          \/ Fault /\ Await
     ELSE \/ Listed(tx.listing) \subseteq arrived /\ NoFault
             /\ IF LedgerTotal(tx.listing) > 0 THEN Found(LedgerTotal(tx.listing))
                                              ELSE NotYet({"zero"})
          \/ ~(Listed(tx.listing) \subseteq arrived)
             /\ NotYet(IF Listed(tx.listing) \subseteq arrived \cup {Outbound}
                       THEN {} ELSE {"not_on_ledger"}) /\ NoFault
          \/ Fault /\ NotYet({})

\* RecordRefund, before the vault is repaid; then the shortfall alert.
LogRefund ==
  /\ pc = "log"
  /\ \/ /\ refund' = net /\ Go("repay") /\ NoFault
        /\ IF net < Principal THEN Raise("shortfall") ELSE UNCHANGED alerts
     \/ Fault /\ refund' \in {refund, net} /\ Go("idle") /\ UNCHANGED alerts
  /\ UNCHANGED <<anchorVars, ledgerVars, claim, status, vaultVars, told>>

\* The lending module's repay: once per loan, or not now, or left to its
\* reconciler; a repay whose outcome is unknown is reported as deferred.
RepaidWith(amount) == vaultPaid' = (IF vaultPaid = 0 THEN amount ELSE vaultPaid)

\* Fault: the reported amount is repaid even beyond the principal.
RepayExcess ==
  /\ pc = "repay" /\ RepaidWith(net) /\ Go("close") /\ NoFault
  /\ UNCHANGED <<anchorVars, ledgerVars, rowVars, deferred, alerts, told>>

\* Fault: a repay that failed or was deferred closes the loan.
RepayLogged ==
  /\ pc = "repay" /\ Go("close")
  /\ \/ RepaidWith(Lesser(net, Principal)) /\ NoFault
     \/ Fault /\ UNCHANGED vaultPaid
  /\ UNCHANGED <<anchorVars, ledgerVars, rowVars, deferred, alerts, told>>

Repay ==
  LET amount == Lesser(net, Principal) IN
  /\ pc = "repay"
  /\ \/ RepaidWith(amount) /\ Go("close") /\ NoFault /\ UNCHANGED <<deferred, alerts>>
     \/ Fault /\ UNCHANGED vaultVars /\ Go("idle") /\ Raise("repay_failed")
     \/ /\ Fault /\ Go("idle") /\ UNCHANGED alerts
        /\ \/ RepaidWith(amount) /\ UNCHANGED deferred
           \/ deferred' = amount /\ UNCHANGED vaultPaid
  /\ UNCHANGED <<anchorVars, ledgerVars, rowVars, told>>

Close == pc = "close" /\ SetStatus("refund_received", "tell_refund", "idle")
TellRefund == pc = "tell_refund" /\ Notify("refund", "idle")

-----------------------------------------------------------------------------
(* expired, no_market, too_small, too_large, error *)

Failing == pc = "failing" /\ SetStatus("failed", "tell_failed", "tell_failed")
TellFailed == pc = "tell_failed" /\ Notify("failed", "repay_all")

\* RepayVault if anything may have been sent; a failure is only logged, and the
\* loan is closed already.
RepayAll ==
  /\ pc = "repay_all" /\ Go("idle") /\ Raise("terminated")
  /\ \/ AlreadySent /\ RepaidWith(Principal) /\ NoFault
     \/ ~AlreadySent /\ UNCHANGED vaultPaid /\ NoFault
     \/ AlreadySent /\ Fault /\ UNCHANGED vaultPaid
  /\ UNCHANGED <<anchorVars, ledgerVars, rowVars, deferred, told>>

-----------------------------------------------------------------------------
(* Environment *)

\* A restart forgets the tick and the waits.
Crash ==
  /\ pc # "idle" /\ Fault
  /\ pc' = "idle" /\ rec' = NoRow /\ tx' = NoTx /\ net' = 0 /\ waits' = 0
  /\ UNCHANGED <<anchorVars, ledgerVars, rowVars, vaultVars, alerts, told>>

Beyond == UNCHANGED <<rowVars, tickVars, alerts, told, faults>>

PaymentLands ==
  /\ flying > 0 /\ flying' = flying - 1 /\ paid' = paid + 1
  /\ fate' = "landed"
  /\ UNCHANGED <<anchorVars, vaultVars>> /\ Beyond
PaymentFails ==
  /\ flying > 0 /\ flying' = flying - 1 /\ fate' = "failed"
  /\ UNCHANGED <<anchorVars, paid, vaultVars>> /\ Beyond

Anchor(from, to) ==
  /\ mg.status \in from /\ mg' = [mg EXCEPT !.status = to]
  /\ UNCHANGED <<arrived, ledgerVars, vaultVars>> /\ Beyond
AnchorSays(change) ==
  /\ mg' = change
  /\ UNCHANGED <<arrived, ledgerVars, vaultVars>> /\ Beyond

AnchorNext ==
  \/ Anchor({"waiting"}, "start")
  \/ Anchor({"start"}, "waiting")
  \/ mg.status = "start" /\ ~mg.payable /\ AnchorSays([mg EXCEPT !.payable = TRUE])
  \/ paid > 0 /\ mg.seen = Nothing /\ AnchorSays([mg EXCEPT !.seen = Outbound])
  \/ paid > 0 /\ Anchor({"start", "waiting"}, "complete")
  \/ Anchor({"complete"}, "completed")
  \/ paid > 0 /\ Anchor({"start", "waiting", "complete"}, "refunded")
  \/ Anchor({"start", "waiting", "complete"}, "failed")
  \/ /\ mg.status = "refunded" /\ mg.listing = <<>>
     /\ \E l \in Listings : AnchorSays([mg EXCEPT !.listing = l])
  \/ /\ mg.status = "refunded" /\ mg.seen \notin Refunds
     /\ \E h \in arrived : AnchorSays([mg EXCEPT !.seen = h])

RefundArrives(h) ==
  /\ mg.status \in {"refunded", "failed"} /\ paid > 0
  /\ arrived' = arrived \cup {h}
  /\ UNCHANGED <<mg, ledgerVars, vaultVars>> /\ Beyond

\* The lending module's reconciler repays what was deferred to it.
Reconcile ==
  /\ deferred > 0 /\ RepaidWith(deferred) /\ deferred' = 0
  /\ UNCHANGED <<anchorVars, ledgerVars>> /\ Beyond

\* Operators release a claim once they know that nothing landed or can land.
Release ==
  /\ pc = "idle" /\ "unknown" \in alerts
  /\ claim = "claimed" /\ paid = 0 /\ flying = 0
  /\ claim' = "none"
  /\ UNCHANGED <<anchorVars, ledgerVars, status, refund, vaultVars, tickVars,
                 alerts, told, faults>>

-----------------------------------------------------------------------------

PollerNext ==
  \/ Fetch \/ Ask
  \/ Start \/ Claim \/ Send \/ Confirm \/ Clear \/ Record
  \/ Ready \/ TellReady \/ Done \/ TellDone
  \/ Refunded \/ Settle \/ LogRefund \/ Repay \/ Close \/ TellRefund
  \/ Failing \/ TellFailed \/ RepayAll

LedgerNext == PaymentLands \/ PaymentFails \/ \E h \in Refunds : RefundArrives(h)

Next == PollerNext \/ Crash \/ LedgerNext \/ AnchorNext \/ Reconcile \/ Release

\* The runner ticks for ever, the ledger decides every submission before its
\* time bound, and the reconciler retries what was deferred to it.
Fairness ==
  /\ WF_vars(PollerNext) /\ WF_vars(PaymentLands \/ PaymentFails)
  /\ WF_vars(Reconcile)

Spec == Init /\ [][Next]_vars
FairSpec == Spec /\ Fairness

-----------------------------------------------------------------------------
(* Properties *)

\* The row, the tick and the counters hold only the values the code writes.
TypeOK ==
  /\ paid \in Nat /\ flying \in Nat /\ fate \in {"none", "open", "landed", "failed"}
  /\ claim \in {"none", "claimed", "hash"}
  /\ status \in Terminal \cup {"pending", "processing", "refund_pending"}
  /\ refund \in Nat /\ vaultPaid \in Nat /\ deferred \in Nat /\ net \in Nat
  /\ rec.claimed \in BOOLEAN /\ waits \in 0..(MaxAttempts + 1)
  /\ faults \in 0..MaxFaults /\ arrived \subseteq Refunds

\* The principal is never sent twice, whatever crashes, lost answers and failed
\* writes come between the claim, the submission and its record.
PaidAtMostOnce == paid + flying <= 1

\* A loan is closed as refunded only when the refund is on record and the money
\* is back in the vault (settleRefund: terminal only once repaid).
ClosedOnlyWhenRepaid == status = "refund_received" => refund > 0 /\ vaultPaid > 0

\* A refund repays the vault with no more than came back on the ledger and no
\* more than was lent, and never before it is on record.
RepaidFromRefund ==
  [][ vaultPaid' # vaultPaid /\ mg.status = "refunded"
      => /\ refund > 0
         /\ vaultPaid' <= Lesser(Principal, Carried(arrived)) ]_vars

\* The borrower is told once that the cash is ready, collected or returned: the
\* status is written before the text and bars the next tick from sending it.
ToldOnce == \A n \in {"ready", "complete", "refund"} : told[n] <= 1

\* The row holds only what its handlers write, and no text is sent twice on it.
RowSound == TypeOK /\ ToldOnce

\* What SendUSDC failed to move is released for a retry (withdrawal.go and
\* docs/offramp/moneygram.md): no claim outlives a payment that failed on the
\* ledger, when no call failed.
FailedSendReleased == pc = "idle" /\ fate = "failed" /\ faults = 0 => claim = "none"

\* A refund whose payments are on the ledger is settled in the end: every stage
\* is retried on later ticks.
RefundVisible ==
  /\ mg.status = "refunded"
  /\ IF mg.listing = <<>> THEN mg.seen \in arrived
                          ELSE Listed(mg.listing) \subseteq arrived
RefundSettles ==
  RefundVisible ~> \/ status = "refund_received"
                   \/ mg.status = "refunded" /\ ~RefundVisible

\* A refund the anchor never details is brought to the operators' attention,
\* although the count of waits is lost with the process.
StuckRefundAlerted ==
  <>[](mg.status = "refunded" /\ mg.listing = <<>> /\ mg.seen \notin arrived)
    => <>("no_details" \in alerts)

\* Every refund comes to an end: in the vault, or before the operators.
RefundsResolve == RefundSettles /\ StuckRefundAlerted

\* The cash-out as its ledger and its books show it.
Ended == CASE status = "completed" -> "collected"
           [] status = "refund_received" -> "returned"
           [] OTHER -> "open"
Cash == INSTANCE CashOut WITH
  Worth <- Carried, out <- paid, back <- arrived, credited <- vaultPaid,
  ended <- Ended, cancelled <- (mg.status = "failed")

\* Whatever the poller's ticks do, the loan's money moves as CashOut allows.
MovesMoneyAsCashOut == Cash!Spec
=============================================================================
