-------------------------------- MODULE Deposit --------------------------------
(***************************************************************************)
(* The MoneyGram cash-in that repays one loan: the driver of                *)
(* pkg/services/mgpoller/deposit.go, and around it the anchor, the vault    *)
(* and the lending module's store, which are external.                      *)
(*                                                                         *)
(* A tick fetches a snapshot of the loan's row when it is due, asks the     *)
(* anchor for its transaction, tells the borrower how to pay and runs the   *)
(* handler of the status it saw.  Every call that leaves the process is a   *)
(* step of its own; a store write that fails may still have been applied.   *)
(*                                                                         *)
(* Abstracted: logging, amounts and the shortfall alert, the display fields *)
(* of RecordDepositUpdate, backoff lengths (a row not due becomes due), and *)
(* the alerts of on_hold, too_small and too_large.  A notifier is wired.    *)
(***************************************************************************)
EXTENDS Rounding

CONSTANTS
  MaxAttempts,   \* DepositVaultMaxAttempts
  MaxFaults      \* bound: failed calls and crashes

ASSUME DepositAssumption == MaxAttempts \in Nat \ {0} /\ MaxFaults \in Nat

VARIABLES
  mg,        \* the anchor's transaction: status, and whether it has a reference or page
  window,    \* the binding deadline: "open", "closing" or "over"
  status, attempts, paySent, reminded, due, complete,  \* the row
  repaid,    \* repay_for transactions that landed
  flying,    \* submitted ones whose outcome is open
  lost,      \* landed or open repays of which the row was not told
  pc, rec, tx,  \* the tick in progress: step, row and anchor snapshots
  alerts, told, faults

rowVars   == <<status, attempts, paySent, reminded, due, complete>>
worldVars == <<mg, window, repaid, flying>>
vars == <<worldVars, rowVars, lost, pc, rec, tx, alerts, told, faults>>

\* Fault: the due query forgets the rows whose vault leg is outstanding.
LiveUnpaid == {"initiated"}
Live == {"initiated", "funds_received"}
Notices == {"pay", "reminder", "received", "expired", "repaid"}
NoRow == [status |-> "initiated", attempts |-> 0, paySent |-> FALSE,
          reminded |-> FALSE, complete |-> FALSE]
NoTx == [status |-> "incomplete", page |-> FALSE]

Init ==
  /\ mg = NoTx /\ window = "open"
  /\ status = "initiated" /\ attempts = 0 /\ paySent = FALSE /\ reminded = FALSE
  /\ due = TRUE /\ complete \in BOOLEAN
  /\ repaid = 0 /\ flying = 0 /\ lost = 0
  /\ pc = "idle" /\ rec = NoRow /\ tx = NoTx
  /\ alerts = {} /\ told = [n \in Notices |-> 0] /\ faults = 0

-----------------------------------------------------------------------------
(* Steps of a handler *)

Go(step) == pc' = step /\ UNCHANGED <<rec, tx>>
NoFault == UNCHANGED faults
Fault == faults < MaxFaults /\ faults' = faults + 1
Raise(subject) == alerts' = alerts \cup {subject}

\* Counted up to 2: once and more than once is all that matters.
Tell(notice) == told' = [told EXCEPT ![notice] = Lesser(@ + 1, 2)]

\* A status write, then the step after it or, on an error, another.
Mark(s, next, onError) ==
  /\ \/ status' = s /\ Go(next) /\ NoFault
     \/ Fault /\ status' \in {status, s} /\ Go(onError)
  /\ UNCHANGED <<worldVars, attempts, paySent, reminded, due, complete, lost,
                 alerts, told>>

\* A message to the borrower after which a failure changes nothing.
Notify(notice, next) ==
  /\ Go(next)
  /\ \/ Tell(notice) /\ NoFault
     \/ Fault /\ UNCHANGED told
  /\ UNCHANGED <<worldVars, rowVars, lost, alerts>>

-----------------------------------------------------------------------------
(* A tick: fetch, ask the anchor, tell the borrower how to pay, dispatch *)

Fetch ==
  /\ pc = "idle" /\ due /\ status \in Live
  /\ rec' = [status |-> status, attempts |-> attempts, paySent |-> paySent,
             reminded |-> reminded, complete |-> complete]
  /\ pc' = "ask"
  /\ UNCHANGED <<worldVars, rowVars, lost, tx, alerts, told, faults>>

Ask ==
  /\ pc = "ask"
  /\ \/ tx' = mg /\ pc' = "instruct" /\ UNCHANGED rec /\ NoFault
     \/ Fault /\ Go("schedule")
  /\ UNCHANGED <<worldVars, rowVars, lost, alerts, told>>

Handler(s) ==
  CASE s = "incomplete" -> "incomplete"
    [] s = "completed"  -> "received"
    [] s = "failed"     -> "fail"
    [] OTHER            -> "schedule"

\* Fault: the marker is written first, so a text that fails is never retried.
InstructMarkedFirst ==
  /\ pc = "instruct" /\ Go(Handler(tx.status))
  /\ IF rec.paySent \/ ~tx.page THEN NoFault /\ UNCHANGED <<paySent, told>>
     ELSE /\ paySent' = TRUE
          /\ \/ Tell("pay") /\ NoFault
             \/ Fault /\ UNCHANGED told
  /\ UNCHANGED <<worldVars, status, attempts, reminded, due, complete, lost, alerts>>

\* sendPayInstructionsOnce: the text, then its marker.
Instruct ==
  /\ pc = "instruct"
  /\ IF rec.paySent \/ ~tx.page
     THEN Go(Handler(tx.status)) /\ NoFault /\ UNCHANGED told
     ELSE \/ Tell("pay") /\ Go("mark_pay") /\ NoFault
          \/ Fault /\ UNCHANGED told /\ Go(Handler(tx.status))
  /\ UNCHANGED <<worldVars, rowVars, lost, alerts>>

MarkPay ==
  /\ pc = "mark_pay" /\ Go(Handler(tx.status))
  /\ \/ paySent' = TRUE /\ NoFault
     \/ Fault /\ paySent' \in {paySent, TRUE}
  /\ UNCHANGED <<worldVars, status, attempts, reminded, due, complete, lost,
                 alerts, told>>

\* ScheduleNextPoll; a failure leaves the row due.
Schedule ==
  /\ pc = "schedule" /\ Go("idle")
  /\ \/ due' = FALSE /\ NoFault
     \/ Fault /\ due' \in {due, FALSE}
  /\ UNCHANGED <<worldVars, status, attempts, paySent, reminded, complete, lost,
                 alerts, told>>

-----------------------------------------------------------------------------
(* incomplete: expire or remind *)

Incomplete ==
  /\ pc = "incomplete"
  /\ \/ window = "over" /\ Go("expire") /\ NoFault /\ UNCHANGED told
     \/ /\ window = "closing" /\ ~rec.reminded
        /\ \/ Tell("reminder") /\ Go("mark_reminder") /\ NoFault
           \/ Fault /\ UNCHANGED told /\ Go("schedule")
     \/ /\ window = "open" \/ (window = "closing" /\ rec.reminded)
        /\ Go("schedule") /\ NoFault /\ UNCHANGED told
  /\ UNCHANGED <<worldVars, rowVars, lost, alerts>>

MarkReminder ==
  /\ pc = "mark_reminder" /\ Go("schedule")
  /\ \/ reminded' = TRUE /\ NoFault
     \/ Fault /\ reminded' \in {reminded, TRUE}
  /\ UNCHANGED <<worldVars, status, attempts, paySent, due, complete, lost,
                 alerts, told>>

\* Fault: the borrower is told whether or not the expiry was written.
ExpireLogged == pc = "expire" /\ Mark("expired", "tell_expired", "tell_expired")

Expire == pc = "expire" /\ Mark("expired", "tell_expired", "schedule")
Fail   == pc = "fail" /\ Mark("failed", "tell_expired", "schedule")
TellExpired == pc = "tell_expired" /\ Notify("expired", "idle")

-----------------------------------------------------------------------------
(* completed: mark, tell, repay the vault, settle *)

Received ==
  /\ pc = "received"
  /\ IF rec.status = "funds_received"
     THEN /\ Go("guard")
          /\ UNCHANGED <<worldVars, rowVars, lost, alerts, told, faults>>
     ELSE Mark("funds_received", "tell_received", "schedule")

TellReceived == pc = "tell_received" /\ Notify("received", "guard")

\* Without the borrower's address or a locked payoff the leg is withheld.
Guard ==
  /\ pc = "guard"
  /\ IF rec.complete THEN Go("leg") /\ UNCHANGED alerts
                     ELSE Go("schedule") /\ Raise("withheld")
  /\ UNCHANGED <<worldVars, rowVars, lost, told, faults>>

\* Fault: an unknown outcome is treated as a failed one.
LegGuessed ==
  /\ pc = "leg"
  /\ \/ repaid' = repaid + 1 /\ Go("settle") /\ NoFault /\ UNCHANGED flying
     \/ Fault /\ Go("leg_failed") /\ UNCHANGED <<repaid, flying>>
     \/ Fault /\ Go("leg_failed") /\ flying' = flying + 1 /\ UNCHANGED repaid
  /\ UNCHANGED <<mg, window, rowVars, lost, alerts, told>>

\* RepayForBorrower: it lands, it fails, or its outcome is unknown.
Leg ==
  /\ pc = "leg"
  /\ \/ repaid' = repaid + 1 /\ Go("settle") /\ NoFault /\ UNCHANGED flying
     \/ Fault /\ Go("leg_failed") /\ UNCHANGED <<repaid, flying>>
     \/ Fault /\ Go("park") /\ flying' \in {flying, flying + 1} /\ UNCHANGED repaid
  /\ UNCHANGED <<mg, window, rowVars, lost, alerts, told>>

\* MarkSettled; when it fails the row is not rescheduled, so it is still due.
Settle ==
  /\ pc = "settle"
  /\ \/ status' = "settled" /\ Go("tell_repaid") /\ NoFault /\ UNCHANGED <<lost, alerts>>
     \/ /\ Fault /\ status' \in {status, "settled"} /\ Go("idle")
        /\ lost' = lost + 1 /\ Raise("not_recorded")
  /\ UNCHANGED <<worldVars, attempts, paySent, reminded, due, complete, told>>

TellRepaid == pc = "tell_repaid" /\ Notify("repaid", "idle")

\* RecordVaultAttempt, counted up to one past the ceiling.
CountFailure ==
  LET n == Lesser(rec.attempts + 1, MaxAttempts + 1) IN
  /\ pc = "leg_failed" /\ Go("ceiling")
  /\ \/ attempts' = n /\ NoFault
     \/ Fault /\ attempts' \in {attempts, n}
  /\ UNCHANGED <<worldVars, status, paySent, reminded, due, complete, lost,
                 alerts, told>>

Ceiling ==
  /\ pc = "ceiling" /\ Go("schedule")
  /\ IF rec.attempts + 1 = MaxAttempts THEN Raise("stuck") ELSE UNCHANGED alerts
  /\ UNCHANGED <<worldVars, rowVars, lost, told, faults>>

\* MarkVaultOutcomeUnknown; when it fails the row is scheduled again.
Park ==
  /\ pc = "park" /\ Go("alarm")
  /\ \/ status' = "vault_unknown" /\ NoFault /\ UNCHANGED <<due, lost>>
     \/ /\ Fault /\ status' \in {status, "vault_unknown"} /\ due' \in {due, FALSE}
        /\ lost' = lost + 1
  /\ UNCHANGED <<worldVars, attempts, paySent, reminded, complete, alerts, told>>

Alarm ==
  /\ pc = "alarm" /\ Go("idle") /\ Raise("unknown")
  /\ UNCHANGED <<worldVars, rowVars, lost, told, faults>>

-----------------------------------------------------------------------------
(* Environment *)

\* A stop of the process.  During a repay its outcome is unknown; a stop that
\* cancels the context fails the writes after it as well.
Crash ==
  /\ pc # "idle" /\ Fault
  /\ lost' = IF pc \in {"settle", "park"} THEN lost + 1 ELSE lost
  /\ pc' = "idle" /\ rec' = NoRow /\ tx' = NoTx
  /\ UNCHANGED <<worldVars, rowVars, alerts, told>>

Beyond == UNCHANGED <<lost, pc, rec, tx, alerts, told, faults>>

\* The next poll falls due.
Wake ==
  /\ ~due /\ due' = TRUE
  /\ UNCHANGED <<worldVars, status, attempts, paySent, reminded, complete>> /\ Beyond

Passes(from, to) ==
  /\ window = from /\ window' = to
  /\ UNCHANGED <<mg, repaid, flying, rowVars>> /\ Beyond

\* The anchor's deadline binds: nobody commits to a deposit after it.
AnchorNext ==
  /\ \/ ~mg.page /\ mg' = [mg EXCEPT !.page = TRUE]
     \/ mg.status = "incomplete" /\ window # "over" /\ mg' = [mg EXCEPT !.status = "waiting"]
     \/ mg.status = "waiting" /\ mg' = [mg EXCEPT !.status = "completed"]
     \/ mg.status \in {"incomplete", "waiting"} /\ mg' = [mg EXCEPT !.status = "failed"]
  /\ UNCHANGED <<window, repaid, flying, rowVars>> /\ Beyond

LegDecided ==
  /\ flying > 0 /\ flying' = flying - 1 /\ repaid' \in {repaid, repaid + 1}
  /\ UNCHANGED <<mg, window, rowVars>> /\ Beyond

\* Operators read the chain, then settle a parked row or let it be retried.
Resolve ==
  /\ status = "vault_unknown" /\ flying = 0 /\ pc = "idle"
  /\ status' = IF repaid > 0 THEN "settled" ELSE "funds_received"
  /\ UNCHANGED <<worldVars, attempts, paySent, reminded, due, complete>> /\ Beyond

\* Operators fill in the address or the payoff.
Backfill ==
  /\ ~complete /\ complete' = TRUE
  /\ UNCHANGED <<worldVars, status, attempts, paySent, reminded, due>> /\ Beyond

-----------------------------------------------------------------------------

DriverNext ==
  \/ Fetch \/ Ask \/ Instruct \/ MarkPay \/ Schedule
  \/ Incomplete \/ MarkReminder \/ Expire \/ Fail \/ TellExpired
  \/ Received \/ TellReceived \/ Guard \/ Leg \/ Settle \/ TellRepaid
  \/ CountFailure \/ Ceiling \/ Park \/ Alarm

Next ==
  \/ DriverNext \/ Crash \/ Wake \/ AnchorNext \/ LegDecided \/ Resolve \/ Backfill
  \/ Passes("open", "closing") \/ Passes("closing", "over")

\* The runner ticks for ever and every scheduled poll falls due.
Spec == Init /\ [][Next]_vars
FairSpec == Spec /\ WF_vars(DriverNext) /\ WF_vars(Wake)

-----------------------------------------------------------------------------
(* Properties *)

Statuses == {"initiated", "funds_received", "settled", "expired",
             "failed", "vault_unknown"}

\* The row, the tick and the counters hold only the values the code writes.
TypeOK ==
  /\ status \in Statuses /\ attempts \in 0..(MaxAttempts + 1)
  /\ {paySent, reminded, due, complete} \subseteq BOOLEAN
  /\ repaid \in Nat /\ flying \in Nat /\ lost \in Nat
  /\ rec.status \in Live /\ rec.attempts \in 0..(MaxAttempts + 1)
  /\ faults \in 0..MaxFaults

\* The treasury repays the vault again only after the row was not told of a
\* repay: one that fails for certain, or is parked, costs no second one.
RepaidAgainOnlyIfLost == repaid + flying <= 1 + lost

\* A loan is closed only when its debt is back in the vault.
SettledOnlyWhenRepaid == status = "settled" => repaid > 0

\* Money on the treasury is never given up: a repayment whose funds arrived
\* stays live until it is settled or parked for the operators.
FundsNeverAbandoned ==
  [][status = "funds_received"
      => status' \in {"funds_received", "settled", "vault_unknown"}]_vars

\* The borrower hears of each outcome once: the status is written before the
\* text and takes the row out of the state that sends it.
OutcomeToldOnce == \A n \in {"received", "expired", "repaid"} : told[n] <= 1

\* The row holds only what its handlers write, says of the loan what happened to
\* it, and no outcome is told twice on it.
RowSound == TypeOK /\ SettledOnlyWhenRepaid /\ OutcomeToldOnce

\* The borrower is told how to pay in the end, although texts and writes fail:
\* sendPayInstructionsOnce writes its marker after the text, so a text that
\* failed is sent again.  This states the code against its documents, which say the
\* opposite: docs/onramp/moneygram.md:150-155 ("The marker is spent before the send",
\* and a failed send "is terminal for the loan: no later tick retries"),
\* deposit.go:113-116, deposit.go:623-624 and doc.go:51-55.  By those the borrower of
\* a failed text is never told; InstructMarkedFirst is that design.
ToldHowToPay == mg.page ~> told["pay"] > 0 \/ status \notin Live

\* The vault leg never gives up: funds received are settled or parked, unless
\* the row lacks what the leg needs.
FundsReceivedSettle ==
  status = "funds_received" ~> status \in {"settled", "vault_unknown"} \/ ~complete

\* The borrower's money, once on the treasury, is kept for the vault until it
\* is there or before the operators.
FundsResolve == FundsNeverAbandoned /\ FundsReceivedSettle

\* docs/onramp/moneygram.md: nothing resubmits a repay whose outcome is open.
NeverResubmitted == flying > 0 => pc # "leg"
=============================================================================
