----------------------------- MODULE DepositProofs -----------------------------
(***************************************************************************)
(* For every number of attempts and faults: a second repay of the vault     *)
(* costs a lost record, a loan is closed only when repaid, money that       *)
(* reached the treasury is never given up, and no outcome is told twice.    *)
(*                                                                         *)
(* The bound on repays is not inductive: between the fetch and the vault    *)
(* leg the row must still allow one more (RoomForOne), which holds because  *)
(* only the tick and the operators change its status (BusyIsLive).  Money   *)
(* is not given up because a row with funds was seen completed at the       *)
(* anchor, and completed is final there (SeenCompleted).  A text goes out   *)
(* once because its status is written first and bars it (StatusBars).       *)
(***************************************************************************)
EXTENDS Deposit, TLAPS

Early  == {"ask", "instruct", "mark_pay"}
Unpaid == {"incomplete", "mark_reminder", "expire", "fail"}
Paying == {"received", "tell_received", "guard", "leg", "settle", "park"}

BusyIsLive == pc \in Early \cup Unpaid \cup Paying => status \in Live

RoomForOne ==
  status \in Live /\ pc \notin {"settle", "park"} => repaid + flying <= lost

Repays ==
  /\ repaid \in Nat /\ flying \in Nat /\ lost \in Nat
  /\ BusyIsLive /\ RoomForOne
  /\ pc = "settle" => repaid > 0
  /\ RepaidAgainOnlyIfLost /\ SettledOnlyWhenRepaid

Transaction ==
  [status : {"incomplete", "waiting", "completed", "failed"}, page : BOOLEAN]

SeenCompleted ==
  /\ mg \in Transaction
  /\ tx.status = "completed" => mg.status = "completed"
  /\ status \in {"funds_received", "vault_unknown"} => mg.status = "completed"
  /\ pc \in Paying => mg.status = "completed"
  /\ status = "funds_received" /\ pc \in {"instruct", "mark_pay"}
       => tx.status = "completed"
  /\ pc \in Unpaid => status = "initiated"

Funds == BusyIsLive /\ SeenCompleted

-----------------------------------------------------------------------------

LEMMA RepaysInit == Init => Repays
BY DEF Init, Repays, BusyIsLive, RoomForOne, Early, Unpaid, Paying,
   RepaidAgainOnlyIfLost, SettledOnlyWhenRepaid

\* Every step keeps the repays within what the row knows of.
LEMMA RepaysStep == Repays /\ [Next]_vars => Repays'
<1> SUFFICES ASSUME Repays, [Next]_vars PROVE Repays'
  OBVIOUS
<1> USE DEF Repays, BusyIsLive, RoomForOne, Early, Unpaid, Paying, Live,
        RepaidAgainOnlyIfLost, SettledOnlyWhenRepaid
<1>1. CASE Fetch
  BY <1>1 DEF Fetch, worldVars, rowVars
<1>2. CASE Ask
  BY <1>2 DEF Ask, Go, worldVars, rowVars
<1>3. CASE Instruct
  BY <1>3 DEF Instruct, Go, Handler, worldVars, rowVars
<1>4. CASE MarkPay
  BY <1>4 DEF MarkPay, Go, Handler, worldVars
<1>5. CASE Schedule \/ MarkReminder
  BY <1>5 DEF Schedule, MarkReminder, Go, worldVars
<1>6. CASE Incomplete
  BY <1>6 DEF Incomplete, Go, worldVars, rowVars
<1>7. CASE Expire \/ Fail
  BY <1>7 DEF Expire, Fail, Mark, Go, worldVars
<1>8. CASE TellExpired \/ TellReceived \/ TellRepaid
  BY <1>8 DEF TellExpired, TellReceived, TellRepaid, Notify, Go, worldVars, rowVars
<1>9. CASE Received
  BY <1>9 DEF Received, Mark, Go, worldVars, rowVars
<1>10. CASE Guard
  BY <1>10 DEF Guard, Go, worldVars, rowVars
<1>11. CASE Leg
  BY <1>11 DEF Leg, Go, rowVars
<1>12. CASE Settle
  BY <1>12 DEF Settle, Go, worldVars
<1>13. CASE CountFailure
  BY <1>13 DEF CountFailure, Go, worldVars
<1>14. CASE Ceiling \/ Alarm
  BY <1>14 DEF Ceiling, Alarm, Go, worldVars, rowVars
<1>15. CASE Park
  <2>1. /\ pc' = "alarm" /\ UNCHANGED worldVars
        /\ \/ status' = "vault_unknown" /\ lost' = lost
           \/ status' \in {status, "vault_unknown"} /\ lost' = lost + 1
    BY <1>15, Zenon DEF Park, Go
  <2> QED
    BY <1>15, <2>1 DEF Park, worldVars
<1>16. CASE Crash
  BY <1>16 DEF Crash, worldVars, rowVars
<1>17. CASE Wake \/ Backfill
  BY <1>17 DEF Wake, Backfill, Beyond, worldVars
<1>18. CASE AnchorNext \/ Passes("open", "closing") \/ Passes("closing", "over")
  BY <1>18 DEF AnchorNext, Passes, Beyond, rowVars
<1>19. CASE LegDecided
  <2>1. pc' = pc /\ status' = status /\ lost' = lost
    BY <1>19 DEF LegDecided, Beyond, rowVars
  <2>2. flying' = flying - 1 /\ flying > 0
    BY <1>19 DEF LegDecided
  <2>3. CASE repaid' = repaid
    BY <2>1, <2>2, <2>3
  <2>4. CASE repaid' = repaid + 1
    BY <2>1, <2>2, <2>4
  <2> QED
    BY <1>19, <2>3, <2>4 DEF LegDecided
<1>20. CASE Resolve
  BY <1>20 DEF Resolve, Beyond, worldVars
<1>21. CASE UNCHANGED vars
  BY <1>21 DEF vars, worldVars, rowVars
<1> QED
  BY <1>1, <1>2, <1>3, <1>4, <1>5, <1>6, <1>7, <1>8, <1>9, <1>10, <1>11, <1>12,
     <1>13, <1>14, <1>15, <1>16, <1>17, <1>18, <1>19, <1>20, <1>21
  DEF Next, DriverNext

\* The vault is repaid again only after a record of a repay was lost
\* (deposit.go: MarkSettled failing, a park failing, or a stop between them).
THEOREM RepayCostsLostRecord == Spec => []RepaidAgainOnlyIfLost
<1>1. Repays => RepaidAgainOnlyIfLost
  BY DEF Repays
<1> QED
  BY RepaysInit, RepaysStep, <1>1, PTL DEF Spec

\* A loan is settled only when a repay_for landed (handleCompleted, MarkSettled).
THEOREM ClosedOnlyOnceRepaid == Spec => []SettledOnlyWhenRepaid
<1>1. Repays => SettledOnlyWhenRepaid
  BY DEF Repays
<1> QED
  BY RepaysInit, RepaysStep, <1>1, PTL DEF Spec

-----------------------------------------------------------------------------

LEMMA FundsInit == Init => Funds
<1>1. NoTx \in Transaction
  BY DEF NoTx, Transaction
<1> QED
  BY <1>1 DEF Init, Funds, BusyIsLive, SeenCompleted, Early, Unpaid, Paying, Live, NoTx

\* A row with funds is a row whose deposit the anchor completed.
LEMMA FundsStep == Funds /\ [Next]_vars => Funds'
<1> SUFFICES ASSUME Funds, [Next]_vars PROVE Funds'
  OBVIOUS
<1> USE DEF Funds, BusyIsLive, SeenCompleted, Early, Unpaid, Paying, Live
<1>1. CASE Fetch
  BY <1>1 DEF Fetch, worldVars, rowVars
<1>2. CASE Ask
  BY <1>2 DEF Ask, Go, worldVars, rowVars
<1>3. CASE Instruct
  BY <1>3 DEF Instruct, Go, Handler, worldVars, rowVars
<1>4. CASE MarkPay
  BY <1>4 DEF MarkPay, Go, Handler, worldVars
<1>5. CASE Schedule \/ MarkReminder
  BY <1>5 DEF Schedule, MarkReminder, Go, worldVars
<1>6. CASE Incomplete
  BY <1>6 DEF Incomplete, Go, worldVars, rowVars
<1>7. CASE Expire \/ Fail
  BY <1>7 DEF Expire, Fail, Mark, Go, worldVars
<1>8. CASE TellExpired \/ TellReceived \/ TellRepaid
  BY <1>8 DEF TellExpired, TellReceived, TellRepaid, Notify, Go, worldVars, rowVars
<1>9. CASE Received
  BY <1>9 DEF Received, Mark, Go, worldVars, rowVars
<1>10. CASE Guard
  BY <1>10 DEF Guard, Go, worldVars, rowVars
<1>11. CASE Leg
  BY <1>11 DEF Leg, Go, rowVars
<1>12. CASE Settle
  BY <1>12 DEF Settle, Go, worldVars
<1>13. CASE CountFailure
  BY <1>13 DEF CountFailure, Go, worldVars
<1>14. CASE Ceiling \/ Alarm
  BY <1>14 DEF Ceiling, Alarm, Go, worldVars, rowVars
<1>15. CASE Park
  BY <1>15 DEF Park, Go, worldVars
<1>16. CASE Crash
  BY <1>16 DEF Crash, worldVars, rowVars, NoTx
<1>17. CASE Wake \/ Backfill
  BY <1>17 DEF Wake, Backfill, Beyond, worldVars
<1>18. CASE AnchorNext
  <2>1. UNCHANGED <<status, pc, tx>>
    BY <1>18 DEF AnchorNext, Beyond, rowVars
  <2>2. mg' \in Transaction
    BY <1>18, Zenon DEF AnchorNext, Transaction
  <2>3. mg.status = "completed" => mg'.status = "completed"
    BY <1>18 DEF AnchorNext, Transaction
  <2> QED
    BY <2>1, <2>2, <2>3
<1>19. CASE LegDecided \/ Passes("open", "closing") \/ Passes("closing", "over")
  BY <1>19 DEF LegDecided, Passes, Beyond, rowVars
<1>20. CASE Resolve
  BY <1>20 DEF Resolve, Beyond, worldVars
<1>21. CASE UNCHANGED vars
  BY <1>21 DEF vars, worldVars, rowVars
<1> QED
  BY <1>1, <1>2, <1>3, <1>4, <1>5, <1>6, <1>7, <1>8, <1>9, <1>10, <1>11, <1>12,
     <1>13, <1>14, <1>15, <1>16, <1>17, <1>18, <1>19, <1>20, <1>21
  DEF Next, DriverNext

Kept == status = "funds_received"
          => status' \in {"funds_received", "settled", "vault_unknown"}

\* A row with funds leaves that state only settled or parked: the steps that
\* end a repayment otherwise run only on a row that is still initiated.
LEMMA FundsKept == Funds /\ [Next]_vars => Kept
<1> SUFFICES ASSUME Funds, [Next]_vars, status = "funds_received"
             PROVE  status' \in {"funds_received", "settled", "vault_unknown"}
  BY DEF Kept
<1>1. CASE Expire \/ Fail
  BY <1>1 DEF Expire, Fail, Funds, SeenCompleted, Unpaid
<1>2. CASE Received
  BY <1>2 DEF Received, Mark, rowVars
<1>3. CASE Settle \/ Park \/ Resolve
  BY <1>3 DEF Settle, Park, Resolve
<1>4. CASE Fetch \/ Ask \/ Instruct \/ MarkPay \/ Schedule \/ Incomplete
           \/ MarkReminder \/ Guard \/ Leg \/ CountFailure \/ Ceiling \/ Alarm
  BY <1>4 DEF Fetch, Ask, Instruct, MarkPay, Schedule, Incomplete, MarkReminder,
     Guard, Leg, CountFailure, Ceiling, Alarm, rowVars
<1>5. CASE TellExpired \/ TellReceived \/ TellRepaid
  BY <1>5 DEF TellExpired, TellReceived, TellRepaid, Notify, rowVars
<1>6. CASE Crash \/ Wake \/ AnchorNext \/ LegDecided \/ Backfill
           \/ Passes("open", "closing") \/ Passes("closing", "over")
  BY <1>6 DEF Crash, Wake, AnchorNext, LegDecided, Backfill, Passes, rowVars
<1>7. CASE UNCHANGED vars
  BY <1>7 DEF vars, rowVars
<1> QED
  BY <1>1, <1>2, <1>3, <1>4, <1>5, <1>6, <1>7 DEF Next, DriverNext

\* The borrower's money is never given up (vaultLegFailed: the retry never stops).
THEOREM TreasuryMoneyIsKept == Spec => FundsNeverAbandoned
<1>1. Kept => [Kept]_vars
  OBVIOUS
<1> QED
  BY FundsInit, FundsStep, FundsKept, <1>1, PTL DEF Spec, FundsNeverAbandoned, Kept

-----------------------------------------------------------------------------
(* The row: its types, and each outcome told once                          *)

\* A tick's snapshot of the status is the row's until the tick writes it, and a
\* text that was sent has a status that bars it.
StatusBars ==
  /\ told \in [Notices -> Nat] /\ OutcomeToldOnce
  /\ pc \in Early \cup Unpaid \cup {"received"} => rec.status = status
  /\ pc = "tell_received" => status = "funds_received" /\ told["received"] = 0
  /\ pc = "tell_expired" => status \in {"expired", "failed"} /\ told["expired"] = 0
  /\ pc = "tell_repaid" => status = "settled" /\ told["repaid"] = 0
  /\ told["received"] # 0 => status \in {"funds_received", "settled", "vault_unknown"}
  /\ told["expired"] # 0 => status \in {"expired", "failed"}
  /\ told["repaid"] # 0 => status = "settled"

LEMMA BarsInit == Init => StatusBars
BY DEF Init, StatusBars, OutcomeToldOnce, Notices, Early, Unpaid

\* A text counts up to 2.
LEMMA ToldOnceMore ==
  ASSUME told \in [Notices -> Nat], NEW notice \in Notices, Tell(notice)
  PROVE  /\ told' \in [Notices -> Nat]
         /\ \A n \in Notices : n # notice => told'[n] = told[n]
         /\ told[notice] = 0 => told'[notice] = 1
BY DEF Tell, Lesser

LEMMA BarsStep == StatusBars /\ Funds /\ TypeOK /\ [Next]_vars => StatusBars'
<1> SUFFICES ASSUME StatusBars, Funds, TypeOK, [Next]_vars PROVE StatusBars'
  OBVIOUS
<1> USE DEF StatusBars, OutcomeToldOnce, Early, Unpaid, Live
<1>1. CASE Fetch
  BY <1>1 DEF Fetch, rowVars
<1>2. CASE Ask
  BY <1>2 DEF Ask, Go, rowVars
<1>3. CASE Instruct
  BY <1>3, ToldOnceMore DEF Instruct, Go, Handler, rowVars, Notices
<1>4. CASE MarkPay
  BY <1>4 DEF MarkPay, Go, Handler
<1>5. CASE Schedule \/ MarkReminder
  BY <1>5 DEF Schedule, MarkReminder, Go
<1>6. CASE Incomplete
  BY <1>6, ToldOnceMore DEF Incomplete, Go, rowVars, Notices
<1>7. CASE Expire \/ Fail
  BY <1>7 DEF Expire, Fail, Mark, Go, Funds, SeenCompleted
<1>8. CASE TellExpired \/ TellReceived \/ TellRepaid
  BY <1>8, ToldOnceMore DEF TellExpired, TellReceived, TellRepaid, Notify, Go,
     rowVars, Notices
<1>9. CASE Received
  BY <1>9 DEF Received, Mark, Go, rowVars, TypeOK
<1>10. CASE Guard \/ Leg \/ CountFailure \/ Ceiling \/ Alarm
  BY <1>10 DEF Guard, Leg, CountFailure, Ceiling, Alarm, Go, rowVars
<1>11. CASE Settle
  BY <1>11 DEF Settle, Go, Funds, BusyIsLive, Paying
<1>12. CASE Park
  BY <1>12 DEF Park, Go, Funds, BusyIsLive, Paying
<1>13. CASE Crash
  BY <1>13 DEF Crash, rowVars
<1>14. CASE Resolve
  BY <1>14 DEF Resolve, Beyond
<1>15. CASE Wake \/ AnchorNext \/ LegDecided \/ Backfill
           \/ Passes("open", "closing") \/ Passes("closing", "over")
  BY <1>15 DEF Wake, AnchorNext, LegDecided, Backfill, Passes, Beyond, rowVars
<1>16. CASE UNCHANGED vars
  BY <1>16 DEF vars, rowVars
<1> QED
  BY <1>1, <1>2, <1>3, <1>4, <1>5, <1>6, <1>7, <1>8, <1>9, <1>10, <1>11, <1>12,
     <1>13, <1>14, <1>15, <1>16
  DEF Next, DriverNext

LEMMA TypeInit == Init => TypeOK
<1> SUFFICES ASSUME Init PROVE TypeOK
  OBVIOUS
<1>1. {paySent, reminded, due, complete} \subseteq BOOLEAN
  BY Zenon DEF Init
<1> QED
  BY <1>1, DepositAssumption DEF Init, TypeOK, NoRow, Statuses, Live

LEMMA Counted == ASSUME NEW n \in Nat PROVE Lesser(n + 1, MaxAttempts + 1) \in 0..(MaxAttempts + 1)
BY DepositAssumption DEF Lesser

LEMMA TypeStep == TypeOK /\ [Next]_vars => TypeOK'
<1> SUFFICES ASSUME TypeOK, [Next]_vars PROVE TypeOK'
  OBVIOUS
<1> USE DepositAssumption DEF TypeOK, Statuses, Live
<1>a. ASSUME Fault PROVE faults' \in 0..MaxFaults
  BY <1>a DEF Fault
<1>1. CASE Fetch
  BY <1>1 DEF Fetch, worldVars, rowVars
<1>2. CASE Ask
  BY <1>2, <1>a DEF Ask, Go, NoFault, worldVars, rowVars
<1>3. CASE Instruct
  BY <1>3, <1>a DEF Instruct, Go, NoFault, worldVars, rowVars
<1>4. CASE MarkPay \/ MarkReminder \/ Schedule
  BY <1>4, <1>a DEF MarkPay, MarkReminder, Schedule, Go, NoFault, worldVars
<1>6. CASE Incomplete
  BY <1>6, <1>a DEF Incomplete, Go, NoFault, worldVars, rowVars
<1>7. CASE Expire \/ Fail
  BY <1>7, <1>a DEF Expire, Fail, Mark, Go, NoFault, worldVars
<1>8. CASE TellExpired \/ TellReceived \/ TellRepaid
  BY <1>8, <1>a DEF TellExpired, TellReceived, TellRepaid, Notify, Go, NoFault,
     worldVars, rowVars
<1>9. CASE Received
  BY <1>9, <1>a DEF Received, Mark, Go, NoFault, worldVars, rowVars
<1>10. CASE Guard \/ Ceiling \/ Alarm
  BY <1>10 DEF Guard, Ceiling, Alarm, Go, worldVars, rowVars
<1>11. CASE Leg
  BY <1>11, <1>a DEF Leg, Go, NoFault, rowVars
<1>12. CASE Settle \/ Park
  <2>1. {paySent', reminded', due', complete'} \subseteq BOOLEAN
    BY <1>12, Zenon DEF Settle, Park
  <2>2. UNCHANGED <<repaid, flying, attempts, rec>>
    BY <1>12, Zenon DEF Settle, Park, Go, worldVars
  <2>4. (lost' = lost \/ lost' = lost + 1) /\ status' \in {status, "settled", "vault_unknown"}
    BY <1>12, Zenon DEF Settle, Park
  <2>3. faults' \in 0..MaxFaults
    BY <1>12, <1>a DEF Settle, Park, NoFault
  <2> QED BY <2>1, <2>2, <2>3, <2>4
<1>13. CASE CountFailure
  BY <1>13, <1>a, Counted DEF CountFailure, Go, NoFault, worldVars
<1>14. CASE Crash
  BY <1>14, <1>a DEF Crash, NoRow, worldVars, rowVars
<1>15. CASE Wake \/ AnchorNext \/ Backfill \/ Passes("open", "closing") \/ Passes("closing", "over")
  BY <1>15 DEF Wake, AnchorNext, Backfill, Passes, Beyond, worldVars, rowVars
<1>17. CASE LegDecided
  BY <1>17 DEF LegDecided, Beyond, rowVars
<1>18. CASE Resolve
  BY <1>18 DEF Resolve, Beyond, worldVars
<1>16. CASE UNCHANGED vars
  BY <1>16 DEF vars, worldVars, rowVars
<1> QED
  BY <1>1, <1>2, <1>3, <1>4, <1>6, <1>7, <1>8, <1>9, <1>10, <1>11, <1>12,
     <1>13, <1>14, <1>15, <1>16, <1>17, <1>18
  DEF Next, DriverNext

\* The row holds what its handlers write, a settled one had its debt repaid, and no
\* outcome is told twice on it: the status is written before the text and bars it
\* (deposit.go).
THEOREM RowStaysSound == Spec => []RowSound
<1> DEFINE Inv == Funds /\ TypeOK /\ StatusBars
<1>1. Init => Inv
  BY FundsInit, TypeInit, BarsInit
<1>2. Inv /\ [Next]_vars => Inv'
  BY FundsStep, TypeStep, BarsStep
<1>3. Inv /\ SettledOnlyWhenRepaid => RowSound
  BY DEF StatusBars, RowSound
<1> QED
  BY <1>1, <1>2, <1>3, ClosedOnlyOnceRepaid, PTL DEF Spec
=============================================================================
