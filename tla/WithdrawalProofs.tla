--------------------------- MODULE WithdrawalProofs ---------------------------
(***************************************************************************)
(* The cash-out never pays twice, closes a loan as refunded only with the   *)
(* vault repaid, sends no text twice, and implements CashOut: for every     *)
(* principal, refund, listing and number of faults.                         *)
(*                                                                         *)
(* That a payment exists only under a claim is not inductive by itself: a   *)
(* tick acts on a snapshot of the row, so the snapshot's "not_claimed" must *)
(* still be true when the claim is written (SnapshotFresh), and a claim may *)
(* be released only where the last submission is known to have failed       *)
(* (FateKnown). That what reaches the vault was carried by transactions     *)
(* that arrived needs the same care: the amount found by a tick, and the    *)
(* one set aside by a failed repayment, stay covered while they wait        *)
(* (AmountsCovered), and a tick past the anchor's answer must still agree   *)
(* with what the anchor says (AnchorKnown).                                 *)
(***************************************************************************)
EXTENDS Withdrawal, TLAPS, FiniteSetTheorems, WellFoundedInduction

Gone == paid + flying

\* The step at which a payment may be submitted or released has no other one.
ClaimCovers ==
  /\ claim = "none" => Gone = 0
  /\ pc = "send" => Gone = 0 /\ claim # "none"
  /\ pc = "confirm" => claim # "none"

SnapshotFresh ==
  /\ pc \in {"ask", "start", "claim"} /\ ~rec.claimed => Gone = 0
  /\ pc = "claim" => ~rec.claimed

FateKnown ==
  /\ fate \in {"none", "failed"} => Gone = 0
  /\ pc = "clear" => fate = "failed"

Once ==
  /\ paid \in Nat /\ flying \in Nat /\ PaidAtMostOnce
  /\ ClaimCovers /\ SnapshotFresh /\ FateKnown

\* What a settled refund passes on: an amount found, recorded, repaid, closed.
Settled ==
  /\ arrived \subseteq Refunds
  /\ vaultPaid = 0 \/ vaultPaid > 0
  /\ pc \in {"log", "repay"} => net > 0
  /\ pc \in {"repay", "close"} => refund > 0
  /\ pc = "close" => vaultPaid > 0
  /\ ClosedOnlyWhenRepaid

-----------------------------------------------------------------------------

LEMMA OnceInit == Init => Once
BY DEF Init, Once, PaidAtMostOnce, ClaimCovers, SnapshotFresh, FateKnown, Gone

\* Every step keeps the payments, the claim, the snapshot and the fate in step.
LEMMA OnceStep == Once /\ [Next]_vars => Once'
<1> SUFFICES ASSUME Once, [Next]_vars PROVE Once'
  OBVIOUS
<1> USE DEF Once, PaidAtMostOnce, ClaimCovers, SnapshotFresh, FateKnown, Gone
<1>1. CASE Fetch
  BY <1>1 DEF Fetch, ledgerVars, rowVars
<1>2. CASE Ask
  BY <1>2 DEF Ask, Handler, ledgerVars, rowVars
<1>3. CASE Start
  BY <1>3 DEF Start, Stay, Go, AlreadySent, ledgerVars, rowVars
<1>4. CASE Claim
  BY <1>4 DEF Claim, Go, ledgerVars
<1>5. CASE Send
  BY <1>5 DEF Send, Go, rowVars
<1>6. CASE Confirm
  BY <1>6 DEF Confirm, Go, Stay, ledgerVars, rowVars
<1>7. CASE Clear
  BY <1>7 DEF Clear, Go, ledgerVars
<1>8. CASE Record
  BY <1>8 DEF Record, Go, ledgerVars
<1>9. CASE Ready \/ Done \/ Refunded \/ Close \/ Failing
  BY <1>9 DEF Ready, Done, Refunded, Close, Failing, SetStatus, Go, Stay,
     ledgerVars, rowVars
<1>10. CASE TellReady \/ TellDone \/ TellRefund \/ TellFailed
  BY <1>10 DEF TellReady, TellDone, TellRefund, TellFailed, Notify, Go,
     ledgerVars, rowVars
<1>11. CASE Settle
  BY <1>11 DEF Settle, Found, Await, NotYet, Stay, ledgerVars, rowVars
<1>12. CASE LogRefund
  BY <1>12 DEF LogRefund, Go, ledgerVars
<1>13. CASE Repay \/ RepayAll
  BY <1>13 DEF Repay, RepayAll, Go, ledgerVars, rowVars
<1>14. CASE Crash
  BY <1>14 DEF Crash, ledgerVars, rowVars
<1>15. CASE PaymentLands \/ PaymentFails
  BY <1>15 DEF PaymentLands, PaymentFails, Beyond, rowVars, tickVars
<1>16. CASE (\E h \in Refunds : RefundArrives(h)) \/ AnchorNext \/ Reconcile
  BY <1>16 DEF RefundArrives, AnchorNext, Anchor, AnchorSays, Reconcile, Beyond,
     ledgerVars, rowVars, tickVars
<1>17. CASE Release
  BY <1>17 DEF Release, ledgerVars, tickVars
<1>18. CASE UNCHANGED vars
  BY <1>18 DEF vars, ledgerVars, rowVars, tickVars
<1> QED
  BY <1>1, <1>2, <1>3, <1>4, <1>5, <1>6, <1>7, <1>8, <1>9, <1>10, <1>11, <1>12,
     <1>13, <1>14, <1>15, <1>16, <1>17, <1>18 DEF Next, PollerNext, LedgerNext

\* The principal is sent at most once (withdrawal.go claims before it sends).
THEOREM NeverPaidTwice == Spec => []PaidAtMostOnce
<1>1. Once => PaidAtMostOnce
  BY DEF Once
<1> QED
  BY OnceInit, OnceStep, <1>1, PTL DEF Spec

-----------------------------------------------------------------------------

LEMMA SettledInit == Init => Settled
BY DEF Init, Settled, ClosedOnlyWhenRepaid

\* The loan is closed as refunded by Close alone, which Repay alone leads to.
LEMMA SettledStep == Settled /\ [Next]_vars => Settled'
<1> SUFFICES ASSUME Settled, [Next]_vars PROVE Settled'
  OBVIOUS
<1> USE DEF Settled, ClosedOnlyWhenRepaid, anchorVars
<1>a. Principal > 0 /\ \A h \in Refunds : RefundAmount[h] > 0
  BY WithdrawalAssumption
<1>b. net > 0 => Lesser(net, Principal) > 0
  BY <1>a, Zenon DEF Lesser
<1>1. CASE Fetch
  BY <1>1 DEF Fetch, rowVars, vaultVars
<1>2. CASE Ask
  BY <1>2 DEF Ask, Handler, rowVars, vaultVars
<1>3. CASE Start \/ Confirm
  BY <1>3 DEF Start, Confirm, Stay, Go, rowVars, vaultVars
<1>4. CASE Claim \/ Clear \/ Record
  BY <1>4 DEF Claim, Clear, Record, Go, vaultVars
<1>5. CASE Send
  BY <1>5 DEF Send, Go, rowVars, vaultVars
<1>6. CASE Ready \/ Done \/ Refunded \/ Failing
  BY <1>6 DEF Ready, Done, Refunded, Failing, SetStatus, Go, Stay, rowVars,
     vaultVars
<1>7. CASE Close
  BY <1>7 DEF Close, SetStatus, Go, vaultVars
<1>8. CASE TellReady \/ TellDone \/ TellRefund \/ TellFailed
  BY <1>8 DEF TellReady, TellDone, TellRefund, TellFailed, Notify, Go, rowVars,
     vaultVars
<1>9. CASE Settle
  <2>1. UNCHANGED <<arrived, status, refund, vaultPaid>>
    BY <1>9 DEF Settle, Stay, rowVars, vaultVars
  <2>2. pc' = "idle" \/ (pc' = "log" /\ net' > 0)
    <3>1. CASE tx.listing = <<>>
      BY <1>9, <1>a, <3>1 DEF Settle, Found, Await
    <3>2. CASE tx.listing # <<>>
      BY <1>9, <3>2 DEF Settle, Found, NotYet
    <3> QED
      BY <3>1, <3>2
  <2> QED
    BY <2>1, <2>2
<1>10. CASE LogRefund
  BY <1>10 DEF LogRefund, Go, vaultVars
<1>11. CASE Repay
  <2>1. UNCHANGED <<arrived, status, refund>> /\ refund > 0 /\ net > 0
    BY <1>11 DEF Repay, rowVars
  <2>2. pc' \in {"idle", "close"}
    BY <1>11 DEF Repay, Go
  <2>3. \/ UNCHANGED vaultPaid /\ pc' # "close"
        \/ RepaidWith(Lesser(net, Principal))
    BY <1>11 DEF Repay, Go, vaultVars
  <2>4. (vaultPaid' = 0 /\ pc' # "close") \/ vaultPaid' > 0
    BY <1>b, <2>1, <2>3, Zenon DEF RepaidWith
  <2> QED
    BY <2>1, <2>2, <2>3, <2>4, Zenon DEF RepaidWith
<1>12. CASE RepayAll
  <2>1. UNCHANGED <<arrived, status, refund>> /\ pc' = "idle"
    BY <1>12 DEF RepayAll, Go, rowVars
  <2>2. UNCHANGED vaultPaid \/ RepaidWith(Principal)
    BY <1>12 DEF RepayAll
  <2> QED
    BY <1>a, <2>1, <2>2 DEF RepaidWith
<1>13. CASE Crash
  BY <1>13 DEF Crash, rowVars, vaultVars
<1>14. CASE Reconcile
  BY <1>14 DEF Reconcile, RepaidWith, Beyond, rowVars, tickVars
<1>15. CASE LedgerNext \/ AnchorNext
  BY <1>15 DEF LedgerNext, PaymentLands, PaymentFails, RefundArrives, AnchorNext,
     Anchor, AnchorSays, Beyond, rowVars, vaultVars, tickVars
<1>16. CASE Release
  BY <1>16 DEF Release, vaultVars, tickVars
<1>17. CASE UNCHANGED vars
  BY <1>17 DEF vars, rowVars, vaultVars, tickVars
<1> QED
  BY <1>1, <1>2, <1>3, <1>4, <1>5, <1>6, <1>7, <1>8, <1>9, <1>10, <1>11, <1>12,
     <1>13, <1>14, <1>15, <1>16, <1>17 DEF Next, PollerNext

\* A loan closed as refunded has its refund on record and the vault repaid.
THEOREM RefundClosesRepaid == Spec => []ClosedOnlyWhenRepaid
<1>1. Settled => ClosedOnlyWhenRepaid
  BY DEF Settled
<1> QED
  BY SettledInit, SettledStep, <1>1, PTL DEF Spec

-----------------------------------------------------------------------------
(* What a set of transactions carried                                      *)

\* Carried is a sum over a finite set, a recursion of the library over subsets
\* (Table). The facts about it that the proofs need are shown on a least subset
\* that would break them: there is one, because inclusion is well-founded there.
Choice(s) == CHOOSE x \in s : TRUE
Summed(f, s) == IF s = {} THEN 0 ELSE RefundAmount[Choice(s)] + f[s \ {Choice(s)}]
IsTable(f, T) == f = [s \in SUBSET T |-> Summed(f, s)]
Table(T) == CHOOSE f : f = [s \in SUBSET T |-> Summed(f, s)]

LEMMA CarriedIsTable == ASSUME NEW T PROVE Carried(T) = Table(T)[T]
BY Zenon DEF Carried, MapThenSumSet, MapThenFoldSet, Table, Summed, Choice

LEMMA ChoiceIn == ASSUME NEW s, s # {} PROVE Choice(s) \in s
BY DEF Choice

LEMMA LeastSubset ==
  ASSUME NEW T, IsFiniteSet(T), NEW Bad \in SUBSET SUBSET T, Bad # {}
  PROVE  \E s \in Bad : \A u \in Bad : ~(u \subseteq s /\ u # s)
<1>1. IsWellFoundedOn(StrictSubsetOrdering(T), SUBSET T)
  BY FS_StrictSubsetOrderingWellFounded, FS_FiniteSubsetsOfFinite
<1>2. PICK s \in Bad : \A u \in Bad : ~(<<u, s>> \in StrictSubsetOrdering(T))
  BY <1>1, WFMin
<1>3. ASSUME NEW u \in Bad, u \subseteq s, u # s PROVE FALSE
  <2>1. <<u, s>> \in (SUBSET T) \X (SUBSET T)
    OBVIOUS
  <2> QED BY <1>2, <1>3, <2>1 DEF StrictSubsetOrdering
<1> QED BY <1>3

LEMMA Smaller ==
  ASSUME NEW s, s # {}
  PROVE  s \ {Choice(s)} \subseteq s /\ s \ {Choice(s)} # s
BY ChoiceIn

LEMMA TableAt ==
  ASSUME NEW f, NEW T, IsTable(f, T), NEW s \in SUBSET T
  PROVE  f[s] = Summed(f, s)
<1> DEFINE g == [u \in SUBSET T |-> Summed(f, u)]
<1>1. g[s] = Summed(f, s) OBVIOUS
<1>2. f = g BY DEF IsTable
<1> HIDE DEF g
<1> QED BY <1>1, <1>2

LEMMA TablesAgree ==
  ASSUME NEW T, NEW U, NEW f, NEW g, IsFiniteSet(U), U \subseteq T,
         IsTable(f, T), IsTable(g, U)
  PROVE  \A s \in SUBSET U : f[s] = g[s]
<1> DEFINE Bad == {s \in SUBSET U : f[s] # g[s]}
<1> SUFFICES ASSUME Bad # {} PROVE FALSE
  OBVIOUS
<1>0. Bad # {}
  OBVIOUS
<1>1. Bad \in SUBSET SUBSET U
  OBVIOUS
<1>2. PICK s \in Bad : \A u \in Bad : ~(u \subseteq s /\ u # s)
  <2> HIDE DEF Bad
  <2> QED BY <1>0, <1>1, LeastSubset
<1>3. s \subseteq U /\ s \subseteq T /\ f[s] # g[s]
  BY <1>2
<1>4. f[s] = Summed(f, s) /\ g[s] = Summed(g, s)
  BY <1>3, TableAt
<1>5. CASE s = {}
  BY <1>3, <1>4, <1>5 DEF Summed
<1>6. CASE s # {}
  <2>1. s \ {Choice(s)} \notin Bad
    BY <1>2, <1>6, Smaller
  <2>2. f[s \ {Choice(s)}] = g[s \ {Choice(s)}]
    BY <1>3, <2>1
  <2> QED BY <1>3, <1>4, <1>6, <2>2 DEF Summed
<1> QED BY <1>5, <1>6

\* What the library's recursion computes on every finite set.
LEMMA TableExists ==
  ASSUME NEW T, IsFiniteSet(T)
  PROVE  IsTable(Table(T), T)
<1> DEFINE Bad == {u \in SUBSET T : ~IsTable(Table(u), u)}
<1> SUFFICES ASSUME Bad # {} PROVE FALSE
  OBVIOUS
<1>0. Bad # {}
  OBVIOUS
<1>1. Bad \in SUBSET SUBSET T
  OBVIOUS
<1>2. PICK B \in Bad : \A u \in Bad : ~(u \subseteq B /\ u # B)
  <2> HIDE DEF Bad
  <2> QED BY <1>0, <1>1, LeastSubset
<1>3. B \subseteq T /\ ~IsTable(Table(B), B)
  BY <1>2
<1>4. \A u \in SUBSET B : u # B => IsTable(Table(u), u)
  BY <1>2, <1>3
<1> HIDE DEF Bad
<1> DEFINE V(s) == IF s = {} THEN 0
                   ELSE RefundAmount[Choice(s)] + Table(s \ {Choice(s)})[s \ {Choice(s)}]
           f == [s \in SUBSET B |-> V(s)]
<1>5. ASSUME NEW s \in SUBSET B PROVE V(s) = Summed(f, s)
  <2>1. CASE s = {}
    BY <2>1 DEF Summed
  <2>2. CASE s # {}
    <3> DEFINE u == s \ {Choice(s)}
    <3>1. u \in SUBSET B /\ u # B
      BY <2>2, Smaller
    <3>2. f[u] = V(u)
      BY <3>1
    <3>3. IsTable(Table(u), u) /\ IsFiniteSet(u)
      BY <1>3, <1>4, <3>1, FS_Subset
    <3>4. Table(u)[u] = Summed(Table(u), u)
      BY <3>3, TableAt
    <3>5. Table(u)[u] = V(u)
      <4>1. CASE u = {}
        BY <3>4, <4>1 DEF Summed
      <4>2. CASE u # {}
        <5> DEFINE v == u \ {Choice(u)}
        <5>1. v \in SUBSET u /\ v \in SUBSET B /\ v # B
          BY <3>1, <4>2, Smaller
        <5>2. IsTable(Table(v), v) /\ IsFiniteSet(v)
          BY <1>4, <3>3, <5>1, FS_Subset
        <5>3. Table(u)[v] = Table(v)[v]
          BY <3>3, <5>1, <5>2, TablesAgree
        <5> QED BY <3>4, <4>2, <5>3 DEF Summed
      <4> QED BY <4>1, <4>2
    <3> QED BY <2>2, <3>2, <3>5 DEF Summed
  <2> QED BY <2>1, <2>2
<1>6. IsTable(f, B)
  BY <1>5 DEF IsTable
<1>7. IsTable(Table(B), B)
  BY <1>6, Zenon DEF IsTable, Table
<1> QED BY <1>3, <1>7

\* A sum is an element of the set and the sum of the others.
LEMMA CarriedSplits ==
  ASSUME NEW T, IsFiniteSet(T)
  PROVE  Carried(T) = IF T = {} THEN 0
                      ELSE RefundAmount[Choice(T)] + Carried(T \ {Choice(T)})
<1>1. Carried(T) = Summed(Table(T), T)
  BY CarriedIsTable, TableExists, TableAt
<1>2. CASE T = {}
  BY <1>1, <1>2 DEF Summed
<1>3. CASE T # {}
  <2> DEFINE u == T \ {Choice(T)}
  <2>1. IsFiniteSet(u) /\ u \subseteq T
    BY FS_Subset
  <2>2. Table(T)[u] = Table(u)[u]
    BY <2>1, TableExists, TablesAgree
  <2> QED BY <1>1, <1>3, <2>2, CarriedIsTable DEF Summed
<1> QED BY <1>2, <1>3

LEMMA CarriedPositive ==
  ASSUME NEW T \in SUBSET Refunds, IsFiniteSet(T)
  PROVE  Carried(T) \in Nat /\ (T # {} => Carried(T) > 0)
<1> DEFINE Bad == {u \in SUBSET T : ~(Carried(u) \in Nat /\ (u # {} => Carried(u) > 0))}
<1> SUFFICES ASSUME Bad # {} PROVE FALSE
  OBVIOUS
<1>0. Bad # {}
  OBVIOUS
<1>1. Bad \in SUBSET SUBSET T
  OBVIOUS
<1>2. PICK B \in Bad : \A u \in Bad : ~(u \subseteq B /\ u # B)
  <2> HIDE DEF Bad
  <2> QED BY <1>0, <1>1, LeastSubset
<1>3. B \subseteq T /\ IsFiniteSet(B)
  BY <1>2, FS_Subset
<1>4. CASE B = {}
  <2>1. Carried({}) = 0 /\ B \in Bad
    BY <1>2, <1>3, <1>4, CarriedSplits
  <2> QED BY <1>4, <2>1
<1>5. CASE B # {}
  <2> DEFINE u == B \ {Choice(B)}
  <2>1. u \notin Bad /\ u \in SUBSET T
    BY <1>2, <1>3, <1>5, Smaller
  <2>2. Carried(u) \in Nat
    BY <2>1
  <2>3. RefundAmount[Choice(B)] \in Nat /\ RefundAmount[Choice(B)] > 0
    BY <1>3, <1>5, ChoiceIn, WithdrawalAssumption
  <2>4. Carried(B) = RefundAmount[Choice(B)] + Carried(u)
    BY <1>3, <1>5, CarriedSplits
  <2>5. Carried(B) \in Nat /\ Carried(B) > 0
    BY <2>2, <2>3, <2>4
  <2> QED BY <1>2, <2>5
<1> QED BY <1>4, <1>5

LEMMA CarriedOne == ASSUME NEW h PROVE Carried({h}) = RefundAmount[h] + 0
<1>1. Choice({h}) = h /\ {h} \ {Choice({h})} = {}
  BY ChoiceIn
<1>2. IsFiniteSet({h}) /\ IsFiniteSet({}) /\ {h} # {}
  BY FS_Singleton, FS_EmptySet
<1>3. Carried({h}) = RefundAmount[Choice({h})] + Carried({h} \ {Choice({h})}) /\ Carried({}) = 0
  BY <1>2, CarriedSplits
<1> QED BY <1>1, <1>3

-----------------------------------------------------------------------------
(* The row and the amounts on it                                           *)

\* What the anchor can say of the transaction.
AnchorTx ==
  [status : {"waiting", "start", "complete", "completed", "refunded", "failed"},
   seen : Hashes \cup {Nothing}, listing : Listings \cup {<<>>}, payable : BOOLEAN]

\* What the anchor said and the ledger shows when a tick acts on it.
AnchorKnown ==
  /\ mg \in AnchorTx /\ tx \in AnchorTx
  /\ mg.status \in {"complete", "completed", "refunded"} => paid > 0
  /\ arrived # {} => paid > 0
  /\ pc \in {"done", "tell_done"} \/ status = "completed" => mg.status = "completed"
  /\ pc \in {"refunded", "settle", "log", "repay", "close", "tell_refund"}
       \/ status \in {"refund_pending",
          "refund_received"} => mg.status = "refunded"
  /\ pc \in {"failing", "tell_failed", "repay_all"} => mg.status = "failed"

\* Every amount on its way to the vault was carried by transactions that arrived.
Covered(amount) == \E some \in SUBSET arrived : amount = Carried(some)
AmountsCovered ==
  /\ pc \in {"log", "repay"} => Covered(net)
  /\ deferred > 0 => \E some \in SUBSET arrived : deferred = Lesser(Carried(some), Principal)
  /\ vaultPaid > 0 \/ deferred > 0 => mg.status \in {"refunded", "failed"}

\* A tick's snapshot of the status is the row's until the tick writes it, and a
\* text that was sent has a status that bars it.
StatusBars ==
  /\ told \in [Notices -> Nat] /\ ToldOnce
  /\ pc \in {"ask", "ready", "done", "refunded", "failing"}
       => rec.status = status /\ status \notin Terminal
  /\ pc = "ready" => status # "refund_pending"
  /\ pc \in {"settle", "log", "repay", "close"} => status = "refund_pending"
  /\ pc = "tell_ready" => status = "processing" /\ told["ready"] = 0
  /\ pc = "tell_done" => status = "completed" /\ told["complete"] = 0
  /\ pc = "tell_refund" => status = "refund_received" /\ told["refund"] = 0
  /\ told["ready"] # 0 => status # "pending"
  /\ told["complete"] # 0 => status = "completed"
  /\ told["refund"] # 0 => status = "refund_received"


\* How the anchor's transaction may move.
LEMMA AnchorMoves ==
  ASSUME AnchorNext, mg \in AnchorTx, arrived \subseteq Refunds
  PROVE  /\ mg' \in AnchorTx
         /\ \/ mg'.status = mg.status
            \/ mg.status \in {"waiting", "start",
               "complete"} /\ mg'.status \in {"waiting", "start", "failed"}
            \/ mg.status \in {"waiting", "start",
               "complete"} /\ mg'.status \in {"complete", "refunded"} /\ paid > 0
            \/ mg.status = "complete" /\ mg'.status = "completed"
<1>1. ASSUME NEW from, NEW to \in {"waiting", "start", "complete", "completed", "refunded", "failed"},
             Anchor(from, to)
      PROVE  mg' \in AnchorTx /\ mg.status \in from /\ mg'.status = to
  BY <1>1 DEF Anchor, AnchorTx
<1>2. ASSUME NEW l \in Listings, AnchorSays([mg EXCEPT !.listing = l])
      PROVE  mg' \in AnchorTx /\ mg'.status = mg.status
  BY <1>2 DEF AnchorSays, AnchorTx
<1>3. ASSUME NEW h \in Hashes, AnchorSays([mg EXCEPT !.seen = h])
      PROVE  mg' \in AnchorTx /\ mg'.status = mg.status
  BY <1>3 DEF AnchorSays, AnchorTx
<1>4. ASSUME AnchorSays([mg EXCEPT !.payable = TRUE])
      PROVE  mg' \in AnchorTx /\ mg'.status = mg.status
  BY <1>4 DEF AnchorSays, AnchorTx
<1>5. CASE Anchor({"waiting"}, "start")
  BY <1>1, <1>5
<1>6. CASE Anchor({"start"}, "waiting")
  BY <1>1, <1>6
<1>7. CASE Anchor({"start", "waiting"}, "complete") /\ paid > 0
  BY <1>1, <1>7
<1>8. CASE Anchor({"complete"}, "completed")
  BY <1>1, <1>8
<1>9. CASE Anchor({"start", "waiting", "complete"}, "refunded") /\ paid > 0
  BY <1>1, <1>9
<1>10. CASE Anchor({"start", "waiting", "complete"}, "failed")
  BY <1>1, <1>10
<1>11. Outbound \in Hashes /\ arrived \subseteq Hashes
  BY DEF Hashes
<1> QED
  BY <1>2, <1>3, <1>4, <1>5, <1>6, <1>7, <1>8, <1>9, <1>10, <1>11,
     Zenon DEF AnchorNext

LEMMA KnownInit == Init => AnchorKnown
BY DEF Init, AnchorKnown, NoTx, NoRow, Terminal, AnchorTx, Hashes

LEMMA KnownStep == AnchorKnown /\ Once /\ Settled /\ [Next]_vars => AnchorKnown'
<1> SUFFICES ASSUME AnchorKnown, Once, Settled, [Next]_vars PROVE AnchorKnown'
  OBVIOUS
<1> USE DEF AnchorKnown, AnchorTx
<1>0. paid \in Nat /\ flying \in Nat
  BY DEF Once
<1>a. arrived \subseteq Refunds
  BY DEF Settled
<1>1. CASE Fetch \/ Ask
  BY <1>1 DEF Fetch, Ask, Handler, anchorVars, ledgerVars, rowVars, Terminal
<1>2. CASE Start \/ Claim \/ Send \/ Confirm \/ Clear \/ Record
  BY <1>2 DEF Start, Claim, Send, Confirm, Clear, Record, Stay, Go, anchorVars,
     ledgerVars, rowVars
<1>3. CASE Ready \/ Done \/ Refunded \/ Close \/ Failing
  BY <1>3 DEF Ready, Done, Refunded, Close, Failing, SetStatus, Go, Stay,
     anchorVars, ledgerVars, rowVars
<1>4. CASE TellReady \/ TellDone \/ TellRefund \/ TellFailed
  BY <1>4 DEF TellReady, TellDone, TellRefund, TellFailed, Notify, Go,
     anchorVars, ledgerVars, rowVars
<1>5. CASE Settle
  BY <1>5 DEF Settle, Found, Await, NotYet, Stay, anchorVars, ledgerVars, rowVars
<1>6. CASE LogRefund \/ Repay \/ RepayAll
  BY <1>6 DEF LogRefund, Repay, RepayAll, Go, anchorVars, ledgerVars, rowVars
<1>7. CASE Crash
  BY <1>7 DEF Crash, NoTx, anchorVars, ledgerVars, rowVars
<1>8. CASE PaymentLands \/ PaymentFails
  BY <1>0, <1>8 DEF PaymentLands, PaymentFails, Beyond, anchorVars, rowVars,
     tickVars
<1>9. CASE \E h \in Refunds : RefundArrives(h)
  BY <1>0, <1>9 DEF RefundArrives, Beyond, ledgerVars, rowVars, tickVars
<1>10. CASE AnchorNext
  <2>1. UNCHANGED <<arrived, paid, flying, pc, rec, tx, status>>
    BY <1>10 DEF AnchorNext, Anchor, AnchorSays, Beyond, ledgerVars, rowVars,
       tickVars
  <2> QED BY <1>10, <1>a, <2>1, AnchorMoves
<1>11. CASE Reconcile \/ Release
  BY <1>11 DEF Reconcile, Release, Beyond, anchorVars, ledgerVars, rowVars,
     tickVars
<1>12. CASE UNCHANGED vars
  BY <1>12 DEF vars, anchorVars, ledgerVars, rowVars, tickVars
<1> QED
  BY <1>1, <1>2, <1>3, <1>4, <1>5, <1>6, <1>7, <1>8, <1>9, <1>10, <1>11, <1>12
     DEF Next, PollerNext, LedgerNext

LEMMA CoveredInit == Init => AmountsCovered
BY DEF Init, AmountsCovered

\* What was covered stays covered: no transaction is taken off the ledger.
LEMMA CoveredStays ==
  ASSUME arrived \subseteq arrived'
  PROVE  /\ \A amount : Covered(amount) => (\E some \in SUBSET arrived' : amount = Carried(some))
         /\ (\E some \in SUBSET arrived : deferred = Lesser(Carried(some),
            Principal))
              => \E some \in SUBSET arrived' : deferred = Lesser(Carried(some),
                 Principal)
BY DEF Covered

LEMMA CoveredStep == AmountsCovered /\ AnchorKnown /\ Settled /\ [Next]_vars => AmountsCovered'
<1> SUFFICES ASSUME AmountsCovered, AnchorKnown, Settled, [Next]_vars PROVE AmountsCovered'
  OBVIOUS
<1> USE DEF AmountsCovered
<1>a. arrived \subseteq Refunds
  BY DEF Settled
<1>1. CASE PollerNext /\ ~Settle /\ ~Repay /\ ~RepayAll
  <2>1. UNCHANGED <<mg, arrived, vaultPaid, deferred>>
    BY <1>1 DEF PollerNext, Fetch, Ask, Start, Claim, Send, Confirm, Clear,
       Record,
       Ready, Done, Refunded, Close, Failing, SetStatus, TellReady, TellDone,
          TellRefund,
       TellFailed, Notify, LogRefund, Stay, anchorVars, vaultVars
  <2>2. pc' \in {"log", "repay"} => pc \in {"log", "repay"} /\ net' = net
    BY <1>1 DEF PollerNext, Fetch, Ask, Handler, Start, Claim, Send, Confirm,
       Clear, Record,
       Ready, Done, Refunded, Close, Failing, SetStatus, TellReady, TellDone,
          TellRefund,
       TellFailed, Notify, LogRefund, Go
  <2> QED BY <2>1, <2>2 DEF Covered
<1>2. CASE Settle
  <2>1. UNCHANGED <<mg, arrived, vaultPaid, deferred>>
    BY <1>2 DEF Settle, Stay, anchorVars, vaultVars
  <2>2. pc' = "idle" \/ (pc' = "log" /\ Covered(net'))
    <3>1. CASE tx.listing = <<>>
      <4>1. pc' = "idle" \/ (pc' = "log" /\ net' = RefundAmount[tx.seen] /\ tx.seen \in arrived)
        BY <1>2, <3>1 DEF Settle, Found, Await
      <4>2. tx.seen \in arrived => RefundAmount[tx.seen] = Carried({tx.seen})
        BY <1>a, CarriedOne, WithdrawalAssumption
      <4> QED BY <4>1, <4>2 DEF Covered
    <3>2. CASE tx.listing # <<>>
      <4>1. pc' = "idle" \/ (pc' = "log" /\ net' = Carried(Listed(tx.listing)) /\ Listed(tx.listing) \subseteq arrived)
        BY <1>2, <3>2 DEF Settle, Found, NotYet, LedgerTotal
      <4> QED BY <4>1 DEF Covered
    <3> QED BY <3>1, <3>2
  <2> QED BY <2>1, <2>2 DEF Covered
<1>3. CASE Repay
  <2>1. UNCHANGED <<mg, arrived>> /\ pc = "repay" /\ pc' \in {"idle", "close"}
    BY <1>3 DEF Repay, Go, anchorVars
  <2>2. mg.status = "refunded"
    BY <2>1 DEF AnchorKnown
  <2>3. deferred' = deferred \/ deferred' = Lesser(net, Principal)
    BY <1>3 DEF Repay, vaultVars
  <2>4. Covered(net)
    BY <2>1
  <2> QED BY <2>1, <2>2, <2>3, <2>4 DEF Covered
<1>4. CASE RepayAll
  <2>1. UNCHANGED <<mg, arrived, deferred>> /\ pc = "repay_all" /\ pc' = "idle"
    BY <1>4 DEF RepayAll, Go, anchorVars
  <2>2. mg.status = "failed"
    BY <2>1 DEF AnchorKnown
  <2> QED BY <2>1, <2>2
<1>5. CASE Crash \/ Release
  BY <1>5 DEF Crash, Release, anchorVars, vaultVars, tickVars, Covered
<1>6. CASE PaymentLands \/ PaymentFails
  BY <1>6 DEF PaymentLands, PaymentFails, Beyond, anchorVars, vaultVars,
     tickVars, Covered
<1>7. CASE \E h \in Refunds : RefundArrives(h)
  <2>1. arrived \subseteq arrived' /\ UNCHANGED <<mg, pc, net, vaultPaid, deferred>>
    BY <1>7 DEF RefundArrives, Beyond, vaultVars, tickVars
  <2> QED BY <2>1, CoveredStays DEF Covered
<1>8. CASE AnchorNext
  <2>1. UNCHANGED <<arrived, pc, net, vaultPaid, deferred>>
    BY <1>8 DEF AnchorNext, Anchor, AnchorSays, Beyond, vaultVars, tickVars
  <2>2. mg.status \in {"refunded", "failed"} => mg'.status = mg.status
    BY <1>8, <1>a, AnchorMoves DEF AnchorKnown
  <2> QED BY <2>1, <2>2 DEF Covered
<1>9. CASE Reconcile
  BY <1>9 DEF Reconcile, RepaidWith, Beyond, anchorVars, tickVars, Covered
<1>10. CASE UNCHANGED vars
  BY <1>10 DEF vars, anchorVars, vaultVars, tickVars, Covered
<1> QED
  BY <1>1, <1>2, <1>3, <1>4, <1>5, <1>6, <1>7, <1>8, <1>9, <1>10 DEF Next,
     LedgerNext

LEMMA BarsInit == Init => StatusBars
BY DEF Init, StatusBars, Notices, ToldOnce

\* A text counts up to 2.
LEMMA ToldOnceMore ==
  ASSUME told \in [Notices -> Nat], NEW notice \in Notices, Tell(notice)
  PROVE  /\ told' \in [Notices -> Nat]
         /\ \A n \in Notices : n # notice => told'[n] = told[n]
         /\ told[notice] = 0 => told'[notice] = 1
BY DEF Tell, Lesser

LEMMA BarsStep == StatusBars /\ TypeOK /\ AnchorKnown /\ [Next]_vars => StatusBars'
<1> SUFFICES ASSUME StatusBars, TypeOK, AnchorKnown, [Next]_vars PROVE StatusBars'
  OBVIOUS
<1> USE DEF StatusBars, Terminal, ToldOnce
<1>1. CASE Fetch
  BY <1>1 DEF Fetch, rowVars
<1>2. CASE Ask
  BY <1>2 DEF Ask, Handler, rowVars, AnchorKnown
<1>3. CASE Start \/ Claim \/ Send \/ Confirm \/ Clear \/ Record
  BY <1>3 DEF Start, Claim, Send, Confirm, Clear, Record, Stay, Go, rowVars
<1>4. CASE Ready \/ Done \/ Refunded \/ Close \/ Failing
  <2>1. CASE Ready
    <3>1. status \in {"pending", "processing"} /\ rec.status = status /\ pc = "ready"
      BY <2>1 DEF Ready, TypeOK
    <3>2. CASE status = "processing"
      BY <2>1, <3>1, <3>2 DEF Ready, Go, Stay, rowVars
    <3>3. CASE status = "pending"
      BY <2>1, <3>1, <3>3 DEF Ready, SetStatus, Go
    <3> QED BY <3>1, <3>2, <3>3
  <2>2. CASE Done
    BY <2>2 DEF Done, SetStatus, Go
  <2>3. CASE Refunded
    BY <2>3 DEF Refunded, SetStatus, Go, Stay, rowVars
  <2>4. CASE Close
    BY <2>4 DEF Close, SetStatus, Go
  <2>5. CASE Failing
    BY <2>5 DEF Failing, SetStatus, Go
  <2> QED BY <1>4, <2>1, <2>2, <2>3, <2>4, <2>5
<1>5. CASE TellReady \/ TellDone \/ TellRefund \/ TellFailed
  BY <1>5, ToldOnceMore DEF TellReady, TellDone, TellRefund, TellFailed, Notify,
     Go, rowVars, Notices
<1>6. CASE Settle
  BY <1>6 DEF Settle, Found, Await, NotYet, Stay, rowVars
<1>7. CASE LogRefund \/ Repay \/ RepayAll
  BY <1>7 DEF LogRefund, Repay, RepayAll, Go, rowVars
<1>8. CASE Crash
  BY <1>8 DEF Crash, rowVars
<1>9. CASE LedgerNext \/ AnchorNext \/ Reconcile
  BY <1>9 DEF LedgerNext, PaymentLands, PaymentFails, RefundArrives, AnchorNext,
     Anchor, AnchorSays, Reconcile, Beyond, rowVars, tickVars
<1>10. CASE Release
  BY <1>10 DEF Release, tickVars
<1>11. CASE UNCHANGED vars
  BY <1>11 DEF vars, rowVars, tickVars
<1> QED
  BY <1>1, <1>2, <1>3, <1>4, <1>5, <1>6, <1>7, <1>8, <1>9, <1>10, <1>11 DEF Next,
     PollerNext

-----------------------------------------------------------------------------

LEMMA TypeInit == Init => TypeOK
BY WithdrawalAssumption DEF Init, TypeOK, NoRow, Terminal

LEMMA ListedFinite ==
  ASSUME NEW listing \in Seq(Hashes)
  PROVE  IsFiniteSet(Listed(listing))
<1>1. IsFiniteSet(1..Len(listing))
  BY FS_Interval
<1>2. Listed(listing) = {listing[i] : i \in 1..Len(listing)}
  BY DEF Listed
<1> QED
  <2> DEFINE f == [i \in 1..Len(listing) |-> listing[i]]
             img == {f[i] : i \in 1..Len(listing)}
  <2>1. f \in [1..Len(listing) -> Hashes]
    OBVIOUS
  <2>2. f \in Surjection(1..Len(listing), Listed(listing))
    BY <1>2, <2>1 DEF Surjection
  <2> QED BY <1>1, <2>2, FS_Surjection

LEMMA LesserNat ==
  ASSUME NEW a \in Nat, NEW b \in Nat
  PROVE  Lesser(a, b) \in Nat /\ Lesser(a, b) <= a /\ Lesser(a, b) <= b
BY DEF Lesser

LEMMA TypeStep == TypeOK /\ AnchorKnown /\ [Next]_vars => TypeOK'
<1> SUFFICES ASSUME TypeOK, AnchorKnown, [Next]_vars PROVE TypeOK'
  OBVIOUS
<1> USE WithdrawalAssumption DEF TypeOK, Terminal
<1>a. ASSUME Fault PROVE faults' \in 0..MaxFaults
  BY <1>a DEF Fault
<1>b. CASE Fetch
  <2>1. UNCHANGED <<arrived, paid, flying, fate, claim, status, refund, vaultPaid, deferred, net, waits, faults>>
    BY <1>b DEF Fetch, anchorVars, ledgerVars, rowVars, vaultVars
  <2>2. rec'.claimed = (claim # "none")
    BY <1>b DEF Fetch
  <2>3. rec'.claimed \in BOOLEAN
    BY <2>2, Zenon
  <2> QED BY <2>1, <2>3
<1>1. CASE Ask
  BY <1>1, <1>a DEF Ask, Handler, NoFault, anchorVars, ledgerVars, rowVars,
     vaultVars
<1>2. CASE Start \/ Claim \/ Send \/ Confirm \/ Clear \/ Record
  BY <1>2, <1>a DEF Start, Claim, Send, Confirm, Clear, Record, Stay, Go,
     NoFault, anchorVars, ledgerVars, rowVars, vaultVars
<1>3. CASE Ready \/ Done \/ Refunded \/ Close \/ Failing
  BY <1>3, <1>a DEF Ready, Done, Refunded, Close, Failing, SetStatus, Go, Stay,
     NoFault, anchorVars, ledgerVars, rowVars, vaultVars
<1>4. CASE TellReady \/ TellDone \/ TellRefund \/ TellFailed
  BY <1>4 DEF TellReady, TellDone, TellRefund, TellFailed, Notify, Go,
     anchorVars, ledgerVars, rowVars, vaultVars
<1>5. CASE Settle
  <2>1. UNCHANGED <<arrived, paid, flying, fate, claim, status, refund, vaultPaid, deferred, rec>>
    BY <1>5 DEF Settle, Found, Await, NotYet, Stay, anchorVars, ledgerVars,
       rowVars, vaultVars
  <2>2. faults' \in 0..MaxFaults
    BY <1>5, <1>a DEF Settle, NoFault
  <2>3. waits' \in 0..(MaxAttempts + 1)
    BY <1>5 DEF Settle, Found, Await, NotYet, Lesser
  <2>4. net' \in Nat
    <3>1. CASE tx.listing = <<>>
      <4>1. net' = net \/ (tx.seen \in arrived /\ net' = RefundAmount[tx.seen])
        BY <1>5, <3>1 DEF Settle, Found, Await
      <4> QED BY <4>1
    <3>2. CASE tx.listing # <<>>
      <4>1. net' = net \/ (net' = Carried(Listed(tx.listing)) /\ Listed(tx.listing) \subseteq arrived)
        BY <1>5, <3>2 DEF Settle, Found, NotYet, LedgerTotal
      <4>2. IsFiniteSet(Listed(tx.listing))
        BY <3>2, ListedFinite DEF AnchorKnown, AnchorTx
      <4>3. Listed(tx.listing) \subseteq arrived => Carried(Listed(tx.listing)) \in Nat
        BY <4>2, CarriedPositive
      <4> QED BY <4>1, <4>3
    <3> QED BY <3>1, <3>2
  <2> QED BY <2>1, <2>2, <2>3, <2>4
<1>6. CASE LogRefund
  BY <1>6, <1>a DEF LogRefund, Go, NoFault, anchorVars, ledgerVars, vaultVars
<1>7. CASE Repay \/ RepayAll
  <2>1. UNCHANGED <<arrived, paid, flying, fate, claim, status, refund, rec, waits, net>>
    BY <1>7 DEF Repay, RepayAll, Go, anchorVars, ledgerVars, rowVars
  <2>2. faults' \in 0..MaxFaults
    BY <1>7, <1>a DEF Repay, RepayAll, NoFault
  <2>3. vaultPaid' = vaultPaid \/ vaultPaid' = Lesser(net, Principal) \/ vaultPaid' = Principal
    BY <1>7 DEF Repay, RepayAll, RepaidWith, vaultVars
  <2>4. deferred' = deferred \/ deferred' = Lesser(net, Principal)
    BY <1>7 DEF Repay, RepayAll, vaultVars
  <2>5. Lesser(net, Principal) \in Nat
    BY LesserNat
  <2> QED BY <2>1, <2>2, <2>3, <2>4, <2>5
<1>8. CASE Crash
  BY <1>8, <1>a DEF Crash, NoRow, anchorVars, ledgerVars, rowVars, vaultVars
<1>9. CASE LedgerNext
  BY <1>9 DEF LedgerNext, PaymentLands, PaymentFails, RefundArrives, Beyond,
     anchorVars, ledgerVars, rowVars, vaultVars, tickVars
<1>10. CASE AnchorNext \/ Reconcile
  BY <1>10 DEF AnchorNext, Anchor, AnchorSays, Reconcile, RepaidWith, Beyond,
     anchorVars, ledgerVars, rowVars, vaultVars, tickVars
<1>11. CASE Release
  BY <1>11 DEF Release, anchorVars, ledgerVars, vaultVars, tickVars
<1>12. CASE UNCHANGED vars
  BY <1>12 DEF vars, anchorVars, ledgerVars, rowVars, vaultVars, tickVars
<1> QED
  BY <1>b, <1>1, <1>2, <1>3, <1>4, <1>5, <1>6, <1>7, <1>8, <1>9, <1>10, <1>11,
     <1>12 DEF Next, PollerNext

-----------------------------------------------------------------------------

IInv == Once /\ Settled /\ TypeOK /\ AnchorKnown /\ AmountsCovered /\ StatusBars

LEMMA InvHolds == Spec => []IInv
<1>1. Init => IInv
  BY OnceInit, SettledInit, TypeInit, KnownInit, CoveredInit, BarsInit DEF IInv
<1>2. IInv /\ [Next]_vars => IInv'
  BY OnceStep, SettledStep, TypeStep, KnownStep, CoveredStep, BarsStep DEF IInv
<1> QED
  BY <1>1, <1>2, PTL DEF Spec

\* The row holds what its handlers write, and no text is sent twice on it
\* (withdrawal.go writes the status before it texts).
THEOREM RowStaysSound == Spec => []RowSound
<1>1. IInv => RowSound
  BY DEF IInv, StatusBars, RowSound
<1> QED
  BY InvHolds, <1>1, PTL

-----------------------------------------------------------------------------
(* The cash-out implements CashOut *)

LEMMA CashInit == Init => Cash!Init
BY DEF Init, Cash!Init, Ended, NoTx

\* Nothing the ledger or the books show has moved.
Still == UNCHANGED <<paid, arrived, vaultPaid, Ended, mg.status = "failed">>

LEMMA CashStep == IInv /\ [Next]_vars => [Cash!Next]_(Cash!vars)
<1> SUFFICES ASSUME IInv, [Next]_vars PROVE Cash!Next \/ Still
  BY DEF Still, Cash!vars
<1>a. paid \in Nat /\ flying \in Nat /\ paid + flying <= 1 /\ vaultPaid \in Nat /\ net \in Nat /\ deferred \in Nat
  BY DEF IInv, Once, PaidAtMostOnce, TypeOK
<1>b. Principal \in Nat /\ Principal > 0
  BY WithdrawalAssumption
<1>1. CASE PollerNext /\ ~(Ready \/ Done \/ Refunded \/ Close \/ Failing \/ Repay \/ RepayAll)
  BY <1>1 DEF PollerNext, Fetch, Ask, Start, Claim, Send, Confirm, Clear, Record,
     TellReady, TellDone, TellRefund, TellFailed, Notify, Settle, LogRefund, Stay,
     anchorVars, ledgerVars, rowVars, vaultVars, Still, Ended
<1>2. CASE Ready \/ Refunded \/ Failing
  <2>1. UNCHANGED <<paid, arrived, vaultPaid, mg>>
    BY <1>2 DEF Ready, Refunded, Failing, SetStatus, Stay, anchorVars,
       ledgerVars, vaultVars
  <2>2. status \notin Terminal /\ (status' = status \/ status' \in {"processing", "refund_pending", "failed"})
    BY <1>2 DEF Ready, Refunded, Failing, SetStatus, Stay, rowVars, IInv,
       StatusBars
  <2> QED BY <2>1, <2>2 DEF Still, Ended, Terminal
<1>3. CASE Done
  <2>1. UNCHANGED <<paid, arrived, vaultPaid, mg>> /\ status' \in {status, "completed"}
    BY <1>3 DEF Done, SetStatus, anchorVars, ledgerVars, vaultVars
  <2>2. status \notin Terminal /\ mg.status = "completed"
    BY <1>3 DEF Done, IInv, StatusBars, AnchorKnown
  <2>3. paid = 1 /\ vaultPaid = 0
    BY <1>a, <2>2 DEF IInv, AnchorKnown, AmountsCovered
  <2> QED BY <2>1, <2>2, <2>3 DEF Still, Ended, Terminal, Cash!Next, Cash!End
<1>4. CASE Close
  <2>1. UNCHANGED <<paid, arrived, vaultPaid, mg>> /\ status' \in {status, "refund_received"}
    BY <1>4 DEF Close, SetStatus, anchorVars, ledgerVars, vaultVars
  <2>2. status = "refund_pending" /\ vaultPaid > 0
    BY <1>4 DEF Close, IInv, StatusBars, Settled
  <2> QED BY <2>1, <2>2 DEF Still, Ended, Cash!Next, Cash!End
<1>5. CASE Repay
  <2>1. UNCHANGED <<paid, arrived, mg, status>> /\ (vaultPaid' = vaultPaid \/ RepaidWith(Lesser(net, Principal)))
    BY <1>5 DEF Repay, anchorVars, ledgerVars, rowVars, vaultVars
  <2>2. PICK some \in SUBSET arrived : net = Carried(some)
    BY <1>5 DEF Repay, IInv, AmountsCovered, Covered
  <2>3. net > 0
    BY <1>5 DEF Repay, IInv, Settled
  <2>4. Lesser(net, Principal) = Cash!Capped(Carried(some)) /\ Lesser(net, Principal) > 0
    BY <1>a, <1>b, <2>2, <2>3 DEF Lesser, Cash!Capped
  <2>5. CASE vaultPaid' = vaultPaid
    BY <2>1, <2>5 DEF Still, Ended
  <2>6. CASE vaultPaid' # vaultPaid
    <3>1. vaultPaid = 0 /\ vaultPaid' = Cash!Capped(Carried(some)) /\ vaultPaid' > 0
      BY <2>1, <2>4, <2>6 DEF RepaidWith
    <3> QED BY <2>1, <3>1 DEF Ended, Cash!Next, Cash!Credit
  <2> QED BY <2>5, <2>6
<1>6. CASE RepayAll
  <2>1. UNCHANGED <<paid, arrived, mg, status>> /\ (vaultPaid' = vaultPaid \/ RepaidWith(Principal))
    BY <1>6 DEF RepayAll, anchorVars, ledgerVars, rowVars
  <2>2. mg.status = "failed"
    BY <1>6 DEF RepayAll, IInv, AnchorKnown
  <2> QED BY <1>b, <2>1, <2>2 DEF RepaidWith, Still, Ended, Cash!Next, Cash!Credit
<1>7. CASE Crash \/ Release
  BY <1>7 DEF Crash, Release, anchorVars, ledgerVars, rowVars, vaultVars, Still,
     Ended
<1>8. CASE PaymentLands
  <2>1. paid = 0 /\ paid' = 1
    BY <1>8, <1>a DEF PaymentLands
  <2>2. UNCHANGED <<arrived, mg, vaultPaid, status>>
    BY <1>8 DEF PaymentLands, Beyond, anchorVars, rowVars, vaultVars
  <2> QED BY <2>1, <2>2 DEF Ended, Cash!Next, Cash!Pay
<1>9. CASE PaymentFails
  BY <1>9 DEF PaymentFails, Beyond, anchorVars, rowVars, vaultVars, Still, Ended
<1>10. CASE \E h \in Refunds : RefundArrives(h)
  <2>1. paid > 0 /\ arrived \subseteq arrived' /\ UNCHANGED <<mg, paid, vaultPaid, status>>
    BY <1>10 DEF RefundArrives, Beyond, ledgerVars, rowVars, vaultVars
  <2>2. paid = 1
    BY <1>a, <2>1
  <2> QED BY <2>1, <2>2 DEF Still, Ended, Cash!Next, Cash!Return
<1>11. CASE AnchorNext
  <2>1. UNCHANGED <<paid, arrived, vaultPaid, status>>
    BY <1>11 DEF AnchorNext, Anchor, AnchorSays, Beyond, ledgerVars, rowVars,
       vaultVars
  <2>2. mg.status = "failed" => mg'.status = "failed"
    BY <1>11, AnchorMoves DEF IInv, AnchorKnown, TypeOK
  <2>3. CASE (mg.status = "failed") = (mg'.status = "failed")
    BY <2>1, <2>3 DEF Still, Ended
  <2>4. CASE mg.status # "failed" /\ mg'.status = "failed"
    BY <2>1, <2>4 DEF Ended, Cash!Next, Cash!Cancel
  <2> QED BY <2>2, <2>3, <2>4
<1>12. CASE Reconcile
  <2>1. UNCHANGED <<paid, arrived, mg, status>> /\ deferred > 0 /\ RepaidWith(deferred)
    BY <1>12 DEF Reconcile, Beyond, anchorVars, ledgerVars, rowVars
  <2>2. PICK some \in SUBSET arrived : deferred = Lesser(Carried(some), Principal)
    BY <2>1 DEF IInv, AmountsCovered
  <2>3. deferred = Cash!Capped(Carried(some))
    BY <2>2 DEF Lesser, Cash!Capped
  <2>4. CASE vaultPaid # 0
    BY <2>1, <2>4 DEF RepaidWith, Still, Ended
  <2>5. CASE vaultPaid = 0
    BY <2>1, <2>3, <2>5 DEF RepaidWith, Ended, Cash!Next, Cash!Credit
  <2> QED BY <2>4, <2>5
<1>13. CASE UNCHANGED vars
  BY <1>13 DEF vars, anchorVars, ledgerVars, rowVars, vaultVars, Still, Ended
<1> QED
  BY <1>1, <1>2, <1>3, <1>4, <1>5, <1>6, <1>7, <1>8, <1>9, <1>10, <1>11, <1>12,
     <1>13 DEF Next, LedgerNext

\* Every step of the poller, the ledger and the anchor is a step of CashOut or leaves
\* it alone: the principal leaves at most once, the vault is credited at most once,
\* with what transactions that came back carried or after the anchor gave up, and a
\* row is closed only on what the ledger shows (withdrawal.go, ready to settle).
THEOREM ImplementsCashOut == Spec => MovesMoneyAsCashOut
<1> QED
  BY CashInit, CashStep, InvHolds, PTL DEF Spec, MovesMoneyAsCashOut, Cash!Spec
=============================================================================
