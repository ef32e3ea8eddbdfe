----------------------------- MODULE VaultProofs -----------------------------
(***************************************************************************)
(* Theorems about Vault, for every value of its constants.                  *)
(*                                                                         *)
(* The invariant Inv is inductive: TypeOK alone is not, because a burn      *)
(* subtracts from the supply what the holder has, and that fits only        *)
(* because the supply is the sum of all balances (Accounts).                *)
(***************************************************************************)
EXTENDS Vault, TLAPS

(***************************************************************************)
(* What the rounding guarantees, for every numerator and every positive     *)
(* denominator.                                                             *)
(***************************************************************************)

\* A floored quotient is the integer just below the exact one
\* (mul_div_with_rounding with Rounding::Floor).
LEMMA FloorDivBounds ==
  ASSUME NEW x \in Nat, NEW y \in Nat \ {0}
  PROVE  /\ FloorDiv(x, y) \in Nat
         /\ FloorDiv(x, y) * y <= x
         /\ x < (FloorDiv(x, y) + 1) * y
<1> DEFINE q == x \div y
<1>1. q \in Int /\ x = y * q + (x % y) /\ x % y \in 0..(y-1)
  OBVIOUS
<1> HIDE DEF q
<1>2. x % y \in Int BY <1>1
<1>3. q >= 0 
  <2>1. SUFFICES ASSUME q <= -1 PROVE FALSE BY <1>1
  <2>2. y * q <= -y BY <1>1, <2>1
  <2> QED BY <1>1, <2>2
<1>4. q * y = y * q /\ (q+1)*y = y*q + y BY <1>1
<1> QED BY <1>1, <1>2, <1>3, <1>4 DEF FloorDiv, q

\* A ceiled quotient is the integer just above the exact one
\* (mul_div_with_rounding with Rounding::Ceil).
LEMMA CeilDivBounds ==
  ASSUME NEW x \in Nat, NEW y \in Nat \ {0}
  PROVE  /\ CeilDiv(x, y) \in Nat
         /\ x <= CeilDiv(x, y) * y
         /\ CeilDiv(x, y) * y < x + y
<1> DEFINE q == FloorDiv(x + y - 1, y)
<1>1. x + y - 1 \in Nat OBVIOUS
<1>2. q \in Nat /\ q * y <= x + y - 1 /\ x + y - 1 < (q + 1) * y BY <1>1, FloorDivBounds
<1>3. CeilDiv(x,y) = q BY DEF CeilDiv, FloorDiv
<1> HIDE DEF q
<1>4. (q+1)*y = q*y + y /\ q * y \in Nat BY <1>2
<1> QED BY <1>2, <1>3, <1>4

\* Multiplication by a natural keeps order (used on share prices, which the
\* contract compares by cross multiplication).
LEMMA MulMono ==
  ASSUME NEW a \in Nat, NEW b \in Nat, NEW c \in Nat, a <= b
  PROVE a * c <= b * c /\ c * a <= c * b /\ a * c \in Nat
OBVIOUS

\* A common positive factor cancels from a strict inequality (the rounded
\* prices below).
LEMMA MulCancel ==
  ASSUME NEW a \in Nat, NEW b \in Nat, NEW c \in Nat \ {0}, a * c < b * c
  PROVE a < b
OBVIOUS

\* The floored quotient is the greatest integer whose product stays below
\* (what a payment rounded down is at most).
LEMMA FloorAtLeast ==
  ASSUME NEW x \in Nat, NEW y \in Nat \ {0}, NEW k \in Nat, k * y <= x
  PROVE  k <= FloorDiv(x, y)
<1> DEFINE q == FloorDiv(x, y)
<1>1. q \in Nat /\ x < (q+1)*y BY FloorDivBounds
<1> HIDE DEF q
<1>2. k * y < (q+1) * y BY <1>1
<1>3. k < q + 1 BY <1>2, <1>1, MulCancel
<1> QED BY <1>3, <1>1 DEF q

-----------------------------------------------------------------------------
(***************************************************************************)
(* The sum of a family of naturals as a measure on the subsets of its       *)
(* domain.  A recursive sum can only be reasoned about by induction over    *)
(* the domain; a measure is updated point by point as the family is, and    *)
(* over a finite domain D its value at D is the sum.                        *)
(***************************************************************************)

\* m[S] is the sum of w[i] over the members i of S.
Measure(m, D, w) ==
  /\ m \in [SUBSET D -> Nat]
  /\ \A S \in SUBSET D : (\A i \in S : w[i] = 0) => m[S] = 0
  /\ \A S \in SUBSET D : \A i \in S : m[S] = m[S \ {i}] + w[i]

\* The running total `total` is the sum of the family w over D.
IsTotal(total, D, w) == \E m : Measure(m, D, w) /\ m[D] = total

\* A family of zeros has total zero (the empty vault's supply and queue).
LEMMA ZeroTotal ==
  ASSUME NEW D, NEW w, \A i \in D : w[i] = 0
  PROVE  IsTotal(0, D, w)
<1> DEFINE m == [S \in SUBSET D |-> 0]
<1>1. Measure(m, D, w) BY DEF Measure
<1>2. m[D] = 0 OBVIOUS
<1> QED BY <1>1, <1>2 DEF IsTotal

\* No member exceeds the total (a holder's balance and the supply, a request
\* and the queued shares).
LEMMA PartOfTotal ==
  ASSUME NEW D, NEW w, NEW total, NEW i \in D, w[i] \in Nat, IsTotal(total, D, w)
  PROVE  total \in Nat /\ w[i] <= total
<1>1. PICK m : Measure(m, D, w) /\ m[D] = total BY DEF IsTotal
<1>2. m[D] \in Nat /\ m[D \ {i}] \in Nat BY <1>1 DEF Measure
<1>3. m[D] = m[D \ {i}] + w[i] BY <1>1 DEF Measure
<1> QED BY <1>1, <1>2, <1>3

\* A total over members that are all zero is zero, and conversely a zero total
\* has only zero members.
LEMMA NullTotal ==
  ASSUME NEW D, NEW w, NEW total, IsTotal(total, D, w), w \in [D -> Nat]
  PROVE  total \in Nat /\ (total = 0 <=> \A i \in D : w[i] = 0)
<1>1. PICK m : Measure(m, D, w) /\ m[D] = total BY DEF IsTotal
<1>2. total \in Nat BY <1>1 DEF Measure
<1>3. (\A i \in D : w[i] = 0) => total = 0 BY <1>1 DEF Measure
<1>4. ASSUME NEW i \in D, total = 0 PROVE w[i] = 0
  <2>1. w[i] \in Nat /\ w[i] <= total BY PartOfTotal
  <2> QED BY <2>1, <1>4
<1> QED BY <1>2, <1>3, <1>4

\* Changing one member changes the total by as much (a mint, a burn, a request
\* made, filled or released).
LEMMA ChangeTotal ==
  ASSUME NEW D, NEW w \in [D -> Nat], NEW total, NEW i \in D, NEW v \in Nat,
         IsTotal(total, D, w)
  PROVE  IsTotal(total - w[i] + v, D, [w EXCEPT ![i] = v])
<1>1. PICK m : Measure(m, D, w) /\ m[D] = total BY DEF IsTotal
<1> DEFINE u == [w EXCEPT ![i] = v]
           n == [S \in SUBSET D |-> IF i \in S THEN m[S] - w[i] + v ELSE m[S]]
<1>2. ASSUME NEW S \in SUBSET D, i \in S
      PROVE  m[S] - w[i] = m[S \ {i}] /\ m[S \ {i}] \in Nat /\ m[S] \in Nat
  BY <1>1, <1>2 DEF Measure
<1>3. n \in [SUBSET D -> Nat]
  <2>1. ASSUME NEW S \in SUBSET D PROVE n[S] \in Nat
    <3>1. CASE i \in S
      <4>1. n[S] = m[S] - w[i] + v BY <3>1
      <4>2. m[S] - w[i] = m[S \ {i}] /\ m[S \ {i}] \in Nat BY <1>2, <3>1
      <4> HIDE DEF n
      <4> QED BY <4>1, <4>2
    <3>2. CASE i \notin S BY <1>1, <3>2 DEF Measure
    <3> QED BY <3>1, <3>2
  <2> QED BY <2>1
<1>4. ASSUME NEW S \in SUBSET D, \A j \in S : u[j] = 0 PROVE n[S] = 0
  <2>1. CASE i \notin S
    <3>1. \A j \in S : w[j] = 0 BY <1>4, <2>1
    <3> QED BY <1>1, <2>1, <3>1 DEF Measure
  <2>2. CASE i \in S
    <3>1. v = 0 BY <1>4, <2>2
    <3>2. \A j \in S \ {i} : w[j] = 0 BY <1>4
    <3>3. m[S \ {i}] = 0 BY <1>1, <3>2 DEF Measure
    <3>4. m[S] - w[i] = m[S \ {i}] BY <1>2, <2>2
    <3>5. n[S] = m[S] - w[i] + v BY <2>2
    <3> HIDE DEF n
    <3> QED BY <3>1, <3>3, <3>4, <3>5
  <2> QED BY <2>1, <2>2
<1>5. ASSUME NEW S \in SUBSET D, NEW j \in S PROVE n[S] = n[S \ {j}] + u[j]
  <2> S \ {j} \in SUBSET D /\ j \in D OBVIOUS
  <2>1. m[S] = m[S \ {j}] + w[j] BY <1>1 DEF Measure
  <2>2. m[S] \in Nat /\ m[S \ {j}] \in Nat /\ w[j] \in Nat /\ w[i] \in Nat
    BY <1>1 DEF Measure
  <2>3. CASE j = i
    <3>1. i \in S /\ i \notin S \ {j} /\ u[j] = v BY <2>3
    <3> QED BY <2>1, <2>2, <2>3, <3>1
  <2>4. CASE j # i
    <3>1. u[j] = w[j] /\ (i \in S <=> i \in S \ {j}) BY <2>4
    <3> QED BY <2>1, <2>2, <3>1
  <2> QED BY <2>3, <2>4
<1>6. Measure(n, D, u) BY <1>3, <1>4, <1>5 DEF Measure
<1>7. n[D] = total - w[i] + v BY <1>1
<1> QED BY <1>6, <1>7 DEF IsTotal

\* Moving s from one member to another, or to itself, keeps the total (a
\* transfer, shares into and out of escrow).
LEMMA MoveTotal ==
  ASSUME NEW D, NEW w \in [D -> Nat], NEW total, NEW from \in D, NEW to \in D,
         NEW s \in Nat, s <= w[from], IsTotal(total, D, w)
  PROVE  LET u == [[w EXCEPT ![from] = @ - s] EXCEPT ![to] = @ + s]
         IN  u \in [D -> Nat] /\ IsTotal(total, D, u)
<1> DEFINE v == [w EXCEPT ![from] = w[from] - s]
           u == [v EXCEPT ![to] = v[to] + s]
<1>1. w[from] - s \in Nat /\ w[from] \in Nat OBVIOUS
<1>2. v \in [D -> Nat] BY <1>1
<1>3. IsTotal(total - w[from] + (w[from] - s), D, v) BY <1>1, ChangeTotal
<1>4. total \in Nat BY <1>1, PartOfTotal
<1>5. total - w[from] + (w[from] - s) = total - s BY <1>1, <1>4
<1>6. IsTotal(total - s, D, v) BY <1>3, <1>5
<1>7. v[to] \in Nat /\ v[to] + s \in Nat BY <1>2
<1>8. u \in [D -> Nat] BY <1>2, <1>7
<1>9. IsTotal(total - s - v[to] + (v[to] + s), D, u)
  <2> HIDE DEF v
  <2> QED BY <1>2, <1>6, <1>7, ChangeTotal
<1>10. total - s - v[to] + (v[to] + s) = total
  <2> HIDE DEF v
  <2> QED BY <1>4, <1>7
<1> QED BY <1>8, <1>9, <1>10

-----------------------------------------------------------------------------
(* Shares, requests and the invariant *)

\* Shares of each request of a queue q, 0 where none is open.
SizeOf(q) == [id \in Nat |-> IF id \in DOMAIN q THEN q[id].shares ELSE 0]
Size == SizeOf(queue)

MoneyType ==
  /\ liquidity \in Nat /\ debt \in Nat /\ index \in Nat /\ index >= Scale
  /\ lastAccrual \in 0..now /\ now \in Nat
QueueType ==
  /\ queue \in [DOMAIN queue -> Request] /\ DOMAIN queue \subseteq Nat
  /\ queuedShares \in Nat /\ head \in Nat /\ tail \in Nat
ShareType == balance \in [Holders -> Nat] /\ supply \in Nat
GateType ==
  /\ allowed \subseteq Users /\ enforced \in BOOLEAN
  /\ deadline \in [Users -> Nat \cup {NoDeadline}] /\ gracePeriod \in Nat
  /\ unlock \in [Users -> Nat] /\ lockPeriod \in Nat
  /\ maxDeposit \in Nat /\ maxWithdraw \in Nat /\ minQueueAssets \in Nat \ {0}
  /\ paused \in BOOLEAN /\ now \in Nat /\ unreachable \subseteq Receivers

Accounts ==
  /\ IsTotal(supply, Holders, balance)
  /\ IsTotal(queuedShares, Nat, Size)
Window == DOMAIN queue \subseteq head..(tail - 1) /\ head <= tail
HeadAtTail == queuedShares = 0 => head = tail

Inv ==
  /\ TypeOK /\ Accounts /\ EscrowBacked /\ Window /\ HeadAtTail
  /\ AllowedHasNoDeadline

-----------------------------------------------------------------------------
(* Amounts *)

\* Everything the pricing computes is an amount (accrue_interest, to_shares,
\* to_assets never yield a negative number).
LEMMA PricingNat ==
  ASSUME TypeOK, NEW f \in Factors
  PROVE  /\ AccruedDebt(f) \in Nat
         /\ AccruedIndex(f) \in Nat /\ AccruedIndex(f) >= Scale
         /\ VirtualAssets(f) \in Nat \ {0} /\ VirtualSupply \in Nat \ {0}
         /\ \A x \in Nat : /\ SharesFor(x, f) \in Nat /\ SharesForCeil(x, f) \in Nat
                           /\ AssetsFor(x, f) \in Nat /\ AssetsForCeil(x, f) \in Nat
<1> USE VaultAssumption
<1>1. f \in Nat /\ f >= Scale /\ Scale \in Nat \ {0} /\ VirtualShares \in Nat \ {0}
  OBVIOUS
<1>2. debt \in Nat /\ index \in Nat /\ liquidity \in Nat /\ supply \in Nat
      /\ index >= Scale
  BY DEF TypeOK
<1>3. debt * f \in Nat /\ index * f \in Nat BY <1>1, <1>2, MulMono
<1>4. AccruedDebt(f) \in Nat BY <1>1, <1>2, <1>3, FloorDivBounds DEF AccruedDebt
<1>5. index <= FloorDiv(index * f, Scale) /\ FloorDiv(index * f, Scale) \in Nat
  <2>1. index * Scale <= index * f BY <1>1, <1>2, MulMono
  <2> QED BY <1>1, <1>2, <1>3, <2>1, FloorDivBounds, FloorAtLeast
<1>6. AccruedIndex(f) \in Nat /\ AccruedIndex(f) >= Scale
  BY <1>1, <1>2, <1>5 DEF AccruedIndex
<1>7. VirtualAssets(f) \in Nat \ {0} BY <1>2, <1>4 DEF VirtualAssets
<1>8. VirtualSupply \in Nat \ {0} BY <1>1, <1>2 DEF VirtualSupply
<1>9. ASSUME NEW x \in Nat
      PROVE  /\ SharesFor(x, f) \in Nat /\ SharesForCeil(x, f) \in Nat
             /\ AssetsFor(x, f) \in Nat /\ AssetsForCeil(x, f) \in Nat
  <2>1. x * VirtualSupply \in Nat /\ x * VirtualAssets(f) \in Nat
    BY <1>7, <1>8, MulMono
  <2> QED BY <1>7, <1>8, <2>1, FloorDivBounds, CeilDivBounds
          DEF SharesFor, SharesForCeil, AssetsFor, AssetsForCeil
<1> QED BY <1>4, <1>6, <1>7, <1>8, <1>9

\* What any call does to the debt before its own effect on it.
Accrued(f) == (ChargeInterest(f) /\ debt' = AccruedDebt(f)) \/ UNCHANGED debtVars

\* Charging interest keeps the debt and the index in range.
LEMMA AccrualType ==
  ASSUME TypeOK, NEW f \in Factors, Accrued(f), now' = now
  PROVE  debt' \in Nat /\ index' \in Nat /\ index' >= Scale /\ lastAccrual' \in 0..now'
<1>1. AccruedDebt(f) \in Nat /\ AccruedIndex(f) \in Nat /\ AccruedIndex(f) >= Scale
  BY PricingNat
<1>2. debt \in Nat /\ index \in Nat /\ index >= Scale /\ lastAccrual \in 0..now
      /\ now \in Nat
  BY DEF TypeOK
<1> QED BY <1>1, <1>2 DEF Accrued, ChargeInterest, debtVars

-----------------------------------------------------------------------------
(* Gates: allowlist, deadlines, locks, limits, pause *)

gateVars == <<exitVars, lockVars, limitVars, paused, envVars>>

\* Only entering locks shares; no other depositor call touches a gate.
LEMMA DepositorGates ==
  ASSUME TypeOK, DepositorNext
  PROVE  /\ UNCHANGED <<exitVars, limitVars, paused, envVars>>
         /\ unlock' \in [Users -> Nat] /\ lockPeriod' = lockPeriod
<1>1. PICK u \in Users, f \in Factors :
        \/ \E to \in Users, a \in Amounts : Deposit(u, to, a, f)
        \/ \E to \in Users, s \in ShareAmounts : MintShares(u, to, s, f)
        \/ \E a \in Amounts : Withdraw(u, a, f)
        \/ \E s \in ShareAmounts : Redeem(u, s, f)
        \/ \E to \in Holders, s \in ShareAmounts : Transfer(u, to, s)
        \/ \E r \in Receivers, s \in ShareAmounts : RequestRedeem(u, r, s, f)
  BY DEF DepositorNext
<1>2. unlock \in [Users -> Nat] /\ lockPeriod \in Nat /\ now \in Nat BY DEF TypeOK
<1>3. ASSUME NEW to \in Users, Relock(to)
      PROVE  unlock' \in [Users -> Nat] /\ lockPeriod' = lockPeriod
  <2>1. unlock[to] \in Nat /\ now + lockPeriod \in Nat BY <1>2
  <2>2. Later(unlock[to], now + lockPeriod) \in Nat BY <2>1 DEF Later
  <2> QED BY <1>2, <1>3, <2>2 DEF Relock
<1>4. ASSUME NEW to \in Users, NEW a \in Amounts, Deposit(u, to, a, f)
      PROVE  /\ UNCHANGED <<exitVars, limitVars, paused, envVars>>
             /\ Relock(to)
  BY <1>4 DEF Deposit, Enter
<1>5. ASSUME NEW to \in Users, NEW s \in ShareAmounts, MintShares(u, to, s, f)
      PROVE  /\ UNCHANGED <<exitVars, limitVars, paused, envVars>>
             /\ Relock(to)
  BY <1>5 DEF MintShares, Enter
<1>6. ASSUME \/ \E a \in Amounts : Withdraw(u, a, f)
             \/ \E s \in ShareAmounts : Redeem(u, s, f)
             \/ \E to \in Holders, s \in ShareAmounts : Transfer(u, to, s)
             \/ \E r \in Receivers, s \in ShareAmounts : RequestRedeem(u, r, s, f)
      PROVE  UNCHANGED gateVars
  BY <1>6 DEF Withdraw, Redeem, InstantExit, Transfer, RequestRedeem, gateVars
<1> QED BY <1>1, <1>2, <1>3, <1>4, <1>5, <1>6 DEF gateVars, lockVars

\* Treasury calls, write-offs and the queue leave every gate alone.
LEMMA MoneyGates ==
  ASSUME TreasuryNext \/ WriteOffNext \/ QueueNext
  PROVE  UNCHANGED gateVars
BY DEF TreasuryNext, WriteOffNext, QueueNext, Borrow, Repay, BumpYield, Accrue,
       WriteOff, CancelRedeem, ProcessQueue, gateVars

\* The compliance role moves allowlist membership and deadlines only, and
\* clears the deadline of whom it allows.
LEMMA ComplianceGates ==
  ASSUME TypeOK, AllowedHasNoDeadline, ComplianceNext
  PROVE  /\ UNCHANGED <<enforced, gracePeriod, lockVars, limitVars, paused, envVars>>
         /\ allowed' \subseteq Users
         /\ deadline' \in [Users -> Nat \cup {NoDeadline}]
         /\ AllowedHasNoDeadline'
<1> USE VaultAssumption DEF NoDeadline
<1>1. PICK u \in Regulated :
        \/ AllowDepositor(u) \/ DisallowDepositor(u) \/ FreezeDepositor(u)
        \/ \E t \in Extensions : ExtendExitDeadline(u, t)
  BY DEF ComplianceNext
<1>2. /\ allowed \subseteq Users /\ deadline \in [Users -> Nat \cup {NoDeadline}]
      /\ gracePeriod \in Nat /\ now \in Nat /\ u \in Users
  BY DEF TypeOK
<1>3. CASE AllowDepositor(u)
  BY <1>2, <1>3 DEF AllowDepositor, SetDeadline, AllowedHasNoDeadline
<1>4. CASE DisallowDepositor(u)
  BY <1>2, <1>4 DEF DisallowDepositor, SetDeadline, AllowedHasNoDeadline
<1>5. CASE FreezeDepositor(u)
  BY <1>2, <1>5 DEF FreezeDepositor, SetDeadline, AllowedHasNoDeadline
<1>6. CASE \E t \in Extensions : ExtendExitDeadline(u, t)
  BY <1>2, <1>6 DEF ExtendExitDeadline, SetDeadline, AllowedHasNoDeadline
<1> QED BY <1>1, <1>3, <1>4, <1>5, <1>6

\* The owner's setters and the environment keep every gate in range.
LEMMA OwnerGates ==
  ASSUME TypeOK, OwnerNext \/ EnvNext
  PROVE  /\ GateType' /\ UNCHANGED <<allowed, deadline>>
         /\ UNCHANGED <<shareVars, debtVars, queueVars>>
         /\ liquidity' \in Nat /\ now' >= now
<1> USE VaultAssumption DEF TypeOK, GateType
<1> USE DEF Configured, envVars, limitVars, exitVars, lockVars
<1>1. ASSUME NEW l \in Limits, SetMaxDeposit(l) \/ SetMaxWithdraw(l)
      PROVE  GateType' /\ UNCHANGED <<Configured, enforced, gracePeriod, lockPeriod>>
  BY <1>1 DEF SetMaxDeposit, SetMaxWithdraw
<1>2. ASSUME NEW m \in MinQueues, SetMinQueueAssets(m)
      PROVE  GateType' /\ UNCHANGED <<Configured, enforced, gracePeriod, lockPeriod>>
  BY <1>2 DEF SetMinQueueAssets
<1>3. ASSUME NEW p \in LockPeriods \cup GracePeriods,
             SetLockPeriod(p) \/ SetWithdrawGracePeriod(p)
      PROVE  GateType' /\ UNCHANGED <<Configured, enforced, limitVars, paused>>
  BY <1>3 DEF SetLockPeriod, SetWithdrawGracePeriod
<1>4. ASSUME (\E on \in Switches : SetAllowlistEnforced(on)) \/ Pause \/ Unpause
      PROVE  GateType' /\ UNCHANGED Configured
  BY <1>4 DEF SetAllowlistEnforced, Pause, Unpause
<1>5. CASE OwnerNext
  <2>1. GateType' /\ UNCHANGED Configured
    BY <1>1, <1>2, <1>3, <1>4, <1>5 DEF OwnerNext
  <2>2. liquidity' \in Nat /\ now' >= now BY <2>1
  <2> QED BY <2>1, <2>2
<1>6. CASE EnvNext
  BY <1>6 DEF EnvNext, Tick, Donate, SetReachable
<1> QED BY <1>5, <1>6

LEMMA GateStep ==
  ASSUME TypeOK, AllowedHasNoDeadline, [Next]_vars
  PROVE  GateType' /\ AllowedHasNoDeadline'
<1>1. GateType BY DEF TypeOK, GateType
<1>2. CASE DepositorNext
  BY <1>1, <1>2, DepositorGates
     DEF GateType, AllowedHasNoDeadline, exitVars, limitVars, envVars
<1>3. CASE TreasuryNext \/ WriteOffNext \/ QueueNext
  BY <1>1, <1>3, MoneyGates
     DEF GateType, AllowedHasNoDeadline, gateVars, exitVars, lockVars, limitVars,
         envVars
<1>4. CASE ComplianceNext
  BY <1>1, <1>4, ComplianceGates DEF GateType, lockVars, limitVars, envVars
<1>5. CASE OwnerNext \/ EnvNext
  BY <1>5, OwnerGates DEF AllowedHasNoDeadline
<1>6. CASE UNCHANGED vars
  BY <1>1, <1>6 DEF GateType, AllowedHasNoDeadline, vars, exitVars, lockVars,
     limitVars, envVars
<1> QED BY <1>2, <1>3, <1>4, <1>5, <1>6 DEF Next

-----------------------------------------------------------------------------
(* Shares and the queue *)

ShareInv ==
  /\ ShareType /\ QueueType /\ Accounts /\ EscrowBacked /\ Window /\ HeadAtTail

\* A call that touches neither shares nor the queue.
LEMMA QuietShares ==
  ASSUME ShareInv, UNCHANGED <<shareVars, queueVars>>
  PROVE  ShareInv'
BY DEF ShareInv, ShareType, QueueType, Accounts, Size, SizeOf, EscrowBacked, Window,
       HeadAtTail, shareVars, queueVars

LEMMA SizeType ==
  ASSUME ShareInv
  PROVE  /\ Size \in [Nat -> Nat]
         /\ \A id \in DOMAIN queue : /\ id \in Nat /\ Size[id] = queue[id].shares
                                     /\ Size[id] > 0 /\ Size[id] <= queuedShares
<1>1. \A id \in DOMAIN queue : id \in Nat /\ queue[id].shares \in Nat \ {0}
  BY DEF ShareInv, QueueType, Request
<1>2. Size \in [Nat -> Nat] BY <1>1 DEF Size, SizeOf
<1>3. ASSUME NEW id \in DOMAIN queue
      PROVE  /\ id \in Nat /\ Size[id] = queue[id].shares
             /\ Size[id] > 0 /\ Size[id] <= queuedShares
  <2>1. id \in Nat /\ Size[id] = queue[id].shares /\ Size[id] \in Nat \ {0}
    BY <1>1, <1>3 DEF Size, SizeOf
  <2>2. Size[id] <= queuedShares BY <2>1, PartOfTotal DEF ShareInv, Accounts
  <2> QED BY <2>1, <2>2
<1> QED BY <1>2, <1>3

\* deposit and mint: the supply grows by what the receiver is given.
LEMMA EnterShares ==
  ASSUME ShareInv, NEW to \in Users, NEW shares \in Nat, UNCHANGED queueVars,
         balance' = [balance EXCEPT ![to] = @ + shares], supply' = supply + shares
  PROVE  ShareInv'
<1> DEFINE b == balance[to] + shares
<1>1. to \in Holders /\ to # Escrow BY VaultAssumption DEF Holders
<1>2. balance \in [Holders -> Nat] /\ supply \in Nat BY DEF ShareInv, ShareType
<1>3. balance[to] \in Nat /\ b \in Nat BY <1>1, <1>2
<1>4. balance' = [balance EXCEPT ![to] = b] OBVIOUS
<1>5. IsTotal(supply - balance[to] + b, Holders, balance')
  <2> HIDE DEF b
  <2>1. IsTotal(supply - balance[to] + b, Holders, [balance EXCEPT ![to] = b])
    BY <1>1, <1>2, <1>3, ChangeTotal DEF ShareInv, Accounts
  <2> QED BY <1>4, <2>1
<1>6. supply - balance[to] + b = supply' /\ supply' \in Nat BY <1>2, <1>3
<1>7. balance' \in [Holders -> Nat] /\ balance'[Escrow] = balance[Escrow]
  <2> Escrow \in Holders BY DEF Holders
  <2> HIDE DEF b
  <2> QED BY <1>1, <1>2, <1>3, <1>4
<1>8. IsTotal(supply', Holders, balance') BY <1>5, <1>6
<1> HIDE DEF b
<1> QED BY <1>6, <1>7, <1>8 DEF ShareInv, ShareType, QueueType, Accounts, Size, SizeOf,
       EscrowBacked, Window, HeadAtTail, queueVars

\* Every payment burns shares its holder has, so the supply stays their sum.
LEMMA PayShares ==
  ASSUME ShareInv, NEW holder \in Holders, NEW assets \in Nat, NEW shares \in Nat,
         Pay(holder, assets, shares)
  PROVE  /\ ShareType' /\ IsTotal(supply', Holders, balance')
         /\ balance' = [balance EXCEPT ![holder] = balance[holder] - shares]
         /\ shares <= balance[holder]
<1> DEFINE b == balance[holder] - shares
<1>1. balance \in [Holders -> Nat] /\ supply \in Nat BY DEF ShareInv, ShareType
<1>2. shares <= balance[holder] /\ balance' = [balance EXCEPT ![holder] = b]
      /\ supply' = supply - shares
  BY DEF Pay
<1>3. balance[holder] \in Nat /\ b \in Nat BY <1>1, <1>2
<1>4. balance[holder] <= supply
  BY <1>1, <1>3, PartOfTotal DEF ShareInv, Accounts
<1>5. IsTotal(supply - balance[holder] + b, Holders, balance')
  BY <1>1, <1>2, <1>3, ChangeTotal DEF ShareInv, Accounts
<1>6. supply - balance[holder] + b = supply' /\ supply' \in Nat
  BY <1>1, <1>2, <1>3, <1>4
<1>7. balance' \in [Holders -> Nat] BY <1>1, <1>2, <1>3
<1>8. IsTotal(supply', Holders, balance') BY <1>5, <1>6
<1> QED BY <1>2, <1>6, <1>7, <1>8 DEF ShareType

\* withdraw and redeem burn a depositor's shares, never the escrow's.
LEMMA ExitShares ==
  ASSUME ShareInv, NEW owner \in Users, NEW assets \in Nat, NEW shares \in Nat,
         Pay(owner, assets, shares), UNCHANGED queueVars
  PROVE  ShareInv'
<1>1. owner \in Holders /\ owner # Escrow /\ Escrow \in Holders
  BY VaultAssumption DEF Holders
<1>2. /\ ShareType' /\ IsTotal(supply', Holders, balance')
      /\ balance' = [balance EXCEPT ![owner] = balance[owner] - shares]
  BY <1>1, PayShares
<1>3. balance \in [Holders -> Nat] BY DEF ShareInv, ShareType
<1>4. balance'[Escrow] = balance[Escrow] BY <1>1, <1>2, <1>3
<1> QED BY <1>2, <1>4 DEF ShareInv, QueueType, Accounts, Size, SizeOf, EscrowBacked, Window,
       HeadAtTail, queueVars

\* Base::update between two holders.
LEMMA MovedShares ==
  ASSUME ShareInv, NEW from \in Holders, NEW to \in Holders, NEW shares \in Nat,
         shares <= balance[from]
  PROVE  /\ Moved(from, to, shares) \in [Holders -> Nat]
         /\ IsTotal(supply, Holders, Moved(from, to, shares))
         /\ \A h \in Holders \ {from} : Moved(from, to, shares)[h] =
              IF h = to THEN balance[h] + shares ELSE balance[h]
         /\ from # to => Moved(from, to, shares)[from] = balance[from] - shares
<1>1. balance \in [Holders -> Nat] BY DEF ShareInv, ShareType
<1>2. Moved(from, to, shares) \in [Holders -> Nat]
      /\ IsTotal(supply, Holders, Moved(from, to, shares))
  BY <1>1, MoveTotal DEF ShareInv, Accounts, Moved
<1> QED BY <1>1, <1>2 DEF Moved

LEMMA TransferShares ==
  ASSUME ShareInv, NEW from \in Users, NEW to \in Holders, NEW s \in Nat,
         Transfer(from, to, s)
  PROVE  ShareInv'
<1>1. from \in Holders /\ from # Escrow /\ Escrow \in Holders
  BY VaultAssumption DEF Holders
<1>2. s <= balance[from] /\ balance' = Moved(from, to, s) /\ supply' = supply
      /\ UNCHANGED queueVars
  BY DEF Transfer
<1>3. balance \in [Holders -> Nat] BY DEF ShareInv, ShareType
<1>4. balance' \in [Holders -> Nat] /\ IsTotal(supply', Holders, balance')
  BY <1>1, <1>2, MovedShares
<1>5. balance'[Escrow] \in Nat /\ balance[Escrow] \in Nat BY <1>1, <1>3, <1>4
<1>6. Escrow \in Holders \ {from} BY <1>1
<1>7. balance'[Escrow] = IF Escrow = to THEN balance[Escrow] + s ELSE balance[Escrow]
  BY <1>1, <1>2, <1>6, MovedShares
<1>8. balance'[Escrow] >= balance[Escrow] BY <1>5, <1>7
<1> QED BY <1>2, <1>4, <1>5, <1>8 DEF ShareInv, ShareType, QueueType, Accounts, Size, SizeOf,
       EscrowBacked, Window, HeadAtTail, queueVars

\* The queue's total is zero exactly when no request is open.
LEMMA EmptyQueue ==
  ASSUME NEW q, NEW total, q \in [DOMAIN q -> Request], DOMAIN q \subseteq Nat,
         IsTotal(total, Nat, SizeOf(q))
  PROVE  total \in Nat /\ (total = 0 <=> DOMAIN q = {})
<1>1. \A id \in DOMAIN q : id \in Nat /\ q[id].shares \in Nat \ {0} BY DEF Request
<1>2. SizeOf(q) \in [Nat -> Nat] BY <1>1 DEF SizeOf
<1>3. total \in Nat /\ (total = 0 <=> \A i \in Nat : SizeOf(q)[i] = 0)
  BY <1>2, NullTotal
<1>4. (\A i \in Nat : SizeOf(q)[i] = 0) <=> DOMAIN q = {} BY <1>1 DEF SizeOf
<1> QED BY <1>3, <1>4

\* Wherever the loop stops, the stored head leaves no open request behind.
LEMMA AdvanceWindow ==
  ASSUME ShareInv, NEW next \in Nat, next <= tail,
         queue' \in [DOMAIN queue' -> Request],
         DOMAIN queue' \subseteq next..(tail - 1), tail' = tail,
         IsTotal(queuedShares', Nat, Size'), AdvanceHead(next)
  PROVE  QueueType' /\ Window' /\ HeadAtTail'
<1>1. tail \in Nat BY DEF ShareInv, QueueType
<1>2. DOMAIN queue' \subseteq Nat BY <1>1
<1>3. queuedShares' \in Nat /\ (queuedShares' = 0 <=> DOMAIN queue' = {})
  BY <1>2, EmptyQueue DEF Size
<1>4. CASE queuedShares' = 0
  BY <1>1, <1>2, <1>3, <1>4 DEF AdvanceHead, QueueType, Window, HeadAtTail
<1>5. CASE queuedShares' # 0
  BY <1>1, <1>2, <1>3, <1>5 DEF AdvanceHead, QueueType, Window, HeadAtTail
<1> QED BY <1>4, <1>5

\* Shares move into escrow and the new request joins at the tail.
LEMMA RequestShares ==
  ASSUME ShareInv, NEW owner \in Users, NEW receiver \in Receivers,
         NEW s \in Nat, NEW f, RequestRedeem(owner, receiver, s, f)
  PROVE  ShareInv'
<1> DEFINE r == [owner |-> owner, receiver |-> receiver, shares |-> s]
<1>1. owner \in Holders /\ Escrow \in Holders /\ owner # Escrow
  BY VaultAssumption DEF Holders
<1>2. /\ s \in Nat \ {0} /\ s <= balance[owner] /\ balance' = Moved(owner, Escrow, s)
      /\ queue' = [id \in DOMAIN queue \cup {tail} |-> IF id = tail THEN r ELSE queue[id]]
      /\ tail' = tail + 1 /\ queuedShares' = queuedShares + s
      /\ head' = head /\ supply' = supply
  BY DEF RequestRedeem
<1>3. /\ balance \in [Holders -> Nat] /\ supply \in Nat
      /\ queue \in [DOMAIN queue -> Request] /\ DOMAIN queue \subseteq head..(tail - 1)
      /\ queuedShares \in Nat /\ head \in Nat /\ tail \in Nat /\ head <= tail
  BY DEF ShareInv, ShareType, QueueType, Window
<1>4. ShareType' /\ IsTotal(supply', Holders, balance')
  BY <1>1, <1>2, <1>3, MovedShares DEF ShareType
<1>5. EscrowBacked'
  <2>1. Escrow \in Holders \ {owner} BY <1>1
  <2>2. balance'[Escrow] = balance[Escrow] + s BY <1>1, <1>2, <2>1, MovedShares
  <2>3. balance[Escrow] \in Nat /\ queuedShares <= balance[Escrow]
    BY <1>1, <1>3 DEF ShareInv, EscrowBacked
  <2> QED BY <1>2, <1>3, <2>2, <2>3 DEF EscrowBacked
<1>6. tail \notin DOMAIN queue /\ r \in Request BY <1>2, <1>3 DEF Request
<1> HIDE DEF r
<1>7. DOMAIN queue' = DOMAIN queue \cup {tail} BY <1>2
<1>8. queue' \in [DOMAIN queue' -> Request] BY <1>2, <1>3, <1>6, <1>7
<1>9. QueueType' /\ Window' /\ HeadAtTail'
  BY <1>2, <1>3, <1>7, <1>8 DEF QueueType, Window, HeadAtTail
<1>10. IsTotal(queuedShares', Nat, Size')
  <2>1. Size \in [Nat -> Nat] BY SizeType
  <2>2. Size[tail] = 0 BY <1>3, <1>6 DEF Size, SizeOf
  <2>3. r.shares = s BY DEF r
  <2>4. Size' = [Size EXCEPT ![tail] = s] BY <1>2, <1>3, <1>7, <2>3 DEF Size, SizeOf
  <2>5. IsTotal(queuedShares - Size[tail] + s, Nat, Size')
    BY <1>3, <2>1, <2>4, ChangeTotal DEF ShareInv, Accounts
  <2>6. queuedShares - Size[tail] + s = queuedShares' BY <1>2, <1>3, <2>2
  <2> QED BY <2>5, <2>6
<1> QED BY <1>4, <1>5, <1>9, <1>10 DEF ShareInv, Accounts

\* release_request: shares leave escrow for their owner and the request closes.
LEMMA ReleaseShares ==
  ASSUME ShareInv, NEW id \in DOMAIN queue, Release(id), supply' = supply
  PROVE  /\ ShareType' /\ IsTotal(supply', Holders, balance') /\ EscrowBacked'
         /\ queue' \in [DOMAIN queue' -> Request] /\ DOMAIN queue' = DOMAIN queue \ {id}
         /\ IsTotal(queuedShares', Nat, Size')
<1> DEFINE s == queue[id].shares
           owner == queue[id].owner
<1>1. queue[id] \in Request BY DEF ShareInv, QueueType
<1>2. owner \in Users /\ s \in Nat /\ id \in Nat BY <1>1 DEF Request, ShareInv, QueueType
<1>3. owner \in Holders /\ Escrow \in Holders /\ owner # Escrow
  BY <1>2, VaultAssumption DEF Holders
<1>4. /\ s <= balance[Escrow] /\ balance' = Moved(Escrow, owner, s)
      /\ queue' = [i \in DOMAIN queue \ {id} |-> queue[i]]
      /\ queuedShares' = queuedShares - s
  BY DEF Release, Without
<1> HIDE DEF s, owner
<1>5. balance'[Escrow] = balance[Escrow] - s /\ balance' \in [Holders -> Nat]
      /\ IsTotal(supply', Holders, balance')
  BY <1>2, <1>3, <1>4, MovedShares
<1>6. /\ balance[Escrow] \in Nat /\ queuedShares \in Nat
      /\ queuedShares <= balance[Escrow] /\ supply \in Nat
  BY <1>3 DEF ShareInv, ShareType, QueueType, EscrowBacked
<1>7. ShareType' /\ EscrowBacked' BY <1>2, <1>4, <1>5, <1>6 DEF ShareType, EscrowBacked
<1>8. DOMAIN queue' = DOMAIN queue \ {id} /\ queue' \in [DOMAIN queue' -> Request]
  BY <1>4 DEF ShareInv, QueueType
<1>9. IsTotal(queuedShares', Nat, Size')
  <2>1. Size \in [Nat -> Nat] /\ Size[id] = s BY SizeType DEF s
  <2>2. Size' = [Size EXCEPT ![id] = 0] BY <1>2, <1>4, <1>8 DEF Size, SizeOf
  <2>3. IsTotal(queuedShares - Size[id] + 0, Nat, Size')
    BY <1>2, <2>1, <2>2, ChangeTotal DEF ShareInv, Accounts
  <2>4. queuedShares - Size[id] + 0 = queuedShares' BY <1>2, <1>4, <1>6, <2>1
  <2> QED BY <2>3, <2>4
<1> QED BY <1>5, <1>7, <1>8, <1>9

\* A cancellation anywhere in the queue leaves a hole, or empties the queue.
LEMMA CancelShares ==
  ASSUME ShareInv, NEW id \in DOMAIN queue, CancelRedeem(id)
  PROVE  ShareInv'
<1>1. Release(id) /\ supply' = supply /\ tail' = tail
      /\ head' = IF queuedShares' = 0 THEN tail ELSE head
  BY DEF CancelRedeem
<1>2. /\ ShareType' /\ IsTotal(supply', Holders, balance') /\ EscrowBacked'
      /\ queue' \in [DOMAIN queue' -> Request] /\ DOMAIN queue' = DOMAIN queue \ {id}
      /\ IsTotal(queuedShares', Nat, Size')
  BY <1>1, ReleaseShares
<1>3. head \in Nat /\ head <= tail /\ DOMAIN queue' \subseteq head..(tail - 1)
  BY <1>2 DEF ShareInv, QueueType, Window
<1>4. QueueType' /\ Window' /\ HeadAtTail'
  BY <1>1, <1>2, <1>3, AdvanceWindow DEF AdvanceHead
<1> QED BY <1>2, <1>4 DEF ShareInv, Accounts

\* One turn of process_queue's loop, with the head stored after it.
LEMMA ProcessShares ==
  ASSUME TypeOK, ShareInv, NEW f \in Factors, ProcessQueue(f)
  PROVE  ShareInv'
<1>1. /\ head \in Nat /\ tail \in Nat /\ head + 1 <= tail /\ tail' = tail
      /\ queue \in [DOMAIN queue -> Request] /\ DOMAIN queue \subseteq head..(tail - 1)
      /\ IsTotal(queuedShares, Nat, Size)
  BY DEF ProcessQueue, ShareInv, QueueType, Window, Accounts
<1>2. CASE SkipHole
  <2>1. /\ UNCHANGED <<shareVars, queue, queuedShares>> /\ AdvanceHead(head + 1)
        /\ head \notin DOMAIN queue
    BY <1>2 DEF SkipHole
  <2>2. DOMAIN queue' \subseteq (head + 1)..(tail - 1) BY <1>1, <2>1
  <2>3. IsTotal(queuedShares', Nat, Size') /\ queue' \in [DOMAIN queue' -> Request]
    BY <1>1, <2>1 DEF Size
  <2>4. QueueType' /\ Window' /\ HeadAtTail' BY <1>1, <2>1, <2>2, <2>3, AdvanceWindow
  <2> QED BY <2>1, <2>3, <2>4 DEF ShareInv, ShareType, Accounts, EscrowBacked, shareVars
<1>3. CASE StallHead(f)
  <2>1. /\ UNCHANGED <<shareVars, queue, queuedShares>> /\ AdvanceHead(head)
    BY <1>3 DEF StallHead
  <2>2. DOMAIN queue' \subseteq head..(tail - 1) BY <1>1, <2>1
  <2>3. IsTotal(queuedShares', Nat, Size') /\ queue' \in [DOMAIN queue' -> Request]
    BY <1>1, <2>1 DEF Size
  <2>4. QueueType' /\ Window' /\ HeadAtTail' BY <1>1, <2>1, <2>2, <2>3, AdvanceWindow
  <2> QED BY <2>1, <2>3, <2>4 DEF ShareInv, ShareType, Accounts, EscrowBacked, shareVars
<1>4. CASE ReturnFrozen
  <2>1. /\ head \in DOMAIN queue /\ Release(head) /\ supply' = supply
        /\ AdvanceHead(head + 1)
    BY <1>4 DEF ReturnFrozen
  <2>2. /\ ShareType' /\ IsTotal(supply', Holders, balance') /\ EscrowBacked'
        /\ queue' \in [DOMAIN queue' -> Request]
        /\ DOMAIN queue' = DOMAIN queue \ {head}
        /\ IsTotal(queuedShares', Nat, Size')
    BY <2>1, ReleaseShares
  <2>3. DOMAIN queue' \subseteq (head + 1)..(tail - 1) BY <1>1, <2>2
  <2>4. QueueType' /\ Window' /\ HeadAtTail' BY <1>1, <2>1, <2>2, <2>3, AdvanceWindow
  <2> QED BY <2>2, <2>4 DEF ShareInv, Accounts
<1>5. CASE FillHead(f)
  <2> DEFINE s == FillShares(f)
             rest == queue[head].shares - s
  <2>1. /\ head \in DOMAIN queue /\ Affordable(f)
        /\ Pay(Escrow, FillAssets(f), s) /\ queuedShares' = queuedShares - s
        /\ IF s < queue[head].shares
             THEN queue' = [queue EXCEPT ![head].shares = @ - s] /\ AdvanceHead(head)
             ELSE queue' = Without(head) /\ AdvanceHead(head + 1)
    BY <1>5 DEF FillHead
  <2>2. queue[head] \in Request /\ queue[head].shares \in Nat
    BY <1>1, <2>1 DEF Request
  <2>3. s \in Nat /\ s <= queue[head].shares /\ rest \in Nat
    <3>1. liquidity \in Nat BY DEF TypeOK
    <3>2. SharesFor(liquidity, f) \in Nat BY <3>1, PricingNat
    <3> QED BY <2>2, <3>2 DEF FillShares, Lesser
  <2>4. FillAssets(f) \in Nat BY <2>3, PricingNat DEF FillAssets
  <2> HIDE DEF s
  <2>5. Escrow \in Holders BY DEF Holders
  <2>6. /\ ShareType' /\ IsTotal(supply', Holders, balance')
        /\ balance' = [balance EXCEPT ![Escrow] = balance[Escrow] - s]
    BY <2>1, <2>3, <2>4, <2>5, PayShares
  <2>7. EscrowBacked'
    <3>1. /\ balance \in [Holders -> Nat] /\ queuedShares \in Nat
          /\ queuedShares <= balance[Escrow]
      BY DEF ShareInv, ShareType, QueueType, EscrowBacked
    <3>2. balance'[Escrow] = balance[Escrow] - s BY <2>5, <2>6, <3>1
    <3> QED BY <2>1, <2>3, <2>5, <3>1, <3>2 DEF EscrowBacked
  <2>8. /\ DOMAIN queue' \subseteq DOMAIN queue
        /\ queue' \in [DOMAIN queue' -> Request]
        /\ Size' = [Size EXCEPT ![head] = rest]
    <3>1. CASE s < queue[head].shares
      <4>1. queue' = [queue EXCEPT ![head] = [queue[head] EXCEPT !.shares = rest]]
        BY <2>1, <3>1
      <4>2. rest \in Nat \ {0} BY <2>2, <2>3, <3>1
      <4>3. [queue[head] EXCEPT !.shares = rest] \in Request
            /\ [queue[head] EXCEPT !.shares = rest].shares = rest
        BY <2>2, <4>2 DEF Request
      <4> HIDE DEF rest
      <4>4. DOMAIN queue' = DOMAIN queue /\ queue'[head].shares = rest
            /\ \A i \in DOMAIN queue \ {head} : queue'[i] = queue[i]
        BY <1>1, <2>1, <4>1, <4>3
      <4>5. queue' \in [DOMAIN queue' -> Request] BY <1>1, <2>1, <4>1, <4>3
      <4>6. Size' = [Size EXCEPT ![head] = rest] BY <1>1, <2>1, <4>4 DEF Size, SizeOf
      <4> QED BY <4>4, <4>5, <4>6
    <3>2. CASE ~(s < queue[head].shares)
      <4>1. rest = 0 BY <2>2, <2>3, <3>2
      <4>2. queue' = [i \in DOMAIN queue \ {head} |-> queue[i]]
        BY <2>1, <3>2 DEF Without
      <4> HIDE DEF rest
      <4>3. queue' \in [DOMAIN queue' -> Request] /\ DOMAIN queue' \subseteq DOMAIN queue
        BY <1>1, <4>2
      <4>4. Size' = [Size EXCEPT ![head] = rest]
        BY <1>1, <2>1, <4>1, <4>2 DEF Size, SizeOf
      <4> QED BY <4>3, <4>4
    <3> QED BY <3>1, <3>2
  <2>9. IsTotal(queuedShares', Nat, Size')
    <3>1. Size \in [Nat -> Nat] /\ Size[head] = queue[head].shares
      BY <2>1, SizeType
    <3>2. IsTotal(queuedShares - Size[head] + rest, Nat, Size')
      <4> HIDE DEF rest
      <4> QED BY <1>1, <2>3, <2>8, <3>1, ChangeTotal
    <3>3. queuedShares \in Nat BY DEF ShareInv, QueueType
    <3>4. queuedShares - Size[head] + rest = queuedShares'
      BY <2>1, <2>2, <2>3, <3>1, <3>3
    <3> QED BY <3>2, <3>4
  <2>10. QueueType' /\ Window' /\ HeadAtTail'
    <3> /\ queue' \in [DOMAIN queue' -> Request] /\ tail' = tail
        /\ head \in Nat /\ head <= tail /\ head + 1 \in Nat /\ head + 1 <= tail
      BY <1>1, <2>8
    <3>1. CASE s < queue[head].shares
      <4>1. DOMAIN queue' \subseteq head..(tail - 1) /\ AdvanceHead(head)
        BY <1>1, <2>1, <2>8, <3>1
      <4> QED BY <2>9, <4>1, AdvanceWindow
    <3>2. CASE ~(s < queue[head].shares)
      <4>1. DOMAIN queue' \subseteq (head + 1)..(tail - 1) /\ AdvanceHead(head + 1)
        BY <1>1, <2>1, <3>2 DEF Without
      <4> QED BY <2>9, <4>1, AdvanceWindow
    <3> QED BY <3>1, <3>2
  <2> QED BY <2>6, <2>7, <2>9, <2>10 DEF ShareInv, Accounts
<1> QED BY <1>2, <1>3, <1>4, <1>5 DEF ProcessQueue

LEMMA ShareStep ==
  ASSUME TypeOK, ShareInv, [Next]_vars
  PROVE  ShareInv'
<1> USE VaultAssumption
<1>1. CASE DepositorNext
  <2>1. PICK u \in Users, f \in Factors :
          \/ \E to \in Users, a \in Amounts : Deposit(u, to, a, f)
          \/ \E to \in Users, s \in ShareAmounts : MintShares(u, to, s, f)
          \/ \E a \in Amounts : Withdraw(u, a, f)
          \/ \E s \in ShareAmounts : Redeem(u, s, f)
          \/ \E to \in Holders, s \in ShareAmounts : Transfer(u, to, s)
          \/ \E r \in Receivers, s \in ShareAmounts : RequestRedeem(u, r, s, f)
    BY <1>1 DEF DepositorNext
  <2>2. ASSUME NEW to \in Users, NEW a \in Amounts, Deposit(u, to, a, f)
        PROVE  ShareInv'
    <3>1. SharesFor(a, f) \in Nat BY PricingNat
    <3> QED BY <2>2, <3>1, EnterShares DEF Deposit, Enter
  <2>3. ASSUME NEW to \in Users, NEW s \in ShareAmounts, MintShares(u, to, s, f)
        PROVE  ShareInv'
    BY <2>3, EnterShares DEF MintShares, Enter
  <2>4. ASSUME NEW a \in Amounts, Withdraw(u, a, f) PROVE ShareInv'
    <3>1. a \in Nat /\ SharesForCeil(a, f) \in Nat BY PricingNat
    <3> QED BY <2>4, <3>1, ExitShares DEF Withdraw, InstantExit
  <2>5. ASSUME NEW s \in ShareAmounts, Redeem(u, s, f) PROVE ShareInv'
    <3>1. s \in Nat /\ AssetsFor(s, f) \in Nat BY PricingNat
    <3> QED BY <2>5, <3>1, ExitShares DEF Redeem, InstantExit
  <2>6. ASSUME NEW to \in Holders, NEW s \in ShareAmounts, Transfer(u, to, s)
        PROVE  ShareInv'
    BY <2>6, TransferShares
  <2>7. ASSUME NEW r \in Receivers, NEW s \in ShareAmounts, RequestRedeem(u, r, s, f)
        PROVE  ShareInv'
    BY <2>7, RequestShares
  <2> QED BY <2>1, <2>2, <2>3, <2>4, <2>5, <2>6, <2>7
<1>2. CASE QueueNext
  BY <1>2, CancelShares, ProcessShares DEF QueueNext
<1>3. CASE TreasuryNext \/ WriteOffNext \/ ComplianceNext
  <2>1. UNCHANGED <<shareVars, queueVars>>
    BY <1>3 DEF TreasuryNext, WriteOffNext, ComplianceNext, Borrow, Repay, BumpYield,
       Accrue, WriteOff, AllowDepositor, DisallowDepositor, FreezeDepositor,
       ExtendExitDeadline, SetDeadline
  <2> QED BY <2>1, QuietShares
<1>4. CASE OwnerNext \/ EnvNext BY <1>4, OwnerGates, QuietShares
<1>5. CASE UNCHANGED vars BY <1>5, QuietShares DEF vars
<1> QED BY <1>1, <1>2, <1>3, <1>4, <1>5 DEF Next

-----------------------------------------------------------------------------
(* Money *)

\* Payments fit in the idle USDC, repayments and write-offs in the debt.
LEMMA MoneyStep ==
  ASSUME TypeOK, ShareInv, [Next]_vars
  PROVE  MoneyType'
<1> USE VaultAssumption
<1>1. /\ liquidity \in Nat /\ debt \in Nat /\ index \in Nat /\ index >= Scale
      /\ lastAccrual \in 0..now /\ now \in Nat
  BY DEF TypeOK
<1>2. ASSUME NEW f \in Factors, Accrued(f), now' = now,
             liquidity' \in Nat
      PROVE  MoneyType'
  BY <1>1, <1>2, AccrualType DEF MoneyType
<1>3. ASSUME NEW h, NEW a \in Nat, NEW s, Pay(h, a, s)
      PROVE  liquidity' \in Nat
  BY <1>1, <1>3 DEF Pay
<1>4. CASE DepositorNext
  <2>1. PICK u \in Users, f \in Factors :
          \/ \E to \in Users, a \in Amounts : Deposit(u, to, a, f)
          \/ \E to \in Users, s \in ShareAmounts : MintShares(u, to, s, f)
          \/ \E a \in Amounts : Withdraw(u, a, f)
          \/ \E s \in ShareAmounts : Redeem(u, s, f)
          \/ \E to \in Holders, s \in ShareAmounts : Transfer(u, to, s)
          \/ \E r \in Receivers, s \in ShareAmounts : RequestRedeem(u, r, s, f)
    BY <1>4 DEF DepositorNext
  <2>2. now' = now BY <1>4, DepositorGates DEF envVars
  <2>3. ASSUME NEW to \in Users, NEW a \in Amounts, Deposit(u, to, a, f)
        PROVE  MoneyType'
    <3>1. Accrued(f) /\ liquidity' = liquidity + a
      BY <2>3 DEF Deposit, Enter, AccrueIf, Accrued
    <3>2. liquidity' \in Nat BY <1>1, <3>1
    <3> QED BY <1>2, <2>2, <3>1, <3>2
  <2>4. ASSUME NEW to \in Users, NEW s \in ShareAmounts, MintShares(u, to, s, f)
        PROVE  MoneyType'
    <3>1. Accrued(f) /\ liquidity' = liquidity + AssetsForCeil(s, f)
      BY <2>4 DEF MintShares, Enter, AccrueIf, Accrued
    <3>2. AssetsForCeil(s, f) \in Nat BY PricingNat
    <3>3. liquidity' \in Nat BY <1>1, <3>1, <3>2
    <3> QED BY <1>2, <2>2, <3>1, <3>3
  <2>5. ASSUME NEW a \in Amounts, Withdraw(u, a, f) PROVE MoneyType'
    <3>1. Accrued(f) /\ Pay(u, a, SharesForCeil(a, f))
      BY <2>5 DEF Withdraw, InstantExit, AccrueIf, Accrued
    <3>2. liquidity' \in Nat BY <1>3, <3>1
    <3> QED BY <1>2, <2>2, <3>1, <3>2
  <2>6. ASSUME NEW s \in ShareAmounts, Redeem(u, s, f) PROVE MoneyType'
    <3>1. Accrued(f) /\ Pay(u, AssetsFor(s, f), s)
      BY <2>6 DEF Redeem, InstantExit, AccrueIf, Accrued
    <3>2. AssetsFor(s, f) \in Nat BY PricingNat
    <3>3. liquidity' \in Nat BY <1>3, <3>1, <3>2
    <3> QED BY <1>2, <2>2, <3>1, <3>3
  <2>7. ASSUME NEW to \in Holders, NEW s \in ShareAmounts, Transfer(u, to, s)
        PROVE  MoneyType'
    BY <1>1, <2>2, <2>7 DEF Transfer, debtVars, MoneyType
  <2>8. ASSUME NEW r \in Receivers, NEW s \in ShareAmounts, RequestRedeem(u, r, s, f)
        PROVE  MoneyType'
    <3>1. Accrued(f) /\ liquidity' = liquidity BY <2>8 DEF RequestRedeem, AccrueIf, Accrued
    <3> QED BY <1>1, <1>2, <2>2, <3>1
  <2> QED BY <2>1, <2>3, <2>4, <2>5, <2>6, <2>7, <2>8
<1>5. CASE TreasuryNext
  <2>1. now' = now BY <1>5, MoneyGates DEF gateVars, envVars
  <2>2. PICK f \in Factors :
          \/ \E a \in Amounts : Borrow(a, f) \/ Repay(a, f) \/ BumpYield(a, f)
          \/ Accrue(f)
    BY <1>5 DEF TreasuryNext
  <2>3. AccruedDebt(f) \in Nat /\ AccruedIndex(f) \in Nat /\ AccruedIndex(f) >= Scale
    BY PricingNat
  <2>4. ASSUME NEW a \in Amounts, Borrow(a, f) PROVE MoneyType'
    BY <1>1, <2>1, <2>3, <2>4 DEF Borrow, ChargeInterest, MoneyType
  <2>5. ASSUME NEW a \in Amounts, Repay(a, f) PROVE MoneyType'
    BY <1>1, <2>1, <2>3, <2>5 DEF Repay, ChargeInterest, MoneyType
  <2>6. ASSUME NEW a \in Amounts, BumpYield(a, f) PROVE MoneyType'
    <3>1. Accrued(f) /\ liquidity' = liquidity + a BY <2>6 DEF BumpYield, AccrueIf, Accrued
    <3> QED BY <1>1, <1>2, <2>1, <3>1
  <2>7. CASE Accrue(f)
    <3>1. Accrued(f) /\ liquidity' = liquidity BY <2>7 DEF Accrue, AccrueIf, Accrued
    <3> QED BY <1>1, <1>2, <2>1, <3>1
  <2> QED BY <2>2, <2>4, <2>5, <2>6, <2>7
<1>6. CASE WriteOffNext
  <2>1. now' = now BY <1>6, MoneyGates DEF gateVars, envVars
  <2>2. PICK f \in Factors, p \in Amounts, origin \in Scale..index :
          WriteOff(p, origin, f)
    BY <1>6 DEF WriteOffNext
  <2>3. AccruedDebt(f) \in Nat /\ AccruedIndex(f) \in Nat /\ AccruedIndex(f) >= Scale
    BY PricingNat
  <2>4. CeilDiv(p * AccruedIndex(f), origin) \in Nat
    <3>1. p \in Nat /\ origin \in Nat \ {0} BY <1>1
    <3>2. p * AccruedIndex(f) \in Nat BY <2>3, <3>1, MulMono
    <3> QED BY <3>1, <3>2, CeilDivBounds
  <2> QED BY <1>1, <2>1, <2>2, <2>3, <2>4
          DEF WriteOff, ChargeInterest, MoneyType, Lesser
<1>7. CASE QueueNext
  <2>1. now' = now BY <1>7, MoneyGates DEF gateVars, envVars
  <2>2. CASE \E id \in DOMAIN queue : CancelRedeem(id)
    BY <1>1, <2>1, <2>2 DEF CancelRedeem, debtVars, MoneyType
  <2>3. CASE \E f \in Factors : ProcessQueue(f)
    <3>1. PICK f \in Factors : ProcessQueue(f) BY <2>3
    <3>2. CASE SkipHole \/ ReturnFrozen
      BY <1>1, <2>1, <3>2 DEF SkipHole, ReturnFrozen, debtVars, MoneyType
    <3>3. CASE StallHead(f)
      <4>1. Accrued(f) /\ liquidity' = liquidity BY <3>3 DEF StallHead, AccrueIf, Accrued
      <4> QED BY <1>1, <1>2, <2>1, <4>1
    <3>4. CASE FillHead(f)
      <4>1. Accrued(f) /\ Pay(Escrow, FillAssets(f), FillShares(f))
            /\ head \in DOMAIN queue
        BY <3>4 DEF FillHead, AccrueIf, Accrued
      <4>2. queue[head].shares \in Nat BY <4>1 DEF ShareInv, QueueType, Request
      <4>3. FillShares(f) \in Nat
        <5>1. SharesFor(liquidity, f) \in Nat BY <1>1, PricingNat
        <5> QED BY <4>2, <5>1 DEF FillShares, Lesser
      <4>4. FillAssets(f) \in Nat BY <4>3, PricingNat DEF FillAssets
      <4>5. liquidity' \in Nat BY <1>3, <4>1, <4>4
      <4> QED BY <1>2, <2>1, <4>1, <4>5
    <3> QED BY <3>1, <3>2, <3>3, <3>4 DEF ProcessQueue
  <2> QED BY <1>7, <2>2, <2>3 DEF QueueNext
<1>8. CASE ComplianceNext
  BY <1>1, <1>8 DEF ComplianceNext, AllowDepositor, DisallowDepositor,
     FreezeDepositor, ExtendExitDeadline, SetDeadline, debtVars, envVars, MoneyType
<1>9. CASE OwnerNext \/ EnvNext
  BY <1>1, <1>9, OwnerGates DEF MoneyType, debtVars, GateType
<1>10. CASE UNCHANGED vars
  BY <1>1, <1>10 DEF MoneyType, vars, debtVars, envVars
<1> QED BY <1>4, <1>5, <1>6, <1>7, <1>8, <1>9, <1>10 DEF Next

-----------------------------------------------------------------------------
(* Theorems *)

LEMMA InvParts == Inv <=> TypeOK /\ ShareInv /\ AllowedHasNoDeadline
BY DEF Inv, TypeOK, ShareInv, ShareType, QueueType

LEMMA TypeParts == TypeOK <=> MoneyType /\ QueueType /\ ShareType /\ GateType
BY DEF TypeOK, MoneyType, QueueType, ShareType, GateType

\* The constructor's state satisfies the invariant.
LEMMA InitInv == Init => Inv
<1> SUFFICES ASSUME Init PROVE Inv OBVIOUS
<1> USE VaultAssumption DEF Init, NoDeadline
<1>1. TypeOK
  <2>1. DOMAIN queue = {} /\ queue \in [DOMAIN queue -> Request] OBVIOUS
  <2>2. MoneyType BY DEF MoneyType
  <2>3. QueueType BY <2>1 DEF QueueType
  <2>4. ShareType BY DEF ShareType
  <2>5. GateType BY DEF GateType
  <2> QED BY <2>2, <2>3, <2>4, <2>5, TypeParts
<1>2. IsTotal(supply, Holders, balance)
  <2>1. supply = 0 /\ \A h \in Holders : balance[h] = 0 OBVIOUS
  <2> QED BY <2>1, ZeroTotal
<1>3. IsTotal(queuedShares, Nat, Size)
  <2>1. \A i \in Nat : Size[i] = 0 BY DEF Size, SizeOf
  <2> QED BY <2>1, ZeroTotal
<1>4. EscrowBacked BY DEF EscrowBacked, Holders
<1>5. Window /\ HeadAtTail BY DEF Window, HeadAtTail
<1>6. AllowedHasNoDeadline BY DEF AllowedHasNoDeadline
<1> QED BY <1>1, <1>2, <1>3, <1>4, <1>5, <1>6 DEF Inv, Accounts

\* Every call preserves it.
LEMMA NextInv == Inv /\ [Next]_vars => Inv'
<1> SUFFICES ASSUME Inv, [Next]_vars PROVE Inv' OBVIOUS
<1>1. TypeOK /\ ShareInv /\ AllowedHasNoDeadline BY InvParts
<1>2. ShareInv' BY <1>1, ShareStep
<1>3. MoneyType' BY <1>1, MoneyStep
<1>4. GateType' /\ AllowedHasNoDeadline' BY <1>1, GateStep
<1>5. TypeOK'
  BY <1>2, <1>3, <1>4 DEF TypeOK, ShareInv, ShareType, QueueType, MoneyType, GateType
<1> QED BY <1>2, <1>4, <1>5 DEF Inv, ShareInv

\* Every call of the contract keeps the accounts of shares, requests, money and
\* gates together (the strengthening the theorems below rest on).
THEOREM InvHolds == Spec => []Inv
BY InitInv, NextInv, PTL DEF Spec

\* Every stored value keeps its type under every call of the contract: no
\* balance, supply, debt or queue total ever goes below zero.
THEOREM TypeCorrect == Spec => []TypeOK
<1>1. Inv => TypeOK BY DEF Inv
<1> QED BY <1>1, InvHolds, PTL

\* The supply is the sum of all balances and the queue's running total the sum
\* of its open requests (Base::update, request_redeem, release_request,
\* process_queue keep both in step).
THEOREM TotalsHold == Spec => []Accounts
<1>1. Inv => Accounts BY DEF Inv
<1> QED BY <1>1, InvHolds, PTL

\* Every open request is backed by shares the vault itself holds, so
\* cancel_redeem and process_queue never lack the shares they move.
THEOREM EscrowHolds == Spec => []EscrowBacked
<1>1. Inv => EscrowBacked BY DEF Inv
<1> QED BY <1>1, InvHolds, PTL

\* No open request is ever behind the head, whatever cancellations and partial
\* fills came before (release_request and process_queue move the head).
THEOREM WindowHolds == Spec => []QueueWindow
<1>1. Inv => QueueWindow
  <2> SUFFICES ASSUME Inv PROVE QueueWindow OBVIOUS
  <2>1. queuedShares = 0 <=> DOMAIN queue = {}
    BY EmptyQueue DEF Inv, TypeOK, Accounts, Size
  <2> QED BY <2>1 DEF Inv, Window, HeadAtTail, QueueWindow
<1> QED BY <1>1, InvHolds, PTL

\* Cancelling, filling and returning requests in any order keeps the queue
\* whole (cancel_redeem, process_queue).
THEOREM QueueStaysSound == Spec => []QueueSound
BY WindowHolds, EscrowHolds, PTL DEF QueueSound

\* A depositor back on the allowlist has no deadline waiting to bind.
THEOREM NoStaleDeadline == Spec => []AllowedHasNoDeadline
<1>1. Inv => AllowedHasNoDeadline BY DEF Inv
<1> QED BY <1>1, InvHolds, PTL

\* Between calls every open request is ahead of the head with its shares in the
\* escrow, and nobody on the allowlist has a deadline that waits (cancel_redeem,
\* process_queue, allow_depositor).
THEOREM VaultStaysSound == Spec => []VaultSound
BY QueueStaysSound, NoStaleDeadline, PTL DEF VaultSound

-----------------------------------------------------------------------------
(***************************************************************************)
(* What the calls amount to.  Every step of the contract is one of seven    *)
(* kinds; the action properties follow from the kinds alone.                *)
(***************************************************************************)

\* Nothing times a price is nothing (the quotes of a call over no shares).
LEMMA ZeroQuotient ==
  ASSUME NEW y \in Nat \ {0}
  PROVE  FloorDiv(0, y) = 0 /\ CeilDiv(0, y) = 0
<1>1. FloorDiv(0, y) \in Nat /\ FloorDiv(0, y) * y <= 0 BY FloorDivBounds
<1>2. CeilDiv(0, y) \in Nat /\ CeilDiv(0, y) * y < y BY CeilDivBounds
<1>3. \A q \in Nat : q * y <= 0 => q = 0 OBVIOUS
<1>4. \A q \in Nat : q * y < y => q = 0
  <2>1. \A q \in Nat : q * y < 1 * y => q < 1 BY MulCancel
  <2> QED BY <2>1
<1> QED BY <1>1, <1>2, <1>3, <1>4

\* Interest never lowers the debt (accrue_interest).
LEMMA DebtGrows ==
  ASSUME TypeOK, NEW f \in Factors
  PROVE  AccruedDebt(f) >= debt
<1> USE VaultAssumption
<1>1. f \in Nat /\ f >= Scale /\ Scale \in Nat \ {0} OBVIOUS
<1>2. debt \in Nat BY DEF TypeOK
<1>3. debt * Scale <= debt * f /\ debt * f \in Nat BY <1>1, <1>2, MulMono
<1>4. debt <= FloorDiv(debt * f, Scale) BY <1>1, <1>2, <1>3, FloorAtLeast
<1> QED BY <1>2, <1>4 DEF AccruedDebt

Charged(f) == lastAccrual' = now /\ debt' = AccruedDebt(f)

\* deposit and mint give at most the shares the assets are worth.
Entering(f, to, x, q) ==
  /\ balance' = [balance EXCEPT ![to] = @ + q] /\ supply' = supply + q
  /\ liquidity' = liquidity + x
  /\ q * VirtualAssets(f) <= x * VirtualSupply
  /\ Charged(f) \/ (debt' = debt /\ x = 0 /\ q = 0)
  /\ Relock(to) /\ UNCHANGED queueVars

\* A payment out of the vault burns at least the shares it is worth.
Paying(f, from, x, c) ==
  /\ c <= balance[from] /\ x <= liquidity
  /\ balance' = [balance EXCEPT ![from] = balance[from] - c] /\ supply' = supply - c
  /\ liquidity' = liquidity - x
  /\ x * VirtualSupply <= c * VirtualAssets(f)
  /\ Charged(f) \/ (debt' = debt /\ x = 0 /\ c = 0)
  /\ UNCHANGED unlock

Leaving(f, u, x, c) ==
  QueueEmpty /\ CanExit(u) /\ Paying(f, u, x, c) /\ UNCHANGED queueVars

Filling(f, x, c) ==
  /\ head \in DOMAIN queue /\ ~Frozen(queue[head].owner)
  /\ c > 0 /\ Paying(f, Escrow, x, c) /\ queuedShares' = queuedShares - c
  /\ \A k \in DOMAIN queue \ {head} : k \in DOMAIN queue' /\ queue'[k] = queue[k]

Borrowing ==
  /\ QueueEmpty /\ lastAccrual' = now
  /\ liquidity' + debt' >= liquidity + debt
  /\ CapScale * debt' < (Cap + 1) * (liquidity' + debt')
  /\ UNCHANGED <<shareVars, queueVars, unlock>>

\* Shares change hands: transfer and request_redeem.
Moving(u, to, s) ==
  /\ CanExit(u) /\ s <= balance[u] /\ balance' = Moved(u, to, s)
  /\ supply' = supply /\ liquidity' = liquidity /\ UNCHANGED unlock
  /\ debt' = debt \/ (lastAccrual' = now /\ debt' >= debt)
  /\ \A k \in DOMAIN queue : k \in DOMAIN queue' /\ queue'[k] = queue[k]

Releasing(id) ==
  Release(id) /\ UNCHANGED <<supply, liquidity, debt, unlock>>

\* Nobody's shares move and nothing is paid out.
Resting ==
  /\ UNCHANGED <<shareVars, queue, queuedShares, unlock>>
  /\ liquidity' >= liquidity
  /\ debt' = debt \/ lastAccrual' = now
  /\ WriteOffNext \/ liquidity' + debt' >= liquidity + debt

Kinds ==
  \/ \E f \in Factors, to \in Users, x, q \in Nat : Entering(f, to, x, q)
  \/ \E f \in Factors, u \in Users, x, c \in Nat : Leaving(f, u, x, c)
  \/ \E f \in Factors, x, c \in Nat : Filling(f, x, c)
  \/ Borrowing
  \/ \E u \in Users, to \in Holders, s \in Nat : Moving(u, to, s)
  \/ \E id \in DOMAIN queue : Releasing(id)
  \/ Resting

\* What an accrual leaves, whether its condition held or not.
LEMMA AccrueEffect ==
  ASSUME TypeOK, NEW f \in Factors, NEW c, AccrueIf(c, f)
  PROVE  /\ c => Charged(f)
         /\ ~c => debt' = debt
         /\ debt' = debt \/ lastAccrual' = now
         /\ debt' >= debt /\ debt' \in Nat
<1>1. AccruedDebt(f) >= debt /\ AccruedDebt(f) \in Nat BY DebtGrows, PricingNat
<1>2. debt \in Nat BY DEF TypeOK
<1> QED BY <1>1, <1>2 DEF AccrueIf, ChargeInterest, Charged, debtVars

\* A permitted holder is not frozen, so transfer's own gates let only those
\* out who may exit.
LEMMA PermittedMayExit ==
  ASSUME NEW u, Permitted(u), ~Locked(u)
  PROVE  CanExit(u)
BY DEF CanExit, Frozen

LEMMA DepositorKinds ==
  ASSUME TypeOK, ShareInv, DepositorNext
  PROVE  Kinds
<1> USE VaultAssumption
<1>1. PICK u \in Users, f \in Factors :
        \/ \E to \in Users, a \in Amounts : Deposit(u, to, a, f)
        \/ \E to \in Users, s \in ShareAmounts : MintShares(u, to, s, f)
        \/ \E a \in Amounts : Withdraw(u, a, f)
        \/ \E s \in ShareAmounts : Redeem(u, s, f)
        \/ \E to \in Holders, s \in ShareAmounts : Transfer(u, to, s)
        \/ \E r \in Receivers, s \in ShareAmounts : RequestRedeem(u, r, s, f)
  BY DEF DepositorNext
<1>2. /\ VirtualAssets(f) \in Nat \ {0} /\ VirtualSupply \in Nat \ {0}
      /\ \A x \in Nat : /\ SharesFor(x, f) \in Nat /\ SharesForCeil(x, f) \in Nat
                        /\ AssetsFor(x, f) \in Nat /\ AssetsForCeil(x, f) \in Nat
  BY PricingNat
<1>3. \A x \in Nat : x * VirtualSupply \in Nat /\ x * VirtualAssets(f) \in Nat
  BY <1>2, MulMono
<1>4. 0 * VirtualSupply = 0 /\ 0 * VirtualAssets(f) = 0 BY <1>2
<1>5. /\ SharesFor(0, f) = 0 /\ SharesForCeil(0, f) = 0
      /\ AssetsFor(0, f) = 0 /\ AssetsForCeil(0, f) = 0
  BY <1>2, <1>4, ZeroQuotient DEF SharesFor, SharesForCeil, AssetsFor, AssetsForCeil
<1>6. \A x \in Nat : /\ SharesFor(x, f) * VirtualAssets(f) <= x * VirtualSupply
                     /\ AssetsFor(x, f) * VirtualSupply <= x * VirtualAssets(f)
                     /\ x * VirtualSupply <= SharesForCeil(x, f) * VirtualAssets(f)
                     /\ x * VirtualAssets(f) <= AssetsForCeil(x, f) * VirtualSupply
  BY <1>2, <1>3, FloorDivBounds, CeilDivBounds
     DEF SharesFor, SharesForCeil, AssetsFor, AssetsForCeil
<1>7. ASSUME NEW to \in Users, NEW a \in Amounts, Deposit(u, to, a, f) PROVE Kinds
  <2>1. /\ a \in Nat /\ AccrueIf(a > 0, f)
        /\ Enter(u, to, a, SharesFor(a, f), f)
    BY <1>7 DEF Deposit
  <2>2. Charged(f) \/ (debt' = debt /\ a = 0)
    <3>1. CASE a > 0 BY <2>1, <3>1, AccrueEffect
    <3>2. CASE ~(a > 0) BY <2>1, <3>2, AccrueEffect
    <3> QED BY <3>1, <3>2
  <2>3. Entering(f, to, a, SharesFor(a, f))
    BY <1>5, <1>6, <2>1, <2>2 DEF Entering, Enter
  <2> QED BY <1>2, <2>1, <2>3 DEF Kinds
<1>8. ASSUME NEW to \in Users, NEW s \in ShareAmounts, MintShares(u, to, s, f)
      PROVE  Kinds
  <2>1. /\ s \in Nat /\ AccrueIf(s > 0, f)
        /\ Enter(u, to, AssetsForCeil(s, f), s, f)
    BY <1>8 DEF MintShares
  <2>2. Charged(f) \/ (debt' = debt /\ s = 0)
    <3>1. CASE s > 0 BY <2>1, <3>1, AccrueEffect
    <3>2. CASE ~(s > 0) BY <2>1, <3>2, AccrueEffect
    <3> QED BY <3>1, <3>2
  <2>3. Entering(f, to, AssetsForCeil(s, f), s)
    BY <1>5, <1>6, <2>1, <2>2 DEF Entering, Enter
  <2> QED BY <1>2, <2>1, <2>3 DEF Kinds
<1>9. ASSUME NEW a \in Amounts, Withdraw(u, a, f) PROVE Kinds
  <2>1. /\ a \in Nat /\ AccrueIf(balance[u] > 0, f) /\ a <= AssetsFor(balance[u], f)
        /\ InstantExit(u, a, SharesForCeil(a, f))
    BY <1>9 DEF Withdraw
  <2>2. balance[u] \in Nat BY DEF TypeOK, Holders
  <2>3. Charged(f) \/ (debt' = debt /\ a = 0)
    <3>1. CASE balance[u] > 0 BY <2>1, <3>1, AccrueEffect
    <3>2. CASE ~(balance[u] > 0)
      <4>1. balance[u] = 0 BY <2>2, <3>2
      <4>2. a <= 0 BY <1>5, <2>1, <4>1
      <4> QED BY <2>1, <3>2, <4>2, AccrueEffect
    <3> QED BY <3>1, <3>2
  <2>4. Leaving(f, u, a, SharesForCeil(a, f))
    BY <1>5, <1>6, <2>1, <2>3 DEF Leaving, Paying, InstantExit, Pay, lockVars
  <2> QED BY <1>2, <2>1, <2>4 DEF Kinds
<1>10. ASSUME NEW s \in ShareAmounts, Redeem(u, s, f) PROVE Kinds
  <2>1. /\ s \in Nat /\ AccrueIf(s > 0, f)
        /\ InstantExit(u, AssetsFor(s, f), s)
    BY <1>10 DEF Redeem
  <2>2. Charged(f) \/ (debt' = debt /\ s = 0)
    <3>1. CASE s > 0 BY <2>1, <3>1, AccrueEffect
    <3>2. CASE ~(s > 0) BY <2>1, <3>2, AccrueEffect
    <3> QED BY <3>1, <3>2
  <2>3. Leaving(f, u, AssetsFor(s, f), s)
    BY <1>5, <1>6, <2>1, <2>2 DEF Leaving, Paying, InstantExit, Pay, lockVars
  <2> QED BY <1>2, <2>1, <2>3 DEF Kinds
<1>11. ASSUME NEW to \in Holders, NEW s \in ShareAmounts, Transfer(u, to, s)
       PROVE  Kinds
  <2>1. CanExit(u) BY <1>11, PermittedMayExit DEF Transfer
  <2>2. Moving(u, to, s)
    BY <1>11, <2>1 DEF Transfer, Moving, debtVars, queueVars, lockVars
  <2> QED BY <2>2 DEF Kinds
<1>12. ASSUME NEW r \in Receivers, NEW s \in ShareAmounts, RequestRedeem(u, r, s, f)
       PROVE  Kinds
  <2>1. AccrueIf(TRUE, f) BY <1>12 DEF RequestRedeem
  <2>2. debt' = debt \/ (lastAccrual' = now /\ debt' >= debt)
    BY <2>1, AccrueEffect
  <2>3. tail \notin DOMAIN queue BY DEF ShareInv, Window, QueueType
  <2>4. Moving(u, Escrow, s)
    BY <1>12, <2>2, <2>3 DEF RequestRedeem, Moving, lockVars
  <2> QED BY <2>4 DEF Kinds, Holders
<1> QED BY <1>1, <1>7, <1>8, <1>9, <1>10, <1>11, <1>12

\* The vault's assets are worth no less when neither part is.
LEMMA SumGrows ==
  ASSUME NEW a \in Nat, NEW b \in Nat, NEW c \in Nat, NEW d \in Nat, c >= a, d >= b
  PROVE  c + d >= a + b
OBVIOUS

LEMMA TreasuryKinds ==
  ASSUME TypeOK, TreasuryNext
  PROVE  Kinds
<1> USE VaultAssumption
<1>1. PICK f \in Factors :
        \/ \E a \in Amounts : Borrow(a, f) \/ Repay(a, f) \/ BumpYield(a, f)
        \/ Accrue(f)
  BY DEF TreasuryNext
<1>2. AccruedDebt(f) \in Nat /\ AccruedDebt(f) >= debt BY PricingNat, DebtGrows
<1>3. liquidity \in Nat /\ debt \in Nat BY DEF TypeOK
<1>4. ASSUME NEW a \in Amounts, Borrow(a, f) PROVE Kinds
  <2> DEFINE owed == AccruedDebt(f) + a
             managed == liquidity + AccruedDebt(f)
  <2>1. /\ QueueEmpty /\ lastAccrual' = now
        /\ managed > 0 /\ FloorDiv(owed * CapScale, managed) <= Cap
        /\ a <= liquidity /\ debt' = owed /\ liquidity' = liquidity - a
        /\ UNCHANGED <<shareVars, queueVars, unlock>>
    BY <1>4 DEF Borrow, ChargeInterest, Utilization, lockVars
  <2>2. owed \in Nat /\ managed \in Nat \ {0} /\ a \in Nat
    BY <1>2, <1>3, <2>1
  <2>3. liquidity' + debt' = managed BY <1>2, <1>3, <2>1, <2>2
  <2>4. managed >= liquidity + debt BY <1>2, <1>3
  <2> HIDE DEF owed, managed
  <2>5. owed * CapScale < (Cap + 1) * managed
    <3> DEFINE q == FloorDiv(owed * CapScale, managed)
    <3>1. owed * CapScale \in Nat BY <2>2, MulMono
    <3>2. q \in Nat /\ owed * CapScale < (q + 1) * managed
      BY <2>2, <3>1, FloorDivBounds
    <3>3. q <= Cap BY <2>1
    <3> HIDE DEF q
    <3>4. (q + 1) * managed <= (Cap + 1) * managed
      <4>1. q + 1 \in Nat /\ Cap + 1 \in Nat /\ q + 1 <= Cap + 1 BY <3>2, <3>3
      <4> QED BY <2>2, <4>1, MulMono
    <3>5. (q + 1) * managed \in Int /\ (Cap + 1) * managed \in Int BY <2>2, <3>2
    <3> QED BY <3>1, <3>2, <3>4, <3>5
  <2>6. CapScale * owed = owed * CapScale BY <2>2
  <2>7. Borrowing BY <2>1, <2>3, <2>4, <2>5, <2>6 DEF Borrowing
  <2> QED BY <2>7 DEF Kinds
<1>5. ASSUME NEW a \in Amounts, Repay(a, f) PROVE Kinds
  <2>1. Resting
    BY <1>2, <1>3, <1>5 DEF Resting, Repay, ChargeInterest, lockVars, queueVars
  <2> QED BY <2>1 DEF Kinds
<1>6. ASSUME NEW a \in Amounts, BumpYield(a, f) PROVE Kinds
  <2>1. AccrueIf(TRUE, f) BY <1>6 DEF BumpYield
  <2>2. debt' >= debt /\ debt' \in Nat /\ Charged(f) BY <2>1, AccrueEffect
  <2>3. Resting
    BY <1>3, <1>6, <2>2 DEF Resting, BumpYield, Charged, lockVars, queueVars
  <2> QED BY <2>3 DEF Kinds
<1>7. CASE Accrue(f)
  <2>1. AccrueIf(TRUE, f) BY <1>7 DEF Accrue
  <2>2. debt' >= debt /\ debt' \in Nat /\ Charged(f) BY <2>1, AccrueEffect
  <2>3. Resting
    BY <1>3, <1>7, <2>2 DEF Resting, Accrue, Charged, lockVars, queueVars
  <2> QED BY <2>3 DEF Kinds
<1> QED BY <1>1, <1>4, <1>5, <1>6, <1>7

LEMMA QueueKinds ==
  ASSUME TypeOK, ShareInv, QueueNext
  PROVE  Kinds
<1> USE VaultAssumption
<1>1. liquidity \in Nat /\ debt \in Nat BY DEF TypeOK
<1>2. ASSUME NEW id \in DOMAIN queue, CancelRedeem(id) PROVE Kinds
  <2>1. Releasing(id) BY <1>2 DEF CancelRedeem, Releasing, debtVars, lockVars
  <2> QED BY <2>1 DEF Kinds
<1>3. ASSUME NEW f \in Factors, ProcessQueue(f) PROVE Kinds
  <2>1. UNCHANGED unlock BY <1>3 DEF ProcessQueue, lockVars
  <2>2. CASE SkipHole
    <3>1. Resting BY <1>1, <2>1, <2>2 DEF SkipHole, Resting, debtVars
    <3> QED BY <3>1 DEF Kinds
  <2>3. CASE ReturnFrozen
    <3>1. head \in DOMAIN queue /\ Releasing(head)
      BY <2>1, <2>3 DEF ReturnFrozen, Releasing, debtVars
    <3> QED BY <3>1 DEF Kinds
  <2>4. CASE StallHead(f)
    <3>1. AccrueIf(liquidity > 0, f) BY <2>4 DEF StallHead
    <3>2. debt' >= debt /\ debt' \in Nat /\ (debt' = debt \/ lastAccrual' = now)
      BY <3>1, AccrueEffect
    <3>3. UNCHANGED <<shareVars, queue, queuedShares>> /\ liquidity' = liquidity
      BY <2>4 DEF StallHead
    <3>4. liquidity' >= liquidity /\ liquidity' + debt' >= liquidity + debt
      <4>1. liquidity' \in Nat /\ liquidity' >= liquidity BY <1>1, <3>3
      <4> QED BY <1>1, <3>2, <4>1, SumGrows
    <3>5. Resting BY <2>1, <3>2, <3>3, <3>4 DEF Resting
    <3> QED BY <3>5 DEF Kinds
  <2>5. CASE FillHead(f)
    <3> DEFINE c == FillShares(f)
               x == FillAssets(f)
    <3>1. /\ head \in DOMAIN queue /\ ~Frozen(queue[head].owner) /\ c > 0
          /\ Pay(Escrow, x, c) /\ queuedShares' = queuedShares - c
          /\ AccrueIf(TRUE, f)
      BY <2>5 DEF FillHead, Affordable
    <3>2. queue[head].shares \in Nat BY <3>1 DEF ShareInv, QueueType, Request
    <3>3. c \in Nat
      <4>1. SharesFor(liquidity, f) \in Nat BY <1>1, PricingNat
      <4> QED BY <3>2, <4>1 DEF FillShares, Lesser
    <3>4. /\ x \in Nat /\ x * VirtualSupply <= c * VirtualAssets(f)
      <4>1. VirtualAssets(f) \in Nat \ {0} /\ VirtualSupply \in Nat \ {0}
        BY PricingNat
      <4>2. c * VirtualAssets(f) \in Nat BY <3>3, <4>1, MulMono
      <4> HIDE DEF c
      <4> QED BY <4>1, <4>2, FloorDivBounds DEF FillAssets, AssetsFor, c
    <3>5. Charged(f) BY <3>1, AccrueEffect
    <3>6. \A k \in DOMAIN queue \ {head} : k \in DOMAIN queue' /\ queue'[k] = queue[k]
      <4>1. CASE c < queue[head].shares
        <5>1. queue' = [queue EXCEPT ![head].shares = @ - FillShares(f)]
          BY <2>5, <4>1 DEF FillHead
        <5> HIDE DEF c
        <5> QED BY <5>1
      <4>2. CASE ~(c < queue[head].shares)
        <5>1. queue' = Without(head) BY <2>5, <4>2 DEF FillHead
        <5> QED BY <5>1 DEF Without
      <4> QED BY <4>1, <4>2
    <3> HIDE DEF c, x
    <3>7. Filling(f, x, c)
      BY <2>1, <3>1, <3>4, <3>5, <3>6 DEF Filling, Paying, Pay
    <3> QED BY <3>3, <3>4, <3>7 DEF Kinds
  <2> QED BY <1>3, <2>2, <2>3, <2>4, <2>5 DEF ProcessQueue
<1> QED BY <1>2, <1>3 DEF QueueNext

\* Every step of the contract is of one of the kinds.
LEMMA StepKinds ==
  ASSUME Inv, [Next]_vars
  PROVE  Kinds
<1>1. TypeOK /\ ShareInv BY InvParts
<1>2. liquidity \in Nat /\ debt \in Nat BY <1>1 DEF TypeOK
<1>3. CASE DepositorNext BY <1>1, <1>3, DepositorKinds
<1>4. CASE TreasuryNext BY <1>1, <1>4, TreasuryKinds
<1>5. CASE QueueNext BY <1>1, <1>5, QueueKinds
<1>6. CASE WriteOffNext
  <2>1. UNCHANGED <<shareVars, queueVars, lockVars, liquidity>> /\ lastAccrual' = now
    BY <1>6 DEF WriteOffNext, WriteOff, ChargeInterest
  <2>2. Resting BY <1>2, <1>6, <2>1 DEF Resting, queueVars, lockVars
  <2> QED BY <2>2 DEF Kinds
<1>7. CASE ComplianceNext
  <2>1. UNCHANGED <<shareVars, queueVars, lockVars, liquidity, debtVars>>
    BY <1>7 DEF ComplianceNext, AllowDepositor, DisallowDepositor, FreezeDepositor,
       ExtendExitDeadline, SetDeadline
  <2>2. Resting BY <1>2, <2>1 DEF Resting, queueVars, lockVars, debtVars
  <2> QED BY <2>2 DEF Kinds
<1>8. CASE OwnerNext
  <2>1. UNCHANGED Configured
    BY <1>8 DEF OwnerNext, SetMaxDeposit, SetMaxWithdraw, SetMinQueueAssets,
       SetLockPeriod, SetWithdrawGracePeriod, SetAllowlistEnforced, Pause, Unpause
  <2>2. Resting BY <1>2, <2>1 DEF Configured, Resting, queueVars, debtVars
  <2> QED BY <2>2 DEF Kinds
<1>9. CASE EnvNext
  <2>1. /\ UNCHANGED <<shareVars, queueVars, lockVars, debtVars>>
        /\ liquidity' = liquidity \/ \E a \in Donations : liquidity' = liquidity + a
    BY <1>9 DEF EnvNext, Tick, Donate, SetReachable
  <2>2. liquidity' \in Nat /\ liquidity' >= liquidity
    BY <1>2, <2>1, VaultAssumption
  <2>3. debt' = debt BY <2>1 DEF debtVars
  <2>4. liquidity' + debt' >= liquidity + debt
    <3>1. debt' \in Nat /\ debt' >= debt BY <1>2, <2>3
    <3> QED BY <1>2, <2>2, <3>1, SumGrows
  <2>5. Resting BY <2>1, <2>2, <2>3, <2>4 DEF Resting, queueVars, lockVars
  <2> QED BY <2>5 DEF Kinds
<1>10. CASE UNCHANGED vars
  <2>1. Resting BY <1>2, <1>10 DEF vars, Resting, queueVars, lockVars, debtVars
  <2> QED BY <2>1 DEF Kinds
<1> QED BY <1>3, <1>4, <1>5, <1>6, <1>7, <1>8, <1>9, <1>10 DEF Next

-----------------------------------------------------------------------------
(* What no call may do *)

\* Giving x for at most the shares q it is worth never dilutes the others.
LEMMA PriceIn ==
  ASSUME NEW a \in Nat, NEW b \in Nat, NEW x \in Nat, NEW q \in Nat, NEW s \in Nat,
         a <= b, q * b <= x * s
  PROVE  (b + x) * s >= a * (s + q)
<1>1. (b + x) * s = b * s + x * s /\ b * (s + q) = b * s + q * b OBVIOUS
<1>2. a * (s + q) <= b * (s + q)
  <2>1. s + q \in Nat OBVIOUS
  <2> QED BY <2>1, MulMono
<1>3. b * s \in Nat /\ x * s \in Nat /\ q * b \in Nat /\ a * (s + q) \in Nat
  <2>1. s + q \in Nat OBVIOUS
  <2> QED BY <2>1, MulMono
<1> QED BY <1>1, <1>2, <1>3

\* Paying x for at least the shares c it is worth never dilutes the others.
LEMMA PriceOut ==
  ASSUME NEW a \in Nat, NEW b \in Nat, NEW x \in Nat, NEW c \in Nat, NEW s \in Nat,
         a <= b, c <= s, x * s <= c * b
  PROVE  (b - x) * s >= a * (s - c)
<1>1. (b - x) * s = b * s - x * s /\ b * (s - c) = b * s - c * b OBVIOUS
<1>2. a * (s - c) <= b * (s - c) /\ a * (s - c) \in Nat
  <2>1. s - c \in Nat OBVIOUS
  <2> QED BY <2>1, MulMono
<1>3. b * s \in Nat /\ x * s \in Nat /\ c * b \in Nat BY MulMono
<1> QED BY <1>1, <1>2, <1>3

\* A payment: the assets after it are what was there less what left.
LEMMA PayingPrice ==
  ASSUME Inv, NEW f \in Factors, NEW h \in Holders, NEW x \in Nat, NEW c \in Nat,
         Paying(f, h, x, c)
  PROVE  (liquidity' + debt' + 1) * (supply + VirtualShares)
           >= (liquidity + debt + 1) * (supply' + VirtualShares)
<1> DEFINE a == liquidity + debt + 1
           b == VirtualAssets(f)
           s == VirtualSupply
<1>1. TypeOK /\ ShareInv BY InvParts
<1>2. liquidity \in Nat /\ debt \in Nat /\ supply \in Nat /\ balance \in [Holders -> Nat]
      /\ VirtualShares \in Nat
  BY <1>1, VaultAssumption DEF TypeOK
<1>3. AccruedDebt(f) \in Nat /\ AccruedDebt(f) >= debt BY <1>1, PricingNat, DebtGrows
<1>4. balance[h] <= supply BY <1>1, <1>2, PartOfTotal DEF ShareInv, Accounts
<1>5. /\ c <= balance[h] /\ supply' = supply - c /\ liquidity' = liquidity - x
      /\ x <= liquidity /\ x * s <= c * b
      /\ Charged(f) \/ (debt' = debt /\ x = 0 /\ c = 0)
  BY DEF Paying
<1>6. s = supply + VirtualShares BY DEF VirtualSupply
<1>7. b = liquidity + AccruedDebt(f) + 1 BY DEF VirtualAssets
<1>8. a \in Nat /\ b \in Nat /\ s \in Nat /\ a <= b /\ c <= s
  <2>1. balance[h] \in Nat BY <1>2
  <2> HIDE DEF s, b
  <2> QED BY <1>2, <1>3, <1>4, <1>5, <1>6, <1>7, <2>1
<1>9. supply' + VirtualShares = s - c BY <1>2, <1>5, <1>6
<1>10. CASE debt' = AccruedDebt(f)
  <2>1. liquidity' + debt' + 1 = b - x BY <1>2, <1>3, <1>5, <1>7, <1>10
  <2> HIDE DEF a, b, s
  <2>2. (b - x) * s >= a * (s - c) BY <1>5, <1>8, PriceOut
  <2> QED BY <1>6, <1>9, <2>1, <2>2 DEF a
<1>11. CASE debt' = debt /\ x = 0 /\ c = 0
  <2>1. liquidity' = liquidity /\ supply' = supply BY <1>2, <1>5, <1>11
  <2>2. a * s >= a * s
    <3> HIDE DEF a, s
    <3> QED BY <1>8
  <2> QED BY <1>6, <1>11, <2>1, <2>2
<1> QED BY <1>5, <1>10, <1>11 DEF Charged

\* Assets that do not shrink, over the same supply.
LEMMA PriceKept ==
  ASSUME NEW l \in Nat, NEW d \in Nat, NEW k \in Nat, NEW e \in Nat, NEW s \in Nat,
         k + e >= l + d
  PROVE  (k + e + 1) * s >= (l + d + 1) * s
<1> DEFINE a == l + d + 1
           b == k + e + 1
<1>1. a \in Nat /\ b \in Nat /\ a <= b OBVIOUS
<1> HIDE DEF a, b
<1>2. a * s <= b * s /\ a * s \in Nat /\ b * s \in Nat BY <1>1, MulMono
<1> QED BY <1>2 DEF a, b

\* Calls that leave the supply alone and the assets no lower.
LEMMA RestingPrice ==
  ASSUME Inv, supply' = supply, liquidity' \in Nat, debt' \in Nat,
         liquidity' + debt' >= liquidity + debt
  PROVE  (liquidity' + debt' + 1) * (supply + VirtualShares)
           >= (liquidity + debt + 1) * (supply' + VirtualShares)
<1>1. liquidity \in Nat /\ debt \in Nat /\ supply + VirtualShares \in Nat
  BY VaultAssumption DEF Inv, TypeOK
<1>2. (liquidity' + debt' + 1) * (supply + VirtualShares)
        >= (liquidity + debt + 1) * (supply + VirtualShares)
  BY <1>1, PriceKept
<1> QED BY <1>2

\* The price of a share never falls, a write-off aside.
LEMMA PriceStep ==
  ASSUME Inv, [Next]_vars, ~WriteOffNext
  PROVE  (liquidity' + debt' + 1) * (supply + VirtualShares)
           >= (liquidity + debt + 1) * (supply' + VirtualShares)
<1>1. Kinds BY StepKinds
<1>2. Inv' BY NextInv
<1>3. liquidity' \in Nat /\ debt' \in Nat BY <1>2 DEF Inv, TypeOK
<1>4. ASSUME NEW f \in Factors, NEW to \in Users, NEW x \in Nat, NEW q \in Nat,
             Entering(f, to, x, q)
      PROVE  (liquidity' + debt' + 1) * (supply + VirtualShares)
               >= (liquidity + debt + 1) * (supply' + VirtualShares)
  <2> DEFINE a == liquidity + debt + 1
             b == VirtualAssets(f)
             s == VirtualSupply
  <2>1. TypeOK BY InvParts
  <2>2. liquidity \in Nat /\ debt \in Nat /\ supply \in Nat /\ VirtualShares \in Nat
    BY <2>1, VaultAssumption DEF TypeOK
  <2>3. AccruedDebt(f) \in Nat /\ AccruedDebt(f) >= debt BY <2>1, PricingNat, DebtGrows
  <2>4. /\ supply' = supply + q /\ liquidity' = liquidity + x /\ q * b <= x * s
        /\ Charged(f) \/ (debt' = debt /\ x = 0 /\ q = 0)
    BY <1>4 DEF Entering
  <2>5. s = supply + VirtualShares BY DEF VirtualSupply
  <2>6. b = liquidity + AccruedDebt(f) + 1 BY DEF VirtualAssets
  <2>7. a \in Nat /\ b \in Nat /\ s \in Nat /\ a <= b
    <3> HIDE DEF s, b
    <3> QED BY <2>2, <2>3, <2>5, <2>6
  <2>8. supply' + VirtualShares = s + q BY <2>2, <2>4, <2>5
  <2>9. CASE debt' = AccruedDebt(f)
    <3>1. liquidity' + debt' + 1 = b + x BY <2>2, <2>3, <2>4, <2>6, <2>9
    <3> HIDE DEF a, b, s
    <3>2. (b + x) * s >= a * (s + q) BY <2>4, <2>7, PriceIn
    <3> QED BY <2>5, <2>8, <3>1, <3>2 DEF a
  <2>10. CASE debt' = debt /\ x = 0 /\ q = 0
    <3>1. liquidity' = liquidity /\ supply' = supply BY <2>2, <2>4, <2>10
    <3>2. a * s >= a * s
      <4> HIDE DEF a, s
      <4> QED BY <2>7
    <3> QED BY <2>5, <2>10, <3>1, <3>2
  <2> QED BY <2>4, <2>9, <2>10 DEF Charged
<1>5. CASE \E f \in Factors, u \in Users, x, c \in Nat : Leaving(f, u, x, c)
  BY <1>5, PayingPrice DEF Leaving, Holders
<1>6. CASE \E f \in Factors, x, c \in Nat : Filling(f, x, c)
  BY <1>6, PayingPrice DEF Filling, Holders
<1>7. CASE Borrowing BY <1>3, <1>7, RestingPrice DEF Borrowing, shareVars
<1>8. CASE \E u \in Users, to \in Holders, s \in Nat : Moving(u, to, s)
  <2>1. supply' = supply /\ liquidity' = liquidity /\ debt' >= debt
    BY <1>3, <1>8 DEF Moving
  <2>2. liquidity \in Nat /\ debt \in Nat BY DEF Inv, TypeOK
  <2>3. liquidity' >= liquidity BY <1>3, <2>1
  <2>4. liquidity' + debt' >= liquidity + debt BY <1>3, <2>1, <2>2, <2>3, SumGrows
  <2> QED BY <1>3, <2>1, <2>4, RestingPrice
<1>9. CASE \E id \in DOMAIN queue : Releasing(id)
  <2>1. supply' = supply /\ liquidity' = liquidity /\ debt' = debt
    BY <1>9 DEF Releasing
  <2>2. liquidity' + debt' >= liquidity + debt
    <3>1. liquidity' >= liquidity /\ debt' >= debt BY <1>3, <2>1
    <3> QED BY <1>3, <2>1, <3>1, SumGrows
  <2> QED BY <1>3, <2>1, <2>2, RestingPrice
<1>10. CASE Resting BY <1>3, <1>10, RestingPrice DEF Resting, shareVars
<1> QED BY <1>1, <1>4, <1>5, <1>6, <1>7, <1>8, <1>9, <1>10 DEF Kinds

\* Every entry, exit and queue fill rounds in the vault's favour and interest
\* only adds, so nothing but write_off lowers what a share is worth.
THEOREM PriceHolds == Spec => SharePriceHolds
<1>1. Inv /\ [Next]_vars =>
        [~WriteOffNext =>
          (liquidity' + debt' + 1) * (supply + VirtualShares)
            >= (liquidity + debt + 1) * (supply' + VirtualShares)]_vars
  BY PriceStep
<1> QED BY <1>1, InvHolds, PTL DEF Spec, SharePriceHolds

\* Interest due is charged before anything is computed from it.
LEMMA ChargedStep ==
  ASSUME Inv, [Next]_vars, liquidity' < liquidity \/ debt' # debt \/ supply' # supply
  PROVE  lastAccrual' = now
<1>1. Kinds BY StepKinds
<1>2. liquidity \in Nat /\ supply \in Nat /\ debt \in Nat /\ balance \in [Holders -> Nat]
  BY DEF Inv, TypeOK
<1>3. liquidity' \in Nat BY NextInv DEF Inv, TypeOK
<1>4. ASSUME NEW f \in Factors, NEW to \in Users, NEW x \in Nat, NEW q \in Nat,
             Entering(f, to, x, q)
      PROVE  lastAccrual' = now
  <2>1. CASE Charged(f) BY <2>1 DEF Charged
  <2>2. CASE debt' = debt /\ x = 0 /\ q = 0
    <3>1. liquidity' = liquidity /\ supply' = supply BY <1>2, <1>4, <2>2 DEF Entering
    <3> QED BY <1>2, <2>2, <3>1
  <2> QED BY <1>4, <2>1, <2>2 DEF Entering
<1>5. ASSUME NEW f \in Factors, NEW h \in Holders, NEW x \in Nat, NEW c \in Nat,
             Paying(f, h, x, c)
      PROVE  lastAccrual' = now
  <2>1. CASE Charged(f) BY <2>1 DEF Charged
  <2>2. CASE debt' = debt /\ x = 0 /\ c = 0
    <3>1. liquidity' = liquidity /\ supply' = supply BY <1>2, <1>5, <2>2 DEF Paying
    <3> QED BY <1>2, <2>2, <3>1
  <2> QED BY <1>5, <2>1, <2>2 DEF Paying
<1>6. CASE \E f \in Factors, u \in Users, x, c \in Nat : Leaving(f, u, x, c)
  BY <1>5, <1>6 DEF Leaving, Holders
<1>7. CASE \E f \in Factors, x, c \in Nat : Filling(f, x, c)
  BY <1>5, <1>7 DEF Filling, Holders
<1>8. CASE Borrowing BY <1>8 DEF Borrowing
<1>9. CASE \E u \in Users, to \in Holders, s \in Nat : Moving(u, to, s)
  BY <1>2, <1>9 DEF Moving
<1>10. CASE \E id \in DOMAIN queue : Releasing(id) BY <1>2, <1>10 DEF Releasing
<1>11. CASE Resting
  <2>1. supply' = supply BY <1>11 DEF Resting, shareVars
  <2>2. ~(liquidity' < liquidity) BY <1>2, <1>3, <1>11 DEF Resting
  <2>3. debt' = debt \/ lastAccrual' = now BY <1>11 DEF Resting
  <2> QED BY <2>1, <2>2, <2>3
<1> QED BY <1>1, <1>4, <1>6, <1>7, <1>8, <1>9, <1>10, <1>11 DEF Kinds

\* Whoever is paid burns shares for it, a borrower aside.
LEMMA PayingBurns ==
  ASSUME Inv, NEW f \in Factors, NEW h \in Holders, NEW x \in Nat, NEW c \in Nat,
         Paying(f, h, x, c), liquidity' < liquidity
  PROVE  supply' < supply /\ c > 0
<1>1. /\ VirtualAssets(f) \in Nat \ {0} /\ VirtualSupply \in Nat \ {0}
  BY PricingNat DEF Inv
<1>2. liquidity \in Nat /\ supply \in Nat BY DEF Inv, TypeOK
<1>3. /\ supply' = supply - c /\ liquidity' = liquidity - x
      /\ x * VirtualSupply <= c * VirtualAssets(f)
  BY DEF Paying
<1>4. x > 0 BY <1>2, <1>3
<1>5. c # 0
  <2>1. SUFFICES ASSUME c = 0 PROVE FALSE OBVIOUS
  <2>2. x * VirtualSupply <= 0 BY <1>1, <1>3, <2>1
  <2>3. x * VirtualSupply > 0 BY <1>1, <1>4
  <2>4. x * VirtualSupply \in Nat BY <1>1, MulMono
  <2> QED BY <2>2, <2>3, <2>4
<1> QED BY <1>2, <1>3, <1>5

\* A payment that burns no shares is a borrow.
LEMMA CapStep ==
  ASSUME Inv, [Next]_vars, liquidity' < liquidity, supply' = supply
  PROVE  CapScale * debt' < (Cap + 1) * (liquidity' + debt')
<1>1. Kinds BY StepKinds
<1>2. liquidity \in Nat /\ supply \in Nat BY DEF Inv, TypeOK
<1>3. liquidity' \in Nat BY NextInv DEF Inv, TypeOK
<1>4. ~(supply' < supply) BY <1>2
<1>5. CASE \E f \in Factors, to \in Users, x, q \in Nat : Entering(f, to, x, q)
  BY <1>2, <1>5 DEF Entering
<1>6. CASE \E f \in Factors, u \in Users, x, c \in Nat : Leaving(f, u, x, c)
  BY <1>4, <1>6, PayingBurns DEF Leaving, Holders
<1>7. CASE \E f \in Factors, x, c \in Nat : Filling(f, x, c)
  BY <1>4, <1>7, PayingBurns DEF Filling, Holders
<1>8. CASE Borrowing BY <1>8 DEF Borrowing
<1>9. CASE \E u \in Users, to \in Holders, s \in Nat : Moving(u, to, s)
  BY <1>2, <1>9 DEF Moving
<1>10. CASE \E id \in DOMAIN queue : Releasing(id) BY <1>2, <1>10 DEF Releasing
<1>11. CASE Resting BY <1>2, <1>3, <1>11 DEF Resting
<1> QED BY <1>1, <1>5, <1>6, <1>7, <1>8, <1>9, <1>10, <1>11 DEF Kinds

\* Lending goes by the books of its own second and stays under the cap, for
\* every cap, factor and amount (borrow, check_borrow_liquidity).
THEOREM LendingKeepsOrder == Spec => LendsInOrder
<1>1. Inv /\ [Next]_vars =>
        [liquidity' < liquidity \/ debt' # debt \/ supply' # supply
           => lastAccrual' = now]_vars
  BY ChargedStep
<1>2. Inv /\ [Next]_vars =>
        [liquidity' < liquidity /\ supply' = supply
           => CapScale * debt' < (Cap + 1) * (liquidity' + debt')]_vars
  BY CapStep
<1> QED BY <1>1, <1>2, InvHolds, PTL
        DEF Spec, LendsInOrder, InterestChargedFirst, BorrowWithinCap

-----------------------------------------------------------------------------
\* While requests are open only a fill pays, and it takes from the queue.
LEMMA QueueStep ==
  ASSUME Inv, [Next]_vars, queuedShares > 0, liquidity' < liquidity
  PROVE  queuedShares' < queuedShares
<1>1. Kinds BY StepKinds
<1>2. liquidity \in Nat /\ queuedShares \in Nat BY DEF Inv, TypeOK
<1>3. liquidity' \in Nat BY NextInv DEF Inv, TypeOK
<1>4. ~QueueEmpty BY <1>2 DEF QueueEmpty
<1>5. CASE \E f \in Factors, to \in Users, x, q \in Nat : Entering(f, to, x, q)
  BY <1>2, <1>5 DEF Entering
<1>6. CASE \E f \in Factors, u \in Users, x, c \in Nat : Leaving(f, u, x, c)
  BY <1>4, <1>6 DEF Leaving
<1>7. CASE \E f \in Factors, x, c \in Nat : Filling(f, x, c)
  BY <1>2, <1>7 DEF Filling
<1>8. CASE Borrowing BY <1>4, <1>8 DEF Borrowing
<1>9. CASE \E u \in Users, to \in Holders, s \in Nat : Moving(u, to, s)
  BY <1>2, <1>9 DEF Moving
<1>10. CASE \E id \in DOMAIN queue : Releasing(id) BY <1>2, <1>10 DEF Releasing
<1>11. CASE Resting BY <1>2, <1>3, <1>11 DEF Resting
<1> QED BY <1>1, <1>5, <1>6, <1>7, <1>8, <1>9, <1>10, <1>11 DEF Kinds

\* Shares are burned out of the request at the head only, and none is older.
LEMMA FifoStep ==
  ASSUME Inv, [Next]_vars, NEW j \in DOMAIN queue, NEW k \in DOMAIN queue,
         j < k, supply' < supply,
         k \in DOMAIN queue' => queue'[k].shares < queue[k].shares
  PROVE  j \notin DOMAIN queue'
<1>1. Kinds BY StepKinds
<1>2. /\ supply \in Nat /\ queue \in [DOMAIN queue -> Request]
      /\ DOMAIN queue \subseteq head..(tail - 1) /\ head \in Nat /\ tail \in Nat
  BY DEF Inv, TypeOK, Window
<1>3. j \in Nat /\ k \in Nat /\ j >= head /\ k # head BY <1>2
<1>4. ~(queue[k].shares < queue[k].shares) BY <1>2 DEF Request
<1>5. queue' # queue BY <1>4
<1>6. CASE \E f \in Factors, to \in Users, x, q \in Nat : Entering(f, to, x, q)
  BY <1>5, <1>6 DEF Entering, queueVars
<1>7. CASE \E f \in Factors, u \in Users, x, c \in Nat : Leaving(f, u, x, c)
  BY <1>5, <1>7 DEF Leaving, queueVars
<1>8. CASE \E f \in Factors, x, c \in Nat : Filling(f, x, c)
  BY <1>3, <1>4, <1>8 DEF Filling
<1>9. CASE Borrowing BY <1>5, <1>9 DEF Borrowing, queueVars
<1>10. CASE \E u \in Users, to \in Holders, s \in Nat : Moving(u, to, s)
  BY <1>4, <1>10 DEF Moving
<1>11. CASE \E id \in DOMAIN queue : Releasing(id) BY <1>2, <1>11 DEF Releasing
<1>12. CASE Resting BY <1>5, <1>12 DEF Resting
<1> QED BY <1>1, <1>6, <1>7, <1>8, <1>9, <1>10, <1>11, <1>12 DEF Kinds

\* Idle USDC goes to the queue before anyone else, and in it to the oldest
\* request, whatever was cancelled or partly filled before (withdraw, redeem,
\* borrow, process_queue).
THEOREM QueueKeepsOrder == Spec => ServedInOrder
<1>1. Inv /\ [Next]_vars =>
        [queuedShares > 0 /\ liquidity' < liquidity
           => queuedShares' < queuedShares]_vars
  BY QueueStep
<1>2. Inv /\ [Next]_vars =>
        [\A j, k \in DOMAIN queue :
           /\ j < k /\ supply' < supply
           /\ k \in DOMAIN queue' => queue'[k].shares < queue[k].shares
           => j \notin DOMAIN queue']_vars
  BY FifoStep
<1> QED BY <1>1, <1>2, InvHolds, PTL
        DEF Spec, ServedInOrder, QueueGoesFirst, FirstInFirstOut

-----------------------------------------------------------------------------
\* Closing a request brings its shares home.
LEMMA ReleaseHome ==
  ASSUME Inv, NEW id \in DOMAIN queue, Release(id), NEW u \in Users
  PROVE  balance'[u] = IF u = queue[id].owner THEN balance[u] + queue[id].shares
                       ELSE balance[u]
<1>1. ShareInv /\ queue[id] \in Request BY InvParts DEF Inv, TypeOK
<1>2. queue[id].owner \in Users /\ queue[id].shares \in Nat BY <1>1 DEF Request
<1>3. queue[id].owner \in Holders /\ Escrow \in Holders /\ u \in Holders \ {Escrow}
  BY <1>2, VaultAssumption DEF Holders
<1>4. queue[id].shares <= balance[Escrow]
      /\ balance' = Moved(Escrow, queue[id].owner, queue[id].shares)
  BY DEF Release
<1> QED BY <1>1, <1>2, <1>3, <1>4, MovedShares

\* Shares leave a depositor's balance only by its own exit.
LEMMA OwnExitOnly ==
  ASSUME Inv, [Next]_vars, NEW u \in Users, ~CanExit(u)
  PROVE  balance'[u] >= balance[u]
<1>1. Kinds BY StepKinds
<1>2. balance \in [Holders -> Nat] /\ u \in Holders /\ u # Escrow /\ Escrow \in Holders
  BY VaultAssumption DEF Inv, TypeOK, Holders
<1>3. balance[u] \in Nat /\ balance[u] >= balance[u] BY <1>2
<1>4. ASSUME NEW f \in Factors, NEW to \in Users, NEW x \in Nat, NEW q \in Nat,
             Entering(f, to, x, q)
      PROVE  balance'[u] >= balance[u]
  <2>1. balance' = [balance EXCEPT ![to] = balance[to] + q] BY <1>4 DEF Entering
  <2>2. balance'[u] = IF u = to THEN balance[to] + q ELSE balance[u] BY <1>2, <2>1
  <2> QED BY <1>3, <2>2
<1>5. CASE \E f \in Factors, o \in Users, x, c \in Nat : Leaving(f, o, x, c)
  <2>1. PICK f \in Factors, o \in Users, x \in Nat, c \in Nat : Leaving(f, o, x, c)
    BY <1>5
  <2>2. o # u /\ balance' = [balance EXCEPT ![o] = balance[o] - c]
    BY <2>1 DEF Leaving, Paying
  <2>3. balance'[u] = balance[u] BY <1>2, <2>2
  <2> QED BY <1>3, <2>3
<1>6. CASE \E f \in Factors, x, c \in Nat : Filling(f, x, c)
  <2>1. PICK c \in Nat : balance' = [balance EXCEPT ![Escrow] = balance[Escrow] - c]
    BY <1>6 DEF Filling, Paying
  <2>2. balance'[u] = balance[u] BY <1>2, <2>1
  <2> QED BY <1>3, <2>2
<1>7. CASE Borrowing BY <1>3, <1>7 DEF Borrowing, shareVars
<1>8. CASE \E o \in Users, to \in Holders, s \in Nat : Moving(o, to, s)
  <2>1. PICK o \in Users, to \in Holders, s \in Nat : Moving(o, to, s) BY <1>8
  <2>2. o # u /\ s <= balance[o] /\ balance' = Moved(o, to, s) BY <2>1 DEF Moving
  <2>3. o \in Holders /\ u \in Holders \ {o} /\ ShareInv BY <1>2, <2>2, InvParts DEF Holders
  <2>4. balance'[u] = IF u = to THEN balance[u] + s ELSE balance[u]
    BY <2>2, <2>3, MovedShares
  <2> QED BY <1>3, <2>4
<1>9. CASE \E id \in DOMAIN queue : Releasing(id)
  <2>1. PICK id \in DOMAIN queue : Release(id) BY <1>9 DEF Releasing
  <2>2. queue[id].shares \in Nat BY DEF Inv, TypeOK, Request
  <2>3. balance'[u] = IF u = queue[id].owner THEN balance[u] + queue[id].shares
                      ELSE balance[u]
    BY <2>1, ReleaseHome
  <2> QED BY <1>3, <2>2, <2>3
<1>10. CASE Resting BY <1>3, <1>10 DEF Resting, shareVars
<1> QED BY <1>1, <1>4, <1>5, <1>6, <1>7, <1>8, <1>9, <1>10 DEF Kinds

\* A request of a frozen owner stays as it is or brings its shares home.
LEMMA FrozenRequest ==
  ASSUME Inv, [Next]_vars, NEW u \in Users, Frozen(u),
         NEW id \in DOMAIN queue, queue[id].owner = u
  PROVE  \/ id \in DOMAIN queue' /\ queue'[id] = queue[id]
         \/ balance'[u] >= balance[u] + queue[id].shares
<1>1. Kinds BY StepKinds
<1>2. balance[u] \in Nat /\ queue[id].shares \in Nat
  BY DEF Inv, TypeOK, Holders, Request
<1>3. CASE \E f \in Factors, to \in Users, x, q \in Nat : Entering(f, to, x, q)
  BY <1>3 DEF Entering, queueVars
<1>4. CASE \E f \in Factors, o \in Users, x, c \in Nat : Leaving(f, o, x, c)
  BY <1>4 DEF Leaving, queueVars
<1>5. CASE \E f \in Factors, x, c \in Nat : Filling(f, x, c)
  <2>1. id # head BY <1>5 DEF Filling
  <2> QED BY <1>5, <2>1 DEF Filling
<1>6. CASE Borrowing BY <1>6 DEF Borrowing, queueVars
<1>7. CASE \E o \in Users, to \in Holders, s \in Nat : Moving(o, to, s)
  BY <1>7 DEF Moving
<1>8. CASE \E i \in DOMAIN queue : Releasing(i)
  <2>1. PICK i \in DOMAIN queue : Release(i) BY <1>8 DEF Releasing
  <2>2. CASE i = id
    <3>1. balance'[u] = balance[u] + queue[id].shares BY <2>1, <2>2, ReleaseHome
    <3> QED BY <1>2, <3>1
  <2>3. CASE i # id BY <2>1, <2>3 DEF Release, Without
  <2> QED BY <2>2, <2>3
<1>9. CASE Resting BY <1>9 DEF Resting
<1> QED BY <1>1, <1>3, <1>4, <1>5, <1>6, <1>7, <1>8, <1>9 DEF Kinds

\* Whatever calls others make, a frozen depositor's shares and requests are
\* neither burned nor moved, and a returned request comes back whole
\* (is_frozen in withdraw, redeem, request_redeem and process_queue).
THEOREM FrozenStaysUnpaid == Spec => FrozenNeverPaid
<1>1. Inv /\ [Next]_vars =>
        [\A u \in Users : Frozen(u) =>
           /\ balance'[u] >= balance[u]
           /\ \A id \in DOMAIN queue : queue[id].owner = u =>
                \/ id \in DOMAIN queue' /\ queue'[id] = queue[id]
                \/ balance'[u] >= balance[u] + queue[id].shares]_vars
  BY OwnExitOnly, FrozenRequest DEF CanExit
<1> QED BY <1>1, InvHolds, PTL DEF Spec, FrozenNeverPaid

\* Entering under a shorter lock period keeps the longer of the two ends.
LEMMA UnlockStep ==
  ASSUME Inv, [Next]_vars, NEW u \in Users
  PROVE  unlock'[u] >= unlock[u]
<1>1. Kinds BY StepKinds
<1>2. unlock \in [Users -> Nat] /\ now \in Nat /\ lockPeriod \in Nat BY DEF Inv, TypeOK
<1>3. unlock[u] \in Nat /\ unlock[u] >= unlock[u] BY <1>2
<1>4. ASSUME NEW to \in Users, Relock(to) PROVE unlock'[u] >= unlock[u]
  <2> DEFINE end == Later(unlock[to], now + lockPeriod)
  <2>1. unlock[to] \in Nat /\ now + lockPeriod \in Nat BY <1>2
  <2>2. end \in Nat /\ end >= unlock[to] BY <2>1 DEF Later
  <2>3. unlock' = unlock \/ unlock' = [unlock EXCEPT ![to] = end] BY <1>4 DEF Relock
  <2> HIDE DEF end
  <2>4. unlock'[u] = unlock[u] \/ (u = to /\ unlock'[u] = end) BY <1>2, <2>3
  <2> QED BY <1>3, <2>2, <2>4
<1>5. CASE \E f \in Factors, to \in Users, x, q \in Nat : Entering(f, to, x, q)
  BY <1>4, <1>5 DEF Entering
<1>6. CASE ~(\E f \in Factors, to \in Users, x, q \in Nat : Entering(f, to, x, q))
  <2>1. unlock' = unlock
    BY <1>1, <1>6 DEF Kinds, Leaving, Filling, Paying, Borrowing, Moving, Releasing, Resting
  <2> QED BY <1>3, <2>1
<1> QED BY <1>5, <1>6

\* No path takes locked shares out: transfer, withdraw, redeem and the queue
\* all refuse, and no later deposit brings the end of a lock forward.
THEOREM LocksAlwaysHold == Spec => LocksHold
<1>1. ASSUME NEW u, Locked(u), ~InGrace(u) PROVE ~CanExit(u)
  BY <1>1 DEF CanExit
<1>2. Inv /\ [Next]_vars =>
        [\A u \in Users : Locked(u) /\ ~InGrace(u) => balance'[u] >= balance[u]]_vars
  BY <1>1, OwnExitOnly
<1>3. Inv /\ [Next]_vars => [\A u \in Users : unlock'[u] >= unlock[u]]_vars
  BY UnlockStep
<1> QED BY <1>2, <1>3, InvHolds, PTL
        DEF Spec, LocksHold, LockedSharesStay, LockNeverShortened

-----------------------------------------------------------------------------
(* The quotes *)

\* The ceiled quotient is the least integer whose product reaches the dividend
\* (what a charge rounded up is at most).
LEMMA CeilAtMost ==
  ASSUME NEW x \in Nat, NEW y \in Nat \ {0}, NEW k \in Nat, x <= k * y
  PROVE  CeilDiv(x, y) <= k
<1> DEFINE q == CeilDiv(x, y)
<1>1. q \in Nat /\ q * y < x + y BY CeilDivBounds
<1> HIDE DEF q
<1>2. q * y < (k + 1) * y BY <1>1
<1>3. q < k + 1 BY <1>2, <1>1, MulCancel
<1> QED BY <1>3, <1>1 DEF q

\* Pricing there and back again never gains: what a quote in assets comes to in
\* shares, and a quote in shares in assets, stays within what it was made from.
LEMMA ThereAndBack ==
  ASSUME TypeOK, NEW f \in Factors, NEW m \in Nat
  PROVE  /\ \A a \in Nat : a <= AssetsFor(m, f) => SharesForCeil(a, f) <= m
         /\ \A s \in Nat : s <= SharesFor(m, f) =>
              AssetsFor(s, f) <= m /\ AssetsForCeil(s, f) <= m
<1> DEFINE b == VirtualAssets(f)
           v == VirtualSupply
<1>1. b \in Nat \ {0} /\ v \in Nat \ {0} BY PricingNat
<1> HIDE DEF b, v
<1>2. m * b \in Nat /\ m * v \in Nat BY <1>1, MulMono
<1>3. ASSUME NEW a \in Nat, a <= AssetsFor(m, f) PROVE SharesForCeil(a, f) <= m
  <2> DEFINE q == FloorDiv(m * b, v)
  <2>1. q \in Nat /\ q * v <= m * b BY <1>1, <1>2, FloorDivBounds
  <2>2. a <= q BY <1>3 DEF AssetsFor, b, v
  <2> HIDE DEF q
  <2>3. a * v <= q * v /\ a * v \in Nat /\ q * v \in Nat BY <1>1, <2>1, <2>2, MulMono
  <2>4. a * v <= m * b BY <1>2, <2>1, <2>3
  <2>5. CeilDiv(a * v, b) <= m BY <1>1, <2>3, <2>4, CeilAtMost
  <2> QED BY <2>5 DEF SharesForCeil, b, v
<1>4. ASSUME NEW s \in Nat, s <= SharesFor(m, f)
      PROVE  AssetsFor(s, f) <= m /\ AssetsForCeil(s, f) <= m
  <2> DEFINE q == FloorDiv(m * v, b)
             p == FloorDiv(s * b, v)
  <2>1. q \in Nat /\ q * b <= m * v BY <1>1, <1>2, FloorDivBounds
  <2>2. s <= q BY <1>4 DEF SharesFor, b, v
  <2> HIDE DEF q
  <2>3. s * b <= q * b /\ s * b \in Nat /\ q * b \in Nat BY <1>1, <2>1, <2>2, MulMono
  <2>4. s * b <= m * v BY <1>2, <2>1, <2>3
  <2>5. CeilDiv(s * b, v) <= m BY <1>1, <2>3, <2>4, CeilAtMost
  <2>6. p \in Nat /\ p * v <= s * b BY <1>1, <2>3, FloorDivBounds
  <2> HIDE DEF p
  <2>7. p * v \in Nat BY <1>1, <2>6, MulMono
  <2>8. p * v <= m * v BY <1>2, <2>3, <2>4, <2>6, <2>7
  <2>9. (m + 1) * v = m * v + v BY <1>1
  <2>10. p * v < (m + 1) * v BY <1>1, <1>2, <2>7, <2>8, <2>9
  <2>11. p < m + 1 BY <1>1, <2>6, <2>10, MulCancel
  <2>12. p <= m BY <2>6, <2>11
  <2> QED BY <2>5, <2>12 DEF AssetsFor, AssetsForCeil, b, v, p
<1> QED BY <1>3, <1>4

\* What withdraw, redeem and mint ask of an amount, the gates of an exit first.
WithdrawFits(u, a, f) ==
  /\ ~paused /\ QueueEmpty /\ CanExit(u) /\ a <= maxWithdraw /\ a <= liquidity
  /\ a <= AssetsFor(balance[u], f) /\ SharesForCeil(a, f) <= balance[u]
RedeemFits(u, s, f) ==
  /\ ~paused /\ QueueEmpty /\ CanExit(u) /\ s <= balance[u]
  /\ AssetsFor(s, f) <= maxWithdraw /\ AssetsFor(s, f) <= liquidity
QuotesFit ==
  \A u \in Users, f \in Factors :
    /\ MaxWithdraw(u, f) > 0 => WithdrawFits(u, MaxWithdraw(u, f), f)
    /\ MaxRedeem(u, f) > 0 => RedeemFits(u, MaxRedeem(u, f), f)
    /\ AssetsForCeil(MaxMint(u, f), f) <= maxDeposit

\* At every price a quote of max_withdraw, max_redeem or max_mint meets each
\* condition the call itself puts on it, to the last unit of rounding.
THEOREM QuotesAlwaysFit == Spec => []QuotesFit
<1>1. Inv => QuotesFit
  <2> SUFFICES ASSUME Inv, NEW u \in Users, NEW f \in Factors
               PROVE  /\ MaxWithdraw(u, f) > 0 => WithdrawFits(u, MaxWithdraw(u, f), f)
                      /\ MaxRedeem(u, f) > 0 => RedeemFits(u, MaxRedeem(u, f), f)
                      /\ AssetsForCeil(MaxMint(u, f), f) <= maxDeposit
    BY DEF QuotesFit
  <2>1. TypeOK BY DEF Inv
  <2>2. balance[u] \in Nat /\ maxWithdraw \in Nat /\ liquidity \in Nat /\ maxDeposit \in Nat
    BY <2>1 DEF TypeOK, Holders
  <2>3. \A x \in Nat : AssetsFor(x, f) \in Nat /\ SharesFor(x, f) \in Nat
    BY <2>1, PricingNat
  <2>4. MaxWithdraw(u, f) > 0 => WithdrawFits(u, MaxWithdraw(u, f), f)
    <3> SUFFICES ASSUME MaxWithdraw(u, f) > 0
                 PROVE  WithdrawFits(u, MaxWithdraw(u, f), f)
      OBVIOUS
    <3> DEFINE a == MaxWithdraw(u, f)
    <3>1. ExitQuoted(u) /\ a = Lesser(AssetsFor(balance[u], f), Lesser(maxWithdraw, liquidity))
      BY DEF MaxWithdraw
    <3> HIDE DEF a
    <3>2. a \in Nat /\ a <= AssetsFor(balance[u], f) /\ a <= maxWithdraw /\ a <= liquidity
      <4>1. AssetsFor(balance[u], f) \in Nat BY <2>2, <2>3
      <4> QED BY <2>2, <3>1, <4>1 DEF Lesser
    <3>3. SharesForCeil(a, f) <= balance[u] BY <2>1, <2>2, <3>2, ThereAndBack
    <3> QED BY <3>1, <3>2, <3>3 DEF a, WithdrawFits, ExitQuoted
  <2>5. MaxRedeem(u, f) > 0 => RedeemFits(u, MaxRedeem(u, f), f)
    <3> SUFFICES ASSUME MaxRedeem(u, f) > 0
                 PROVE  RedeemFits(u, MaxRedeem(u, f), f)
      OBVIOUS
    <3> DEFINE s == MaxRedeem(u, f)
    <3>1. ExitQuoted(u)
          /\ s = Lesser(balance[u], Lesser(SharesFor(maxWithdraw, f), SharesFor(liquidity, f)))
      BY DEF MaxRedeem
    <3> HIDE DEF s
    <3>2. /\ s \in Nat /\ s <= balance[u]
          /\ s <= SharesFor(maxWithdraw, f) /\ s <= SharesFor(liquidity, f)
      <4>1. SharesFor(maxWithdraw, f) \in Nat /\ SharesFor(liquidity, f) \in Nat
        BY <2>2, <2>3
      <4> QED BY <2>2, <3>1, <4>1 DEF Lesser
    <3>3. AssetsFor(s, f) <= maxWithdraw BY <2>1, <2>2, <3>2, ThereAndBack
    <3>4. AssetsFor(s, f) <= liquidity BY <2>1, <2>2, <3>2, ThereAndBack
    <3> QED BY <3>1, <3>2, <3>3, <3>4 DEF s, RedeemFits, ExitQuoted
  <2>6. AssetsForCeil(MaxMint(u, f), f) <= maxDeposit
    <3> DEFINE s == MaxMint(u, f)
    <3>1. s = 0 \/ s = SharesFor(maxDeposit, f) BY DEF MaxMint
    <3>2. SharesFor(maxDeposit, f) \in Nat BY <2>2, <2>3
    <3> HIDE DEF s
    <3>3. s \in Nat /\ s <= SharesFor(maxDeposit, f) BY <3>1, <3>2
    <3>4. AssetsForCeil(s, f) <= maxDeposit BY <2>1, <2>2, <3>3, ThereAndBack
    <3> QED BY <3>4 DEF s
  <2> QED BY <2>4, <2>5, <2>6
<1> QED BY <1>1, InvHolds, PTL
=============================================================================
