-------------------------------- MODULE Vault --------------------------------
(***************************************************************************)
(* The lending vault contract, soroban/contracts/vault/src/lib.rs.          *)
(*                                                                         *)
(* Depositors exchange USDC for shares, the treasury borrows the idle USDC, *)
(* debt compounds, and depositors leave either at once (withdraw, redeem)   *)
(* or through a first-in first-out redemption queue that is filled from     *)
(* idle USDC.  Every contract call is atomic, so every entry point is one   *)
(* action; a call that panics or returns an error changes nothing and is no *)
(* step.  process_queue is modelled with max_entries = 1 and write_off with *)
(* one entry; calls over several entries are not modelled.                  *)
(*                                                                         *)
(* Abstracted: who signs (a call by the wrong role fails, hence is no step),*)
(* share allowances, event payloads, storage TTLs and i128 overflow.  The   *)
(* compound factor (1 + rate/s)^elapsed is any member of Factors: Interest  *)
(* models the curve and the compounding it is computed from.                *)
(***************************************************************************)
EXTENDS Rounding

CONSTANTS
  Users,            \* depositors
  Escrow,           \* the vault's own address, holder of queued shares
  Receivers,        \* addresses a queued redemption can be paid to
  VirtualShares,    \* 10^DECIMALS_OFFSET
  Scale,            \* WAD_SCALE, the index 1.0
  Factors,          \* compound factors, in units of Scale
  Cap, CapScale,    \* UTILIZATION_CAP and the scale of utilization ratios
  DefaultMaxDeposit, DefaultMaxWithdraw, DefaultGracePeriod,
  DefaultMinQueueAssets,
  \* inputs
  Amounts,          \* USDC amounts of calls
  ShareAmounts,     \* share amounts of calls
  Donations,        \* plain USDC transfers to the contract
  LockPeriods, GracePeriods, Extensions, Limits, MinQueues, Switches,
  Regulated,        \* users whose allowlist membership is changed
  Unreachable,      \* receivers that may lose the ability to hold USDC
  \* bounds of the checked instance
  MaxTime, MaxAssets, MaxSupply, MaxId

Holders == Users \cup {Escrow}
NoDeadline == -1

ASSUME VaultAssumption ==
  /\ Escrow \notin Users
  /\ VirtualShares \in Nat \ {0} /\ Scale \in Nat \ {0}
  /\ Factors \subseteq {f \in Nat : f >= Scale}
  /\ Cap \in Nat /\ CapScale \in Nat \ {0} /\ Cap < CapScale
  /\ DefaultMaxDeposit \in Nat /\ DefaultMaxWithdraw \in Nat
  /\ DefaultGracePeriod \in Nat /\ DefaultMinQueueAssets \in Nat \ {0}
  /\ Amounts \subseteq Nat /\ ShareAmounts \subseteq Nat
  /\ Donations \subseteq Nat /\ LockPeriods \subseteq Nat
  /\ GracePeriods \subseteq Nat /\ Extensions \subseteq Nat
  /\ Limits \subseteq Nat /\ MinQueues \subseteq Nat
  /\ Switches \subseteq BOOLEAN
  /\ Regulated \subseteq Users /\ Unreachable \subseteq Receivers
  /\ MaxTime \in Nat /\ MaxAssets \in Nat /\ MaxSupply \in Nat /\ MaxId \in Nat

VARIABLES
  balance, supply,                     \* share token
  liquidity, debt, index, lastAccrual, \* USDC held, TotalBorrowed, BorrowIndex
  queue, queuedShares, head, tail,     \* redemption queue
  allowed, enforced, deadline, gracePeriod, \* compliance gates
  unlock, lockPeriod,                  \* deposit lock
  maxDeposit, maxWithdraw, minQueueAssets, paused,
  now,                                 \* ledger timestamp
  unreachable                          \* receivers that cannot be paid

shareVars == <<balance, supply>>
debtVars  == <<debt, index, lastAccrual>>
queueVars == <<queue, queuedShares, head, tail>>
exitVars  == <<allowed, enforced, deadline, gracePeriod>>
lockVars  == <<unlock, lockPeriod>>
limitVars == <<maxDeposit, maxWithdraw, minQueueAssets>>
envVars   == <<now, unreachable>>
vars == <<shareVars, liquidity, debtVars, queueVars, exitVars, lockVars,
          limitVars, paused, envVars>>

Request == [owner : Users, receiver : Receivers, shares : Nat \ {0}]

Init ==
  /\ balance = [h \in Holders |-> 0] /\ supply = 0
  /\ liquidity = 0 /\ debt = 0 /\ index = Scale /\ lastAccrual = 0
  /\ queue = [id \in {} |-> {}] /\ queuedShares = 0 /\ head = 0 /\ tail = 0
  /\ allowed = {} /\ enforced = FALSE
  /\ deadline = [u \in Users |-> NoDeadline] /\ gracePeriod = DefaultGracePeriod
  /\ unlock = [u \in Users |-> 0] /\ lockPeriod = 0
  /\ maxDeposit = DefaultMaxDeposit /\ maxWithdraw = DefaultMaxWithdraw
  /\ minQueueAssets = DefaultMinQueueAssets /\ paused = FALSE
  /\ now = 0 /\ unreachable = {}

-----------------------------------------------------------------------------
(* Interest *)

AccrualDue == now > lastAccrual /\ debt > 0
AccruedDebt(f)  == IF AccrualDue THEN FloorDiv(debt * f, Scale) ELSE debt
AccruedIndex(f) == IF AccrualDue THEN FloorDiv(index * f, Scale) ELSE index

\* The index compounds even when the debt's own increase rounds to zero.
ChargeInterest(f) ==
  /\ index' = AccruedIndex(f)
  /\ lastAccrual' = now

\* accrue_interest as a whole.  Reading a price of 0 assets or 0 shares
\* returns before it accrues, hence the condition.
AccrueIf(cond, f) ==
  IF cond THEN ChargeInterest(f) /\ debt' = AccruedDebt(f)
          ELSE UNCHANGED debtVars

(* Share pricing, on assets that include the interest due *)

VirtualAssets(f) == liquidity + AccruedDebt(f) + 1
VirtualSupply == supply + VirtualShares
\* Fault: shares bought are rounded up.
SharesForGenerous(assets, f) == CeilDiv(assets * VirtualSupply, VirtualAssets(f))
SharesFor(assets, f)     == FloorDiv(assets * VirtualSupply, VirtualAssets(f))
SharesForCeil(assets, f) == CeilDiv(assets * VirtualSupply, VirtualAssets(f))
AssetsFor(shares, f)     == FloorDiv(shares * VirtualAssets(f), VirtualSupply)
AssetsForCeil(shares, f) == CeilDiv(shares * VirtualAssets(f), VirtualSupply)

(* Gates *)

Permitted(h) == ~enforced \/ h \in allowed
Frozen(u)  == ~Permitted(u) /\ deadline[u] # NoDeadline /\ now >= deadline[u]
InGrace(u) == ~Permitted(u) /\ deadline[u] # NoDeadline /\ now < deadline[u]
Locked(u)  == now < unlock[u]
\* Fault: a frozen owner may leave once its lock has run out.
CanExitFrozen(u) == InGrace(u) \/ ~Locked(u)
CanExit(u) == ~Frozen(u) /\ (InGrace(u) \/ ~Locked(u))
QueueEmpty == queuedShares = 0

Relock(u) ==
  /\ unlock' = IF lockPeriod = 0 THEN unlock
               ELSE [unlock EXCEPT ![u] = Later(@, now + lockPeriod)]
  /\ UNCHANGED lockPeriod

-----------------------------------------------------------------------------
(* Depositor entry points *)

\* Base::update between two holders, which may be the same one.
Moved(from, to, shares) ==
  [[balance EXCEPT ![from] = @ - shares] EXCEPT ![to] = @ + shares]

\* Both sides of an entry must pass the allowlist; the receiver re-locks.
Enter(from, to, assets, shares, f) ==
  /\ ~paused /\ Permitted(from) /\ Permitted(to)
  /\ assets <= maxDeposit
  /\ liquidity + AccruedDebt(f) + assets <= MaxAssets /\ supply + shares <= MaxSupply
  /\ balance' = [balance EXCEPT ![to] = @ + shares]
  /\ supply' = supply + shares
  /\ liquidity' = liquidity + assets
  /\ Relock(to)
  /\ UNCHANGED <<queueVars, exitVars, limitVars, paused, envVars>>

Deposit(from, to, assets, f) ==
  /\ assets > 0 => SharesFor(assets, f) > 0
  /\ Enter(from, to, assets, SharesFor(assets, f), f)
  /\ AccrueIf(assets > 0, f)

MintShares(from, to, shares, f) ==
  /\ Enter(from, to, AssetsForCeil(shares, f), shares, f)
  /\ AccrueIf(shares > 0, f)

\* Burns shares of a holder and sends assets out of the vault.
Pay(holder, assets, shares) ==
  /\ assets <= liquidity /\ shares <= balance[holder]
  /\ balance' = [balance EXCEPT ![holder] = @ - shares]
  /\ supply' = supply - shares
  /\ liquidity' = liquidity - assets

InstantExit(owner, assets, shares) ==
  /\ ~paused /\ QueueEmpty /\ CanExit(owner)
  /\ assets <= maxWithdraw
  /\ Pay(owner, assets, shares)
  /\ UNCHANGED <<queueVars, exitVars, lockVars, limitVars, paused, envVars>>

Withdraw(owner, assets, f) ==
  /\ assets <= AssetsFor(balance[owner], f)
  /\ InstantExit(owner, assets, SharesForCeil(assets, f))
  /\ AccrueIf(balance[owner] > 0, f)

Redeem(owner, shares, f) ==
  /\ shares > 0 => AssetsFor(shares, f) > 0
  /\ InstantExit(owner, AssetsFor(shares, f), shares)
  /\ AccrueIf(shares > 0, f)

\* Fault: the lock is left to withdraw and redeem.
TransferUnlocked(from, to, shares) ==
  /\ Permitted(from) /\ Permitted(to)
  /\ shares <= balance[from]
  /\ balance' = Moved(from, to, shares)
  /\ UNCHANGED <<supply, liquidity, debtVars, queueVars, exitVars, lockVars,
                 limitVars, paused, envVars>>

\* transfer and transfer_from: not paused-gated, but locked and allowlisted.
Transfer(from, to, shares) ==
  /\ ~Locked(from) /\ Permitted(from) /\ Permitted(to)
  /\ shares <= balance[from]
  /\ balance' = Moved(from, to, shares)
  /\ UNCHANGED <<supply, liquidity, debtVars, queueVars, exitVars, lockVars,
                 limitVars, paused, envVars>>

\* The max_* views: what the vault says a call would accept.
\* Fault: they forget that open requests go first.
ExitQuotedUnqueued(u) == ~paused /\ CanExit(u)
ExitQuoted(u) == ~paused /\ QueueEmpty /\ CanExit(u)
MaxWithdraw(u, f) ==
  IF ExitQuoted(u)
  THEN Lesser(AssetsFor(balance[u], f), Lesser(maxWithdraw, liquidity)) ELSE 0
MaxRedeem(u, f) ==
  IF ExitQuoted(u)
  THEN Lesser(balance[u], Lesser(SharesFor(maxWithdraw, f), SharesFor(liquidity, f)))
  ELSE 0
MaxMint(u, f) ==
  IF paused \/ ~Permitted(u) THEN 0 ELSE SharesFor(maxDeposit, f)

-----------------------------------------------------------------------------
(* Redemption queue *)

RequestRedeem(owner, receiver, shares, f) ==
  /\ ~paused /\ shares > 0 /\ CanExit(owner)
  /\ AssetsFor(shares, f) <= maxWithdraw
  /\ AssetsFor(shares, f) >= minQueueAssets
  /\ shares <= balance[owner]
  /\ tail < MaxId
  /\ balance' = Moved(owner, Escrow, shares)
  /\ queue' = [id \in DOMAIN queue \cup {tail} |->
                 IF id = tail
                 THEN [owner |-> owner, receiver |-> receiver, shares |-> shares]
                 ELSE queue[id]]
  /\ tail' = tail + 1
  /\ queuedShares' = queuedShares + shares
  /\ AccrueIf(TRUE, f)
  /\ UNCHANGED <<supply, liquidity, head, exitVars, lockVars, limitVars,
                 paused, envVars>>

Without(id) == [i \in DOMAIN queue \ {id} |-> queue[i]]

\* release_request: escrowed shares go home and the entry closes.
Release(id) ==
  /\ queue[id].shares <= balance[Escrow]
  /\ balance' = Moved(Escrow, queue[id].owner, queue[id].shares)
  /\ queue' = Without(id)
  /\ queuedShares' = queuedShares - queue[id].shares

\* Callable while paused, by a frozen owner too.
CancelRedeem(id) ==
  /\ id \in DOMAIN queue
  /\ Release(id)
  /\ head' = IF queuedShares' = 0 THEN tail ELSE head
  /\ UNCHANGED <<supply, liquidity, debtVars, tail, exitVars, lockVars,
                 limitVars, paused, envVars>>

\* What idle liquidity buys of the oldest request.
FillShares(f) == Lesser(queue[head].shares, SharesFor(liquidity, f))
FillAssets(f) == AssetsFor(FillShares(f), f)
\* The two breaks of the loop: nothing affordable, or a part worth nothing.
Affordable(f) ==
  /\ FillShares(f) > 0
  /\ FillAssets(f) > 0 \/ FillShares(f) = queue[head].shares

\* Fault: an emptied queue keeps its old head.
AdvanceHeadOnly(next) == head' = next
AdvanceHead(next) == head' = IF queuedShares' = 0 THEN tail ELSE next

SkipHole ==
  /\ head \notin DOMAIN queue
  /\ UNCHANGED <<shareVars, liquidity, debtVars, queue, queuedShares>>
  /\ AdvanceHead(head + 1)

ReturnFrozen ==
  /\ head \in DOMAIN queue /\ Frozen(queue[head].owner)
  /\ Release(head)
  /\ UNCHANGED <<supply, liquidity, debtVars>>
  /\ AdvanceHead(head + 1)

\* Fault: the next call starts behind the request that could not be filled.
StallHeadSkipping(f) ==
  /\ head \in DOMAIN queue /\ ~Frozen(queue[head].owner) /\ ~Affordable(f)
  /\ AccrueIf(liquidity > 0, f)
  /\ UNCHANGED <<shareVars, liquidity, queue, queuedShares>>
  /\ AdvanceHead(head + 1)

StallHead(f) ==
  /\ head \in DOMAIN queue /\ ~Frozen(queue[head].owner) /\ ~Affordable(f)
  /\ AccrueIf(liquidity > 0, f)
  /\ UNCHANGED <<shareVars, liquidity, queue, queuedShares>>
  /\ AdvanceHead(head)

\* The receiver must be able to hold USDC, or the whole call traps.
FillHead(f) ==
  LET shares == FillShares(f) IN
  /\ head \in DOMAIN queue /\ ~Frozen(queue[head].owner) /\ Affordable(f)
  /\ queue[head].receiver \notin unreachable
  /\ Pay(Escrow, FillAssets(f), shares)
  /\ queuedShares' = queuedShares - shares
  /\ IF shares < queue[head].shares
       THEN /\ queue' = [queue EXCEPT ![head].shares = @ - shares]
            /\ AdvanceHead(head)
       ELSE queue' = Without(head) /\ AdvanceHead(head + 1)
  /\ AccrueIf(TRUE, f)

ProcessQueue(f) ==
  /\ ~paused /\ head < tail
  /\ SkipHole \/ ReturnFrozen \/ StallHead(f) \/ FillHead(f)
  /\ UNCHANGED <<tail, exitVars, lockVars, limitVars, paused, envVars>>

-----------------------------------------------------------------------------
(* Treasury, contributions and write-offs *)

\* Wad::from_ratio, rounded down.
Utilization(borrowed, managed) == FloorDiv(borrowed * CapScale, managed)

Borrow(amount, f) ==
  LET owed == AccruedDebt(f) + amount IN
  /\ ~paused /\ amount > 0 /\ QueueEmpty
  /\ liquidity + AccruedDebt(f) > 0
  /\ Utilization(owed, liquidity + AccruedDebt(f)) <= Cap
  /\ amount <= liquidity
  /\ ChargeInterest(f)
  /\ debt' = owed
  /\ liquidity' = liquidity - amount
  /\ UNCHANGED <<shareVars, queueVars, exitVars, lockVars, limitVars, paused,
                 envVars>>

\* Fault: repays the principal without charging the interest due.
RepayStale(amount, f) ==
  /\ ~paused /\ amount > 0 /\ amount <= debt
  /\ debt' = debt - amount
  /\ liquidity' = liquidity + amount
  /\ UNCHANGED <<shareVars, index, lastAccrual, queueVars, exitVars, lockVars,
                 limitVars, paused, envVars>>

Repay(amount, f) ==
  /\ ~paused /\ amount > 0 /\ amount <= AccruedDebt(f)
  /\ ChargeInterest(f)
  /\ debt' = AccruedDebt(f) - amount
  /\ liquidity' = liquidity + amount
  /\ UNCHANGED <<shareVars, queueVars, exitVars, lockVars, limitVars, paused,
                 envVars>>

BumpYield(amount, f) ==
  /\ amount > 0
  /\ liquidity + AccruedDebt(f) + amount <= MaxAssets
  /\ AccrueIf(TRUE, f)
  /\ liquidity' = liquidity + amount
  /\ UNCHANGED <<shareVars, queueVars, exitVars, lockVars, limitVars, paused,
                 envVars>>

\* accrue, get_borrow_index and the other views that charge interest.
Accrue(f) ==
  /\ AccrueIf(TRUE, f)
  /\ UNCHANGED <<shareVars, liquidity, queueVars, exitVars, lockVars, limitVars,
                 paused, envVars>>

\* Fault: the amount is not capped at the debt.
WriteOffUncapped(principal, origin, f) ==
  LET owed == CeilDiv(principal * AccruedIndex(f), origin) IN
  /\ principal > 0 /\ origin > 0 /\ origin <= AccruedIndex(f)
  /\ ChargeInterest(f)
  /\ debt' = AccruedDebt(f) - owed
  /\ UNCHANGED <<shareVars, liquidity, queueVars, exitVars, lockVars, limitVars,
                 paused, envVars>>

WriteOff(principal, origin, f) ==
  LET owed == CeilDiv(principal * AccruedIndex(f), origin) IN
  /\ principal > 0 /\ origin > 0 /\ origin <= AccruedIndex(f)
  /\ ChargeInterest(f)
  /\ debt' = AccruedDebt(f) - Lesser(owed, AccruedDebt(f))
  /\ UNCHANGED <<shareVars, liquidity, queueVars, exitVars, lockVars, limitVars,
                 paused, envVars>>

-----------------------------------------------------------------------------
(* Compliance role *)

SetDeadline(u, t) ==
  /\ deadline' = [deadline EXCEPT ![u] = t]
  /\ UNCHANGED <<shareVars, liquidity, debtVars, queueVars, enforced, gracePeriod,
                 lockVars, limitVars, paused, envVars>>

AllowDepositor(u) ==
  /\ allowed' = allowed \cup {u}
  /\ SetDeadline(u, NoDeadline)

\* A deadline already set stays: repeating the call does not extend it.
DisallowDepositor(u) ==
  /\ allowed' = allowed \ {u}
  /\ SetDeadline(u, IF deadline[u] = NoDeadline THEN now + gracePeriod
                    ELSE deadline[u])

FreezeDepositor(u) ==
  /\ allowed' = allowed \ {u}
  /\ SetDeadline(u, now)

ExtendExitDeadline(u, t) ==
  /\ deadline[u] # NoDeadline /\ t > deadline[u]
  /\ UNCHANGED allowed
  /\ SetDeadline(u, t)

-----------------------------------------------------------------------------
(* Owner and guardian.  Limits must be positive, periods may be zero. *)

Configured == <<shareVars, liquidity, debtVars, queueVars, allowed, deadline,
                unlock, envVars>>

SetMaxDeposit(limit) ==
  /\ limit > 0 /\ maxDeposit' = limit
  /\ UNCHANGED <<Configured, enforced, gracePeriod, lockPeriod, maxWithdraw,
                 minQueueAssets, paused>>

SetMaxWithdraw(limit) ==
  /\ limit > 0 /\ maxWithdraw' = limit
  /\ UNCHANGED <<Configured, enforced, gracePeriod, lockPeriod, maxDeposit,
                 minQueueAssets, paused>>

SetMinQueueAssets(min) ==
  /\ min > 0 /\ minQueueAssets' = min
  /\ UNCHANGED <<Configured, enforced, gracePeriod, lockPeriod, maxDeposit,
                 maxWithdraw, paused>>

SetLockPeriod(period) ==
  /\ lockPeriod' = period
  /\ UNCHANGED <<Configured, enforced, gracePeriod, limitVars, paused>>

SetWithdrawGracePeriod(period) ==
  /\ gracePeriod' = period
  /\ UNCHANGED <<Configured, enforced, lockPeriod, limitVars, paused>>

SetAllowlistEnforced(on) ==
  /\ enforced' = on
  /\ UNCHANGED <<Configured, gracePeriod, lockPeriod, limitVars, paused>>

Pause ==
  /\ ~paused /\ paused' = TRUE
  /\ UNCHANGED <<Configured, enforced, gracePeriod, lockPeriod, limitVars>>

Unpause ==
  /\ paused /\ paused' = FALSE
  /\ UNCHANGED <<Configured, enforced, gracePeriod, lockPeriod, limitVars>>

-----------------------------------------------------------------------------
(* Environment: the ledger clock, plain transfers, receivers' trustlines *)

Tick ==
  /\ now < MaxTime /\ now' = now + 1
  /\ UNCHANGED <<shareVars, liquidity, debtVars, queueVars, exitVars, lockVars,
                 limitVars, paused, unreachable>>

\* USDC sent to the contract address without a contract call: no accrual.
Donate(amount) ==
  /\ liquidity + debt + amount <= MaxAssets
  /\ liquidity' = liquidity + amount
  /\ UNCHANGED <<shareVars, debtVars, queueVars, exitVars, lockVars, limitVars,
                 paused, envVars>>

SetReachable(r) ==
  /\ unreachable' = IF r \in unreachable THEN unreachable \ {r}
                    ELSE unreachable \cup {r}
  /\ UNCHANGED <<shareVars, liquidity, debtVars, queueVars, exitVars, lockVars,
                 limitVars, paused, now>>

-----------------------------------------------------------------------------

DepositorNext ==
  \E u \in Users, f \in Factors :
    \/ \E to \in Users, a \in Amounts : Deposit(u, to, a, f)
    \/ \E to \in Users, s \in ShareAmounts : MintShares(u, to, s, f)
    \/ \E a \in Amounts : Withdraw(u, a, f)
    \/ \E s \in ShareAmounts : Redeem(u, s, f)
    \/ \E to \in Holders, s \in ShareAmounts : Transfer(u, to, s)
    \/ \E r \in Receivers, s \in ShareAmounts : RequestRedeem(u, r, s, f)

TreasuryNext ==
  \E f \in Factors :
    \/ \E a \in Amounts : Borrow(a, f) \/ Repay(a, f) \/ BumpYield(a, f)
    \/ Accrue(f)

WriteOffNext ==
  \E f \in Factors, p \in Amounts, origin \in Scale..index : WriteOff(p, origin, f)

QueueNext ==
  \/ \E id \in DOMAIN queue : CancelRedeem(id)
  \/ \E f \in Factors : ProcessQueue(f)

ComplianceNext ==
  \E u \in Regulated :
    \/ AllowDepositor(u) \/ DisallowDepositor(u) \/ FreezeDepositor(u)
    \/ \E t \in Extensions : ExtendExitDeadline(u, t)

OwnerNext ==
  \/ \E l \in Limits : SetMaxDeposit(l) \/ SetMaxWithdraw(l)
  \/ \E m \in MinQueues : SetMinQueueAssets(m)
  \/ \E p \in LockPeriods : SetLockPeriod(p)
  \/ \E p \in GracePeriods : SetWithdrawGracePeriod(p)
  \/ \E on \in Switches : SetAllowlistEnforced(on)
  \/ Pause \/ Unpause

EnvNext ==
  \/ Tick
  \/ \E a \in Donations : Donate(a)
  \/ \E r \in Unreachable : SetReachable(r)

Next ==
  \/ DepositorNext \/ TreasuryNext \/ WriteOffNext \/ QueueNext
  \/ ComplianceNext \/ OwnerNext \/ EnvNext

Spec == Init /\ [][Next]_vars
-----------------------------------------------------------------------------
(* Properties *)

\* What max_withdraw and max_redeem quote, withdraw and redeem accept (a quote
\* of shares worth nothing aside), and what max_mint quotes costs no more than
\* the deposit limit.
QuotesHonoured ==
  \A u \in Users, f \in Factors :
    /\ MaxWithdraw(u, f) > 0 => ENABLED Withdraw(u, MaxWithdraw(u, f), f)
    /\ MaxRedeem(u, f) > 0 /\ AssetsFor(MaxRedeem(u, f), f) > 0
         => ENABLED Redeem(u, MaxRedeem(u, f), f)
    /\ AssetsForCeil(MaxMint(u, f), f) <= maxDeposit

\* Every stored value has the type the contract gives it; amounts, debt and
\* the index stay in range, so no subtraction ever underflows.
TypeOK ==
  /\ balance \in [Holders -> Nat] /\ supply \in Nat /\ liquidity \in Nat
  /\ debt \in Nat /\ index \in Nat /\ index >= Scale /\ lastAccrual \in 0..now
  /\ queue \in [DOMAIN queue -> Request] /\ DOMAIN queue \subseteq Nat
  /\ queuedShares \in Nat /\ head \in Nat /\ tail \in Nat
  /\ allowed \subseteq Users /\ enforced \in BOOLEAN
  /\ deadline \in [Users -> Nat \cup {NoDeadline}] /\ gracePeriod \in Nat
  /\ unlock \in [Users -> Nat] /\ lockPeriod \in Nat
  /\ maxDeposit \in Nat /\ maxWithdraw \in Nat /\ minQueueAssets \in Nat \ {0}
  /\ paused \in BOOLEAN /\ now \in Nat /\ unreachable \subseteq Receivers

\* No open request is ever lost behind the head, whatever holes cancellations
\* left, and an empty queue has its head at its tail (release_request and
\* process_queue both move the head).
QueueWindow ==
  /\ DOMAIN queue \subseteq head..(tail - 1)
  /\ head <= tail
  /\ queuedShares = 0 <=> DOMAIN queue = {}
  /\ queuedShares = 0 => head = tail

\* The vault itself holds at least the shares of the open requests, so every
\* request can be cancelled, returned or filled.
EscrowBacked == queuedShares <= balance[Escrow]

\* The redemption queue as its calls rely on it: nobody waits behind the head,
\* and every request still has its shares.
QueueSound == QueueWindow /\ EscrowBacked

\* An allowlisted depositor has no exit deadline left over from an earlier
\* revocation, which would start to bind at the next one (allow_depositor).
AllowedHasNoDeadline == \A u \in allowed : deadline[u] = NoDeadline

\* What the vault keeps between calls is fit for the next one: the queue and its
\* escrow, and the deadlines (cancel_redeem, process_queue, allow_depositor).
VaultSound == QueueSound /\ AllowedHasNoDeadline

\* The value of a share: managed assets plus one over supply plus the virtual
\* shares.  Every entry point rounds in the vault's favour, so only write_off
\* lowers it; what others do never costs a depositor.
SharePriceHolds ==
  [][ ~WriteOffNext =>
      (liquidity' + debt' + 1) * (supply + VirtualShares)
        >= (liquidity + debt + 1) * (supply' + VirtualShares) ]_vars

\* Interest due is charged before a call changes what it is computed from:
\* after any call that pays out, changes the debt or the share supply, the
\* debt is current.
InterestChargedFirst ==
  [][ liquidity' < liquidity \/ debt' # debt \/ supply' # supply
      => lastAccrual' = now ]_vars

\* While a request is open USDC leaves only to fill requests: withdraw, redeem
\* and borrow are refused.
QueueGoesFirst ==
  [][ queuedShares > 0 /\ liquidity' < liquidity
      => queuedShares' < queuedShares ]_vars

\* First in first out: shares of a request are burned only when no older
\* request stays open.
FirstInFirstOut ==
  [][ \A j, k \in DOMAIN queue :
        /\ j < k /\ supply' < supply
        /\ k \in DOMAIN queue' => queue'[k].shares < queue[k].shares
        => j \notin DOMAIN queue' ]_vars

\* Liquidity goes to the queue, and in it to whoever asked first.
ServedInOrder == QueueGoesFirst /\ FirstInFirstOut

\* A frozen depositor is never paid, neither at once nor from the queue: no
\* call burns its shares or takes them out of its balance.
FrozenNeverPaid ==
  [][ \A u \in Users : Frozen(u) =>
        /\ balance'[u] >= balance[u]
        /\ \A id \in DOMAIN queue : queue[id].owner = u =>
             \/ id \in DOMAIN queue' /\ queue'[id] = queue[id]
             \/ balance'[u] >= balance[u] + queue[id].shares ]_vars

\* A borrow leaves the vault at or below the utilization cap, up to the one
\* unit that the ratio's rounding hides.  (A borrow is the only payment that
\* burns no shares.)
BorrowWithinCap ==
  [][ liquidity' < liquidity /\ supply' = supply
      => CapScale * debt' < (Cap + 1) * (liquidity' + debt') ]_vars

\* Lending changes the debt only on the books of that second, and only within
\* the cap.
LendsInOrder == InterestChargedFirst /\ BorrowWithinCap

\* Locked shares cannot leave by transfer, withdraw, redeem or the queue,
\* unless a revocation's grace window waives the lock.
LockedSharesStay ==
  [][ \A u \in Users : Locked(u) /\ ~InGrace(u) => balance'[u] >= balance[u] ]_vars

\* A later deposit under a shorter lock period never brings an unlock time
\* forward.
LockNeverShortened == [][ \A u \in Users : unlock'[u] >= unlock[u] ]_vars

\* A lock holds until it ends: no call moves its shares or brings its end
\* forward.
LocksHold == LockedSharesStay /\ LockNeverShortened
=============================================================================
