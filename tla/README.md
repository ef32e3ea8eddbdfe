# Verification of Microvault

Microvault lends USDC to smallholders. Depositors supply a Soroban vault, a
treasury borrows from it to fund loans, money leaves to and returns from mobile
money and cash agents, and a Go server keeps loans, payments and compliance in
step with the chain. This directory holds the TLA+ modules that model the parts
of the system whose correctness depends on the order of events, the TLC
configurations that check them, and proofs, for every value of the constants, of
the invariants those configurations check.

Run a check with `tlc -config MCVault_exits.cfg MCVault` and the proofs with
`tlapm VaultProofs.tla`. PROJECT.json lists the components, the runs, the source
lines each definition models, the hazards, the findings and the theorems; paths
there start at the root of the repository.

## Inventory

| Component | State | Operations | Interacts with |
|---|---|---|---|
| Vault contract, `soroban/contracts/vault` | share balances and supply, idle USDC, debt and borrow index, redemption queue, allowlist and exit deadlines, locks, limits, pause | deposit, mint, withdraw, redeem, transfer, queue calls, borrow, repay, bump_yield, write_off, compliance and owner setters | owned by the timelock; called by the Go server through `pkg/stellar/soroban` |
| Timelock controller, `soroban/contracts/timelock-controller` | operations, roles, delay, all kept by OpenZeppelin's library | schedule, execute, cancel, update_delay, `__check_auth` | owns the vault |
| Withdrawal poller, `pkg/services/mgpoller/withdrawal.go` | disbursement row, settlement row, in-memory attempts | follow an off-ramp withdrawal: send claim, send, refund, vault repayment, notices | anchor, treasury, vault, SMS, disbursement store |
| Deposit poller, `pkg/services/mgpoller/deposit.go` | cash-in row, markers of texts, vault outcome | follow an on-ramp deposit: reference and reminder texts, settle, vault repayment, refund credit | anchor, vault, SMS, loan module |
| YellowCard payouts, `offramp_yellowcard.go`, `pkg/webhook` | disbursement status, settlement method | direct transfer, fallback, events, refund failover, vault repayment | YellowCard, treasury, vault |
| M-Pesa, `pkg/payment/mpesa`, `pkg/services/mpesapoller`, Daraja callbacks | mobile payment rows, cursor of the pull | STK push, C2B confirmation, status enquiry, pull | loan module, Daraja |
| Airtel, `pkg/payment/airtel`, `pkg/services/airtelpoller` | collection rows, cursor of the summary | push, enquiry, callbacks, summary sweep | loan module, Airtel |
| Compliance, `pkg/services/compliance`, `pkg/compliance` | address rows, on-chain state, KYB session, alerts, provider settings | screen, rescreen, enforce on chain, two-person settings, provider events | screeners, vault compliance role |
| Vault watch, `pkg/services/vaultwatch` | event cursor, deposit queue, exit deadlines | read vault events, queue and screen deposits, warn | soroban RPC, alerts |
| PIN and users, `pkg/pin`, `pkg/user`, `pkg/pilot` | user rows, PIN attempts and locks, pilot list | verify, change, reset; KYC, status, role; who may register | USSD, portal |
| Accounts, `user_service_adapter.go`, `pkg/services/accountheal` | account row, index sequence, ledger account | allocate, create, confirm, flag, reissue | classic payments, USSD |
| Contract calls, `pkg/stellar/soroban`, `pkg/stellar/rpc` | none but the recorded hashes | simulate, sign, record, send, poll, settle later | RPC nodes, every caller of the vault |
| Loan references, `pkg/loanref`, `daraja_callback_controller.go` | the reference of each loan, the configured prefix | generate, backfill, validate, resolve, answer Safaricom | loans table, M-Pesa pull, payer |
| Provider tokens, `pkg/payment/*/auth.go`, `stellaranchor` | cached tokens | mint, evict, retry | Daraja, Airtel, MoneyGram, anchor |
| USSD, `pkg/mobile/ussd` | session in Redis | every menu's handler, back and home | all of the above |
| Sign-in, `pkg/auth`, `auth_middleware.go` | challenges in Redis, the client's token | issue, verify, renew, turn away | portal, operators' table |
| Payment relay, `pkg/payment/relay`, `offramp_fonbnk.go` | none; orders at Fonbnk | ask every source, weigh the margin, open, pay, confirm or cancel an order | rate sources, treasury |
| Transactions and accounts, `pkg/transaction`, `pkg/account` | their tables | create, batch, update, change status, delete, restore, list | every caller that records |
| Core process, `cmd/microvault`, `pkg/config`, `platform` | settings, pool of connections | load, validate, open, serve, probe, close | operators, mpesa-register, Safaricom |
| Notifications, transport, web UI | messages | I/O | everything |

## What is hard

Contract calls are atomic and totally ordered, so on the chain the difficulty is
sequences: a long history of legal calls that leaves a total out of step with
the entries it sums, a price that a rounding moves the wrong way, a lock or a
deadline that another path avoids. Off the chain the difficulty is time: a
process may stop between any two writes, an answer may be lost after the money
has moved, a row is read, decided on and written back while others write it, and
a request or an event may come twice, late, or beside itself. The hazards are
listed in PROJECT.json at the line where each bites, each with the properties
that would catch it.

What makes each component correct:

- **Vault.** The share price never falls but by a write-off; supply, queue total
  and escrow agree with the balances and requests they sum; the queue is served
  in order and before anyone else; nobody frozen is paid and no lock is
  shortened or avoided; borrows stay under the cap; interest is charged before
  anything it depends on changes, under the ceiling of its time; views quote
  what calls accept.
- **Withdrawal poller.** The principal is sent once whatever crashes; a refund
  repays the vault once, with what came back on the ledger and no more than was
  lent; the loan closes only after; each text is sent once; a refund that can be
  settled is.
- **Deposit poller.** The vault is repaid once unless the row lost the record of
  a repay; the loan closes only when repaid; money on the treasury is never
  given up; the borrower is told how to pay, and of each outcome once.
- **Payouts.** The loan's USDC is in one place: with YellowCard, with the
  borrower or back in the vault.
- **M-Pesa, Airtel.** Repeated and reordered events end in the same row; nothing
  is credited that was not paid and nothing paid is passed over.
- **Loan references.** A slip pays nobody else's loan, what was accepted for a loan is
  put down to it, and a loan's own reference is not refused.
- **Compliance, watcher.** Nobody is allowed in without a decision, the chain
  ends in what the newest decision asks for, verdicts rest on evidence, alerts
  reach a person, no deposit is skipped.
- **Users, registrations, accounts.** Counts hold under concurrent calls, an
  identity has one key and a key one identity, and what a row says of the ledger
  is true.
- **Sign-in, relay, rows.** A challenge admits once and a session ends when its
  account is no longer found authorised; a rate given out was weighed, and one
  order is paid; no two rows share a hash or a key, and none leaves a final
  status.
- **Core process.** Payments posted to a bound URL are heard by a core with the same
  slug, and its end neither waits for ever nor takes the database from a request.
- **Contract calls, tokens, dialogue.** A request is performed once however it
  is retried, and a borrower decides on what was shown.

## Modules

| Module | Models | Uses |
|---|---|---|
| `Rounding` | division rounding down and up, smaller and larger of two | |
| `Vault` | the vault contract | `Rounding` |
| `Interest` | rate curve, ceiling, compounding, borrow index | `Rounding` |
| `Withdrawal` | the MoneyGram cash-out of a loan and the treasury payment | `Rounding`, `CashOut` |
| `CashOut` | abstract: what a cash-out may do with one loan's money | |
| `Deposit` | the MoneyGram cash-in that repays a loan | `Rounding` |
| `Payouts` | one YellowCard payout with its failovers, webhooks and refund poller | |
| `Ussd` | one borrower's session: every menu, back and home, repeats | |
| `Submission` | contract calls from simulation to settled outcome | |
| `Credentials` | providers' tokens and what a refused call repeats | |
| `Screening` | choice of screening providers, verdicts of their answers | |
| `Verification` | KYB sessions, providers' notifications | |
| `Login` | sign-in by a signed challenge, sessions and the middleware | |
| `Relay` | rate sources, the router and its margin, the Fonbnk disbursement | |
| `Bookkeeping` | rows of the transaction and the account service | |
| `Boot` | the core process: settings, pool, start and end, bound URLs | |
| `Allowlist` | a lender's addresses from submission to the contract's allowlist | |
| `Accounts` | one account row against the ledger: creator, loans, reconciler | |
| `Registrations` | pilot list, registration, recovery, index sequence, restores | |
| `Users` | user rows under concurrent calls of the PIN and user services | |
| `Mpesa`, `Airtel` | payment rows, callbacks, the pull and the summary sweep | |
| `References` | loan references, what Safaricom is answered, the loan a payment goes to | |
| `VaultWatch` | event cursor, deposit queue, mirrored exit deadline, warnings | |
| `MCVault`, `MCInterest`, `MCWithdrawal`, `MCDeposit`, `MCPayouts` | instances for TLC | their module |
| `MCRequests` | `Ussd`, `Payouts`, `Submission`, `Credentials`, `Screening`, `Verification`, `Login`, `Relay` in one server | |
| `MCRecords` | `Users`, `Registrations`, `Mpesa`, `Airtel`, `VaultWatch`, `Bookkeeping`, `Boot`, `References` over one database | |
| `MCReconcilers` | `Accounts`, `Allowlist`: loops that bring the chain to the rows | |
| `*Proofs` | theorems, see *Proofs* | |

Definitions keep the names of the code where TLA+ allows. An operator whose
comment begins with *Fault:* or *Mutant:* is not part of any specification: it
states a plausible bug in the definition that follows it, and a property is
known to fail when the two are exchanged; each property has one such mutant at least
(PROJECT.json, "mutants").

The parts that `MCRequests`, `MCRecords` and `MCReconcilers` compose share no
variables: in the code they share a process and a database, not rows. Their
behaviours choose a `part` at the start and move it alone, so that the states of
the parts add up rather than multiply. What the parts have of each other is
part of each as an environment: `Accounts` answers what the ledger may answer,
`Allowlist` what a screening may come to, `Payouts` and the pollers what a
submission may report. The theorems are about these compositions, and rest on
one invariant of each part.

### Vault

Variables are the contract's storage keys: `balance` and `supply` of the share
token, `liquidity` (USDC the contract holds), `debt`, `index` and `lastAccrual`,
the `queue` with `head`, `tail` and `queuedShares`, the allowlist with
`deadline`, the locks, the limits and `paused`; `now` is the ledger time and
`unreachable` the receivers that cannot be paid. A contract call is atomic, so a
call is one action, whole: the interest it charges, its checks, its transfers.
`Users` are depositors, `Escrow` is the vault's own address.

The compound factor is an input: `AccrueIf(f)` multiplies debt and index by any
`f / Scale` of `Factors` when time has passed, so what holds in Vault holds for
every rate curve. `Interest` has the curve and the factor, and of the rest of
the vault only the idle USDC. Authorisation is left out (who may call decides
who appears in a run, not what a call does), and so are `i128` overflow, storage
lifetime, events, and the calls that replace a role or the code. The conditions of
compliance and locks on an exit are one operator, `CanExit`, for the calls and for
the views that quote them; the code states them twice, and that the two agree was
checked by reading.

### Withdrawal and CashOut

One loan, since loans share no state. `pc` is the step of the tick that drives
it; `rec` and `tx` are the snapshots of the row and of the anchor's transaction
that the tick acts on, which is where stale reads come from. Each call that
leaves the process is a step: the anchor, the ledger and a crash come between
any two. A failed store write may or may not have been applied. The submission
may fail before or after the network has it; `fate` is what the ledger decides
of the latest one, `Reports` what `SendUSDC` tells its caller of a payment that
failed there. The lending module, which is not in this repository, is modelled
by its contract in `pkg/contracts/disbursement.go`: it repays the vault once per
loan, may fail, or may defer to its own reconciler. Operators release a claim
only when alerted and when nothing landed or can land.

`CashOut` sees five numbers of this: payments out, USDC back, USDC credited to
the vault, how the loan ended and whether the anchor gave up.
`MovesMoneyAsCashOut` says that Withdrawal implements it, with the mapping in the
`INSTANCE` at the end of that module.

### Deposit

The same style for `deposit.go`: `status`, `attempts`, the two markers, `due`
and `complete` (address and payoff present) are the row, `flying` and `repaid`
the vault repays. `lost` counts the repays of which the row was not told, by a
failed write or a stop: the property about double repays is stated against it,
because the code cannot prevent a second repay then and says so (deposit.go:469).
`window` is the binding deadline, the anchor's own when it states one.

### Ussd

`session` is the Redis entry: menu and the set of keys its data holds. A turn (`Reply`) is `HandleSession` whole: the input is normalised, back
and home are resolved by the navigation table, the handler of the menu runs and
the session is written back; confirming a loan is `handleLoanConfirm`, whose last step
is `submitLoan`. `Repeat` is the gateway repeating an input it saw
no answer to, after the original or beside it (on the session the original
read); `Lose` is the cache losing a session or a write. `facts` records what
happened since the borrower dialled, which is what the properties speak of.

### Payouts

`desk` is `Initiate`: wallet check, `SendUSDC`, fallback. Each webhook event is a
handler of its own, which reads the settlement method and writes the status in
separate steps and may be lost with the process; the refund poller's look-up,
move to the fallback and repayment of the vault are steps too. `NoChannel` is an
`Initiate` that ends with an error before any payment was asked for. `misjudged` says
that `SendUSDC` reported an error for a transfer that landed: all that goes
wrong is stated against it.

### Submission

A call is simulated (which reads the sequence number), signed with its time
bound, recorded by the hook if the caller has one, sent and polled; every answer
may be lost, a node may lag or have forgotten. `fate` is the ledger's view of
each signed transaction, `onFile` the recorded ones. `ResolveSubmitted` is the
verifier that settles an unknown outcome by its hash; callers without a hook
park. Other processes that use the key take sequence numbers between the steps. A call
lands at no time before it was signed: the server's clock is assumed not to run
ahead of the ledger's.

### Credentials

`store` is the cached token, `dies` the life of each token issued, `request` the
calls. Daraja ends the old token with each mint, Airtel and MoneyGram do not;
Daraja's and Airtel's store is shared by the replicas, whose mints are single in
each (`Join`). `EvictToken`, `Invalidate` and `InvalidateJWT` are what a refused
call does, `doHTTPWithRetry` what the anchor's client does with a broken
connection.

### Screening, Verification, Allowlist

`Screening`: `setting` is the table of proposed choices, `deciding` what each
operator has in progress between reading and writing, `switch` the running
server's cached choice, and the verdict functions are those of the two providers
and of their combination, over every combination of answer and cut points.
`Verification`: `lender` holds the session columns, `starting` each call of
`Start`, `didit` the provider's own status, `handling` the delivery in work and
the two kinds of queued signal. `Allowlist`: `addressRow` (intent) and `onchain`
are separate columns as in the table, `screen` and `recheck` the screenings in
progress with what they read, `writer` the pass of the on-chain writer with the
intents it listed, `signal` the alert's row, `chain` the contract.

### Accounts and Registrations

`Accounts` has one row (`acct`) and the ledger's view of the two addresses it may
derive: the registration's creator, the calls of `EnsureOnChainAccount` by a
loan and by the reconciler, and the operators' reissue, each with its reads,
submission and writes as steps; a creation whose answer was lost lands later.
`Registrations` has the people around it: `dialogue` is the step of each phone's
session, `db` the tables with the sequence, whose numbers survive a rollback,
`Boot` the raising of the sequence above a configured base, `RestoreDatabase` an
older copy of the tables, which forgets rows and sequence and not the ledger.

### Users, Mpesa, Airtel, VaultWatch

`Users`: `ClaimPINAttempt` and `ResetPINAttempts` are single statements, every
other change is a read and a whole-row write, with `stale` and `raced` recording
that one was decided on what had changed since. `Mpesa`: callbacks only stage a
row; the query and the pull confirm it; `pull` holds the window in progress. A page
of the pull that does not decode reads as an empty one (`StartPull`'s `unread`), and
the cursor passes its payments as it does in the code.
`Airtel`: the same with a summary read page by page under a page ceiling.
`VaultWatch`: `Watch` inspects a page of events, queues each deposit, mirrors
each deadline and moves the cursor, past an event that does not decode as well; `ReadBack` and `RecordExitDeadline` are the
on-chain writer mirroring the same field.

### References

`loans` is the part of the lending module's table that a reference is looked up in,
with the legacy column; `prefix` is the setting core read, which a restart may
change; `payment` is one paybill payment, from what the payer types to the loan the
pull puts it down to. A character is its position in the alphabet, and the check
character the sum of the others. Safaricom may ask for the name (`Resolve`), for
consent (`C2BValidation`), both or neither. The loans themselves are made, backfilled,
repaid and deleted by the environment.

### Login, Relay, Bookkeeping, Boot

`Login`: `challenge` holds the entries of Redis, `verifying` each verification
between its read and its delete, either of which may fail; `cookie` is when each
account's token expires. `Serve` and `TurnAway` are the middleware, which looks
the account up in `operating` each time; `vouched` remembers when it last found
it. `Relay`: `rates` is what each source would answer, `routing` one request
from its first round of answers to the margin, with rates moving in between;
`orders`, `till` and `landed` are the Fonbnk disbursement of one loan, whose
transfers may be misjudged as in `Payouts`. `Bookkeeping`: `work` are the calls
between what they read and what they write; `UpdateTransaction` writes the
columns of one statement, and a row's status moves along the table its service
lists, decided on the row as read.
`Boot`: `env` is the environment operators edit, `core.loaded` what the process
read of it once, `core.at` where `main` stands; a setting is in `wrong` by the
name of the check that would see it. `pool.held` is the read lock `Ready` keeps
when it finds no connection. `bound` is the URL `mpesa-register` gave Safaricom,
with settings of its own; `Post` is a payment sent to it.
## Runs

| Run | What it asks | Bounds |
|---|---|---|
| `pricing` | no entry, exit, fill or repayment lowers what a share is worth; interest is charged first; a borrow stays under the cap; the `max_*` views promise only what a call accepts | one depositor, treasury, donations, factors 1 and 3/2 (`Scale` 2), 7 units of assets |
| `exits` | the queue loses no request, keeps its shares and serves in order; allowlist, grace, freeze, extensions, locks, pause | two depositors, one regulated, in two regions: one receiver that may become unreachable and three requests at one ledger time (`Queueing`), one deposit and one request over four ledger times (`Ageing`) |
| `rate` | no second is charged above the ceiling of its time; loans priced by the index against the total debt; shape of the curve | two loans, two ceilings, three seconds, rates a real pool never sees |
| `cashout` | payment once, refund, texts, `CashOut` implemented; refunds settle | one fault, two attempts to the alert, two refunds in four listings |
| `cashin` | repay once, close after, money kept, texts in the code's order; borrower told and funds settled in the end | two attempts to the alert, three faults |
| `requests` | dialogue, payout, submission, tokens, screening, KYB, sign-in, relay in one server | see below |
| `records` | people, registrations, transactions and accounts over one database; the core process; loan references under slips, changes of prefix and backfills | see below |
| `collections` | the M-Pesa and Airtel ledgers, both cursors, the watcher's mirror and its screenings | see below |
| `reconcilers` | account against ledger, intent against allowlist; both settle | one address, two heal attempts, three account faults, two administrator's acts, one fault of the writer |
| `failed_send`, `resubmit`, `payouts_twice` | a statement of a comment or document that the code does not keep | what the counterexample needs |

A property named for a whole is a conjunction of what its parts promise, so that
one exploration of the states serves all of them:

| Property | Conjuncts |
|---|---|
| `VaultSound` | `QueueSound`: `QueueWindow`, `EscrowBacked`; `AllowedHasNoDeadline` |
| `RowSound` of the cash-in | `TypeOK`, `SettledOnlyWhenRepaid`, `OutcomeToldOnce` |
| `DialogueSound` | `ResetIsEarned` (a PIN is replaced only after the recovery of that dialogue), `ConsentIsInformed` (a loan is requested only on what was shown) |
| `TokensSound` | `CredentialsSound`: `PerformedOnce`, `CacheIsNewest`; `LoginSound`: `AdmitsOnce`, `SessionsEnd` |
| `PaymentsSound` | `PayoutSound`: `PaidTwiceOnlyIfMisjudged`, `RepaidOnlyWithUSDCHome`; `RelaySound`: `QuotesWeighed`, `OrdersPaidOnce` |
| `ComplianceSound` | `ApprovedOnEvidence`, `ChoiceIsRecent`, `DecidedByTwo`, `SessionIsOwn`, `NotesAreKept` |
| `PeopleSound` | `TriesBounded`, `AdminRemains`, `KeysAreOwn`, `NumbersWereApproved`, `RowsApart` |
| `MpesaSound` | `CreditedOnlyIfPaid`, `PulledIsConfirmed` |
| `CoreSound` | `BootSound`: `PaymentsHeard`, `LockStopsNobody`, `RequestsKeepDatabase`; `ReferencesSound`: `RefTypeOK`, `SlipPaysNobody`, `CreditFollowsAnswer` |
| `CursorsSkipNothing` | `SweptIsConfirmed`, `PassedIsQueued` |
| `ExitTold` | `MirrorFollows`, `WarnedOnce` |
| `NothingTakenBack` | `MovesAreListed`, `ReceivedNeverDrops`, `ReceiptKept`, `DecidedOnce`, `RowsMoveAsListed`, `OwnReferenceTaken` |
| `ReconcilersSound` | `AccountSound`, `NoAllowBeforeKYB` |
| `ReconcilersSettle` | `AccountSettles`, `IntentReachesChain`, `AlertsAreAnswered` |

The three compositions run with these bounds.

- `requests`: one trouble (repeated or lost request) in the dialogue; two events
  in work and one fault in a payout; one caller with two signed transactions,
  a time bound of one and four ticks of the ledger, while other processes take
  sequence numbers; two requests in two replicas, three mints, tokens that live
  two ticks; two operators with two changes over one hour, one restart,
  starting from both screening keys present and Elliptic chosen; two starters of
  KYB sessions, two sessions, one notification per session and one fault; one
  challenge under overlapping verifications, four ticks, an expiry of one and
  tokens of two, renewed in their last, one fault; rates to 2, a loss of a half
  accepted, three moves of a rate, three orders and two faults of a disbursement.
- `records` and `collections` are one composition with other parts chosen: two people
  and three calls of which two overlap, two PIN attempts;
  two receipts, two ticks and two faults of M-Pesa; two pushes, two ticks, pages
  of one row, a ceiling of two pages and one fault of Airtel; three vault events
  in pages of two, two tries and one fault; two phones and two national IDs
  (symmetric: no step and no property prefers one), two registrations open at
  once, indices to three, one change of the pilot list, sequence bases 0 and 3;
  two transactions and two accounts with one hash and one key to share, and two
  calls at work; one edit of the environment after a start in any environment, and
  one request in work; two loans, an alphabet of three letters, one random
  character and one change of prefix.
- `reconcilers`: as in the table.

Why the bounds are enough. The vault's rounding cases are decided by remainders,
and with amounts 1 and 3 against prices made by a factor of 3/2 every division
is met exact and inexact. A queue of three requests has a hole in the middle, at
the head and at the tail. Four times put a lock, a deadline and its extension in
every order. The two regions of `exits` share their initial state and overlap; a long
queue over several times is in neither, and is left to the theorems, which hold of
`Spec` without regions. In the pollers a fault is a lost answer, a write that failed or
half happened, or a stop, and the properties break on pairs: cash-out's second
of a pair is the anchor's or the ledger's own choice, cash-in's needs two, and
its third adds the alert's. Amounts of refunds are chosen so that one falls short
of the principal, both exceed it, and one listed twice would look like the
whole. Races between calls take two callers, and a third adds no new pair: the
calls write rows whole and decide on what they read, so each is a race of two.
A reference of two characters and its check has every place a slip can be in: prefix,
random part, check. Pages of one and two rows put every page boundary between two entries, and a
ceiling of two pages is met with three. Rates in `rate` are large because a
small model has few seconds to compound in. Where a bound could hide something,
the theorems below do without it: they hold for every value of the constants.

`CHECK_DEADLOCK FALSE` stands in the runs of the pollers, of `Interest` and of the
compositions: a loan that reached its end, a bounded clock or a spent number of
calls has no next step. The vault's runs check for deadlock.

### Fairness

The vault has none: no code in the repository calls `process_queue` on a
schedule, so nothing can be promised of when a request is filled. The pollers'
runner ticks for ever and drives every row to the end of its handler, which is
weak fairness of their steps; a scheduled poll falls due (`Wake`); the ledger
decides every submission, which carries time bounds; the lending module's
reconciler retries. The account reconciler and a registration in work run to
their end (`Healing`, `Creating`) and a creation sent to the ledger lands or
lapses (`Land`). The on-chain writer's and the re-screening's loops run on tickers:
`ListQueue`, `Submit`, `RecordOnchain`, `BeginRecheck`, `EndRecheck`, and the
alert of a signal, `Tell`, are weakly fair. Failures are bounded in number, so an
outage ends. The anchor, the borrower, operators and administrators owe nothing.

### What the properties leave out

Some properties hold but for a case that the code itself allows, which a history
variable names; the case is part of the model, and the property is not evidence
against it.

| Property | Left out | Why |
|---|---|---|
| `AdminRemains` | `raced`, `stale` | two such calls at once leave no administrator, see *Divergences* |
| `SweptIsConfirmed` | `pastCeiling` | at the page ceiling the cursor passes what was not read, see *Divergences* |
| `PaidTwiceOnlyIfMisjudged` | `misjudged` | shown by `payouts_twice` |
| `RepaidAgainOnlyIfLost` | `lost` | shown by `resubmit` |
| `PulledIsConfirmed` | `unwritten` | the pull passes an upsert that failed and a page that did not decode |
| `PassedIsQueued` | `cut` | a full page may leave the rest of its last ledger, and an event that does not decode is passed |
| `MirrorFollows` | `unmirrored` | the writer may record a deadline older than the event already mirrored; an event may not decode |
| `SessionIsOwn` | `overlapped` | two starts, or a start and an event, may each hold the session before |
| `NotesAreKept` | `cutShort` | a stop between queueing and the alert |
| `MovesAreListed`, `RowsMoveAsListed` | `stale`, `Overtaken` | a whole-row write or an update decided on an older row |
| `ReceivedNeverDrops` | `unresolved` | a pull that could not resolve its loan writes null |
| `WarnedOnce` | a fault of the watcher | a warning whose level could not be written is repeated |
| `AccountSound` | `crossed` | a creation that lands after the row was judged |
| `CacheIsNewest` | replicas that mint beside each other | Daraja ends the older token, and the call is repeated |

## Findings

Each is the counterexample of a run that expects one.

- **`failed_send`.** `sendUSDC` reports a payment that failed on the ledger as
  `ErrTransactionFailed`, its cause kept only as text, while the poller waits
  for `ErrTransactionFailedOnLedger` to release the claim. Such a loan is never
  retried, against classic.go:748, withdrawal.go:208 and
  docs/offramp/moneygram.md:227. With a `SendUSDC` that reports it
  (`Reports` holds `on_ledger`), the poller does what the documents say.
- **`resubmit`.** When parking a repay of unknown outcome fails, the next tick
  repays again although docs/onramp/moneygram.md:240 rules that out. A shutdown
  during the repay leads there, as the park write uses the cancelled context.
- **`payouts_twice`.** `tryDirectSettlement` takes every error of `SendUSDC` for a
  transfer that did not happen and falls back to fiat (offramp_yellowcard.go:376,
  :128). An answer lost after the transfer landed pays the loan twice. The
  theorem `PaidTwiceNeedsMisjudgement` says that this is the only way to.

### Divergences met by reading

These needed no run; the models follow the code.

- Vault. docs/soroban/vault.md:74 and :52 gate `bump_yield` and the previews on the
  pause, which the contract does not (its comment on `bump_yield` says it should
  not); :157 says `ExceedsMaxRedeem` is not raised, and `redeem` and
  `request_redeem` raise it.
- Deposit. The pay instructions are sent before their marker is written (`Instruct`,
  `MarkPay`; deposit.go:614, :617), so a failed send is repeated and a failed marker
  repeats the text. docs/onramp/moneygram.md:150-155, deposit.go:113-116 and :623-624
  and mgpoller/doc.go:51-55 describe the opposite order: the marker is spent first
  and a failed send is terminal for the loan, its borrower never told. The log at
  :635, "will retry next tick", agrees with the code. `ToldHowToPay` states the code
  against those texts, and its mutant `InstructMarkedFirst` is the order they describe.
- Deposit. The
  deadline is compared with a clock read later than the status, so a borrower who
  commits in between loses the quote (deposit.go:293, :352). A stop between
  counting the last failure and the alert means no alert (deposit.go:549). The
  alert at :523 says the full payoff is repaid, the driver repays the debt at the
  current index.
- Submission. Equal calls signed within one second share a hash.
- Login. The controller sets its token in the cookie "auth_token"
  (auth_controller.go) while `RequireAuth` reads "admin_token"
  (auth_middleware.go): the client has to carry it over.
- Users. Counting the administrators and taking one away are two statements
  (user_service.go:613): two calls about two administrators leave none, against
  user/doc.go:34 "the last remaining admin cannot be deleted".
- Airtel. At the page ceiling `walk` returns no error and the sweep advances its cursor,
  where summary.go:30-33 and the log at :155 say that it stays. The payments of the
  rest of the window are left to the enquiry and the callbacks.
- Bookkeeping. A status update decided on an older row may leave a final status:
  the statement does not repeat the condition the service checked
  (transaction_service.go:317).
- Boot. A listener that cannot bind, or fails later, is logged and `main` waits for a
  signal all the same (microvault/main.go:380). `Ready` returns without its read
  lock when the connection is missing (database.go:83); `LockStopsNobody` says why
  nothing waits for it today: no connection is opened or closed after the
  database's.
- Credentials. mpesa/auth.go:33 "A shared store makes the mint happen once for the
  whole cluster": two replicas that read an empty store both mint. mpesa.go:187 "One
  retry covers that": a late eviction drops the token just minted. An Airtel key
  with an unreadable expiry never expires. `doHTTPWithRetry` repeats a POST after a
  broken connection, so an anchor may open two transactions. Waiters of a shared
  mint fail with the leader's cancelled context.
- Screening. elliptic/verdict.go:5 calls sanctions absolute, and :22 asks for pending
  first (which permits nothing either). The rate cache of moneygram/fx.go keeps
  whichever concurrent fetch wrote last, not the latest.
- Verification. Overlapping starts make two sessions; `RecordEvent` reads the
  session and writes the status in two statements, so that an event of a replaced
  session may count. An event before `SetSession` is answered and dropped. An
  alert between `Enqueue` and `Raise` is lost with the process.
- Allowlist. lifecycle.go:146 "It can only tighten": `Recheck` decides on a row read
  before its screening. A stop between settling a signal and its alert leaves it
  untold.
- Accounts. A healthy own account may be flagged as a conflict
  (docs/stellar/client.md:132); `AccountExists` reads an outage as a missing
  account, so that an outage spends an attempt (accountheal/reconciler.go:107).
- Registrations. `EnsureAccountIndexFloor` reads and then sets the sequence, which
  a second process may draw from in between. National IDs are unique by spelling
  while the pilot list normalises. The list is asked at dial and registration
  only.
- M-Pesa. The pull logs a failed upsert and moves on (pull.go:82 says otherwise); a
  row it confirms leaves the queue of the query; a pull repeated for a payment
  whose loan cannot be resolved drops what it had received.
- References. daraja_callback_controller.go:223 asks that a reference "resolve to an
  open loan"; the query asks that its row is not deleted (mpesa_repository.go:199), so
  that a payment for a loan that was repaid is accepted. `Resolve` goes on with the look-up after `checkBearer` refused, since
  the refusal is written as a nil error; the status stays 401. A legacy reference is
  never accepted by `C2BValidation`, whose check it does not pass, though the query and
  the pull know it. The check character is a sum, which two exchanged characters keep.
- Ussd. `navBackTargets` has no entry for the loan request's first prompt, so the
  offered "0 Back" repeats the prompt (handler.go:1990, navigation.go:189).

## Proofs

Eight modules, each checked by `tlapm`, to the last leaf, for every value of the
constants. They assume what the named `ASSUME`s of the models say, which TLC
evaluates in every run: amounts, bounds and times are natural numbers, the sets
of numbers are sets of them, `Scale` and `Wad` are positive, compound factors
are at least 1, the vault's own address is no depositor's, the cap is below one
unit, the receipts, pushes and processes are finitely many. The bounds on
counters are constants like the others: the theorems hold for all of them, and
so for runs of any length. Those about the parts of a composition are stated of
the composition, whose Spec is the one the run checks.

Every safety property of a passing run has its theorem, but for those given under
*Only model-checked*. Each proof has the same plan: an inductive
invariant, checked by TLC before it was proved; one lemma for each action, and
in it one step for each part the action can disturb; a theorem that puts them
together with `PTL`.

### Vault (`VaultProofs`)

`Inv` is `TypeOK`, `Accounts`, `EscrowBacked`, `Window`, `HeadAtTail` and
`AllowedHasNoDeadline`. The type invariant does not stand alone: that an
escrow's balance stays a natural number when a request is filled needs the queue
total to be the sum of the requests (`Accounts`) and the escrow to hold it
(`EscrowBacked`). Sums over functions are not computed by recursion, which the
provers cannot unfold, but described by a measure: `IsTotal(m, d, f)` says that
`m` assigns each subset of `d` the sum of `f` over it, and the lemmas say that
an update of one entry moves the total by as much. `Window` keeps ids between
head and tail, `HeadAtTail` says that the head stops at the tail when the queue
is empty, which is what lets an enqueue find its place.

From it: `TypeCorrect`, `TotalsHold` (the supply is the sum of the balances, the
queue total that of the requests), `EscrowHolds`, `WindowHolds`,
`QueueStaysSound`, `NoStaleDeadline`, and `VaultStaysSound` of both.

The action properties follow from a classification. `StepKinds` shows that each
step of the contract is of one of seven kinds: shares enter at a price rounded
against the depositor, leave at a price rounded against the one who leaves, fill
a request, USDC is lent, shares move, a request is released, or shares, queue
and payments rest. The properties are then proved of the kinds: `PriceHolds`
(with `PriceIn` and `PriceOut`, the arithmetic of a floor and a ceiling against
a product; only a write-off lowers a price), `LendingKeepsOrder`,
`QueueKeepsOrder`, `FrozenStaysUnpaid` and `LocksAlwaysHold`. `QuotesAlwaysFit`
proves, at every price a factor can give, that a quote of `max_withdraw`,
`max_redeem` and `max_mint` meets each condition the call itself states. The
hard case is that an amount quoted from shares costs no more shares than it was
quoted from (`ThereAndBack`).

### Interest (`InterestProofs`)

`RateIsContinuous` proves the shape of the curve under every ceiling: from one
utilization to the next, across the optimum too, the rate does not fall and
rises by no more than the steeper slope. `BooksInv` adds to the types that every
second not charged yet stands under the ceiling now in force (`OneCeiling`): a
change of the ceiling charges what is due before. With it
`CeilingAlwaysHonoured` proves that no accrual multiplies by more than
compounding the ceiling of each second would. Compounding is a recursive
function over seconds; the lemmas about it (`CompoundIsLast`, `CompoundMono`)
are proved by a least counterexample among the seconds (`EverySecond`, from the
well-foundedness of the naturals), which needs no theorem that takes an
operator.

`DebtStaysSound` proves that what the open loans owe by the index exceeds the
total debt by no more than the rounding of the charges. A bound in whole units
is not inductive, since each charge multiplies the error before it adds to it.
The invariant `RoundingCounted` counts in fractions instead: `Owing` gives a
denominator `d` and, for each prefix of the loans, a whole number `s[k]` so that
`s[k] / d` is exactly what those loans owe for each unit of the index; the
difference to the debt is then at most `e` times `index / (Wad + 1)`, where `e`
of the charges raised the index. That a charge which costs anything raises the
index by a unit (`ChargeCounts`) is what pays for its own rounding
(`ChargeKeepsSlack`); a loan changes the denominator and not the difference
(`OwingAfterLoan`, `LoanKeepsSlack`), and a payoff rounded down can only close
it (`OwingAfterPayoff`, `PayoffKeepsSlack`).

### Withdrawal and CashOut (`WithdrawalProofs`)

`IInv` is `Once`, `Settled`, `TypeOK`, `AnchorKnown`, `AmountsCovered` and
`StatusBars`. That a payment exists only under a claim is not inductive: a tick
acts on a snapshot, so the snapshot's "not claimed" must still be true where the
claim is written (`SnapshotFresh`), and a claim may be released only where the
last submission is known to have failed (`FateKnown`). `AmountsCovered` keeps an
amount found by a tick, or set aside by a failed repayment, covered by what came
back while it waits; `AnchorKnown` keeps a tick's view of the anchor in step
with it; `StatusBars` says which texts a status bars. From it `NeverPaidTwice`,
`RefundClosesRepaid`, `RowStaysSound`, and `ImplementsCashOut`: initial states
map to initial states and each step to a step of `CashOut` or a stutter. What a
set of transactions is worth is a fold over a finite set; its lemmas are proved
by a least counterexample under strict inclusion.

### Deposit (`DepositProofs`)

`RepayCostsLostRecord` and `ClosedOnlyOnceRepaid` rest on `RoomForOne`: while
the row is live and no repay is being settled, repays made and under way are
covered by records lost. `TreasuryMoneyIsKept` rests on `SeenCompleted`: a
handler that may move money acts for a transaction that the anchor completed.
`RowStaysSound` adds the markers of the texts.

### Requests (`RequestsProofs`, `ComplianceProofs`)

- *Payouts.* `PayoutsInv` has `FallbackIsSafe`: a fallback payment, the method
  fiat and a repaid vault are there only where YellowCard gave the USDC back or
  never had it, or `SendUSDC` misjudged a transfer.
  `PaidTwiceNeedsMisjudgement`, `RepaidNeedsUSDCHome` and `PayoutStaysSound`
  follow: the finding `payouts_twice` is the only way to pay a loan twice.
- *Submission.* `SubmissionInv` has `LandedInTime` (what landed did so inside
  its time bound), `CallsStand` (a call in progress agrees with its
  transaction's fate and file), `LeftAreOver` and `SentIsOnFile`.
  `CallsLandOnce`, `ToldOutcomesAreTrue`.
- *Credentials.* `CredentialsInv`: of the requests that share a replica's mint
  at most one is inside it (`OneFlight`), a replica that runs alone mints only
  on an empty cache (`MintsEmpty`), and a request performed and heard so asks no
  more (`Performed`). `CredentialsStaySound`.
- *Sign-in.* `LoginInv`: a challenge that no second verification held and whose
  delete did not fail admits once and is gone then (`Spent`), whoever is about
  to be admitted has signed (`AboutToEnter`), and every token was given on a look
  at the account not older than its life (`SessionsEnd`). `TokensStaySound` has it
  together with the tokens of the providers.
- *Relay.* `RouteInv` follows a request through its rounds: what it has heard is
  positive, from a source that serves the direction, and the best there was
  while no rate has moved (`Asked`); the best answers of a direction agree on
  the rate (`BestAgree`). `OrdersInv`: one order is in hand at a time
  (`OneInHand`) and one is paid (`OrdersPaidOnce`). `PaymentsStaySound`.
- *Dialogue.* `DialogueInv` states the menu structure as a map from each menu to
  the keys its session must hold (`Holds`) and the facts that must have happened
  (`InOrder`, `EarnedSoFar`), for the session and for the copy that a request
  running beside it reads. `DialogueStaysSound`.
- *Screening.* `ScreeningInv`: the setting's rows, the portal's calls in
  progress and the switch agree; decisions told to a person stand in the table
  (`Stands`), an approval has two people behind it (`TwoPeople`), and the switch
  never acts on a choice older than its time to live (`Followed`).
  `ApprovalNeedsEvidence` proves the verdicts: for every answer of every
  provider, nobody is approved unless each provider chosen answered and none
  objected.
- *Verification.* `VerificationInv` keeps what a delivery holds in hand in step
  with the session and the queue. `VerificationStaysSound`,
  `ComplianceStaysSound`.

`PartsMoveAlone` carries each of these to the composition (`RequestsStaySound`,
`RequestsTyped`, `DialogueSoundInServer`).

### Records (`RecordsProofs`)

- *Users.* `UsersInv`: a call in progress has the shape of its step
  (`CallsShaped`), attempts claimed are counted on the row and the last one
  locks it (`TriesCounted`), an administrator remains (`AdminRemains`), the last
  two but for calls decided on an older row or beside another.
  `PeopleStaySound`.
- *Registrations.* `RegInv`: the sequence is ahead of every index handed out,
  also those of transactions open and rolled back (`SequenceAhead`,
  `TransactionsAhead`), and while the configured bases are above it the ledger
  has nothing the sequence has yet to give (`LedgerBehind`), which is what a
  restored copy relies on.
- *M-Pesa, Airtel.* `MpesaInv` and `SweepInv`: a window read is whole, and what
  a sweep has read of its pages is confirmed or still in hand, entry by entry
  (`PlacesAreOwn`, `WindowRead`, `SweptIsConfirmed`). `CollectionsStaySound`,
  `ConfirmedRowsStand`, `CursorsStaySound`.
- *VaultWatch.* `WatchInv`: events are in order, the cursor is seeded before it
  moves, an event passed is queued, a row that waits has a try left
  (`RowsWait`), and without a fault what was warned of is on the row
  (`WarnedIsWritten`). `ExitIsTold`.
- *Bookkeeping.* `BooksInv`: a hash and a key are each on one row, and each call at
  work writes what is listed for the status it read, to a row that is there, or
  creates one that is not and that no other call creates (`CallsSound`). That no
  row is on two pages of a listing is arithmetic (`PagesStayApart`).
- *Boot.* `BootInv`: what runs was validated, a URL bound in production has a slug,
  the database is open exactly between its opening and its closing, and a
  request still at work then was left by a failed `Shutdown`. `CoreStaysSound`: `BootSound`,
  the part of `CoreSound` that is not about references.
- *References.* `ReferencesInv`: a reference is as `Generate` makes it, its check character
  that of what comes before (`WellFormed`), and the loan a payment was accepted for is the
  only one of that reference (`AcceptedIsNamed`). `AcceptedIsCredited`, and the part of
  `NothingIsTakenBack` that a loan's own reference is not refused: neither needs to know
  what the fold comes to.
- `NothingIsTakenBack` is the action property over all of them.

### Reconcilers (`ReconcilersProofs`)

`AccountInv`: a row is in conflict exactly while its index was recorded so
(`ConflictStands`), a call about to say that an account exists has seen it
(`CallsSaw`), and a row confirmed exists (`ConfirmedExists`).
`AccountStaysSound`. `AllowInv`: the writer sends one call at a time, of an
address its pass holds (`OneSent`), and while KYB is pending nothing is done on
the chain for an address nobody vouched for (`NobodyEnters`).
`NobodyEntersEarly`, `ReconcilersStaySound`, `ReconcilersTyped`.

### Only model-checked

- `QuotesHonoured` is stated with `ENABLED`, which the provers do not support.
  `QuotesAlwaysFit` proves its arithmetic; that the call has no other condition
  is TLC's.

- `SlipPaysNobody` (a part of `CoreSound`): the check character is a fold over a sequence,
  whose value under a change of one element is an induction over data. TLC checks
  every pair of loans and every slip of the small format.

- Liveness: `RefundsResolve`, `ToldHowToPay`, `FundsResolve`,
  `ReconcilersSettle`.

## Not modelled

- The timelock: its states and delays are in OpenZeppelin's library, not in this
  repository; what it owns of the vault is modelled by the calls' effect.
- Of the vault, `write_off_batch` and `process_queue` of more than one entry per
  call, the calls that replace a role or the code, `sweep_foreign_asset`,
  storage lifetime, `i128` overflow.
- HTTP controllers, notifications and their texts, the rates inside
  MoneyGram's and YellowCard's off-ramp clients, the web front end,
  generated documents, the command line tools but `mpesa-register`: decoding, formatting and wiring,
  without state that other calls race for.
- Clients' encoding of requests, signatures and most decoding of answers: that a pull
  page or an event may not decode is in the models. What a call
  may be answered is in the models; how the bytes look is not.
- B2C payouts and reversals, Airtel's disbursements and refunds, YellowCard's
  collections.
- The lending module is not in this repository: loans, schedules and balances
  appear as the contracts in `pkg/contracts` state them.

## Plan

1. `process_queue` over several entries and `write_off_batch`, as steps inside a
   call, shown to implement a sequence of Vault's single ones.
2. Airtel's disbursements and refunds, beside the payouts.
3. The callback idempotency cache, where two requests use one entry.
