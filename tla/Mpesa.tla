------------------------------- MODULE Mpesa -------------------------------
(***************************************************************************)
(* M-Pesa payments as the server learns of them: the callbacks Daraja      *)
(* posts, which nothing signs and which therefore only stage rows, and the *)
(* pull sweep, which asks Daraja what settled in a window of time and      *)
(* confirms it.  The lending module (not in this repository) queries the   *)
(* prompts it made, and converts the confirmed paybill rows of a loan; the *)
(* sum of what it converted is what the loan has received.                 *)
(*                                                                         *)
(* All payments are of one loan.  Time is a count of ticks.                *)
(***************************************************************************)
EXTENDS Naturals, FiniteSets

CONSTANTS Receipt,      \* M-Pesa receipts: settled, or made up by a caller
          MpesaTicks,   \* bound: the clock stops here
          MpesaFaults   \* bound: failed calls, failed writes and stops

ASSUME MpesaAssumption ==
    MpesaTicks \in Nat /\ MpesaFaults \in Nat /\ IsFiniteSet(Receipt)

VARIABLES
    settled,      \* settled[r]: the tick the payment settled in, or NotYet
    mpesaRow,     \* the mpesa_transactions row of each receipt
    pull,         \* the sweep in progress
    pullCursor,   \* mpesa_pull_cursor.swept_to
    hour,         \* the time
    mpesaFaults,  \* failures spent
    unwritten,    \* history: receipts a sweep passed over, see StartPull, Reconcile
    unresolved    \* history: rows rewritten while the loan lookup failed
mpesaVars == <<settled, mpesaRow, pull, pullCursor, hour, mpesaFaults,
               unwritten, unresolved>>

NotYet == MpesaTicks + 1
Paid(r) == settled[r] # NotYet

-----------------------------------------------------------------------------
(* Rows *)

NoMpesaRow == [source |-> "none", confirmed |-> FALSE, loan |-> FALSE,
               applied |-> FALSE, poll |-> FALSE]

There(row) == row.source # "none"

\* A receipt is inserted once; a repeated callback is answered 200 and dropped.
RecordObservation(row, source, poll) ==
    IF There(row) THEN row
    ELSE [NoMpesaRow EXCEPT !.source = source, !.poll = poll]

\* Mutant: the pull never attributes a row that a callback staged.
UpdateFieldsUnattributed(row, loan) ==
    [row EXCEPT !.loan = FALSE, !.confirmed = TRUE]

\* The pull's values replace the row's, an unresolved loan included.
UpdateFields(row, loan) == [row EXCEPT !.loan = loan, !.confirmed = TRUE]

UpsertFromPull(row, loan) ==
    IF There(row)
    THEN UpdateFields(row, loan)
    ELSE [NoMpesaRow EXCEPT !.source = "pull", !.confirmed = TRUE, !.loan = loan]

\* What the loan has received: the rows already converted that name it.
SumAppliedStroopsByLoan ==
    Cardinality({r \in Receipt : mpesaRow[r].applied /\ mpesaRow[r].loan})

-----------------------------------------------------------------------------
NoPull == [on |-> FALSE, to |-> 0, left |-> {}]

MpesaInit ==
    /\ settled = [r \in Receipt |-> NotYet]
    /\ mpesaRow = [r \in Receipt |-> NoMpesaRow]
    /\ pull = NoPull
    /\ pullCursor = 0
    /\ hour = 0
    /\ mpesaFaults = 0
    /\ unwritten = {}
    /\ unresolved = 0

MpesaTick ==
    /\ hour < MpesaTicks
    /\ hour' = hour + 1
    /\ UNCHANGED <<settled, mpesaRow, pull, pullCursor, mpesaFaults, unwritten,
                   unresolved>>

\* The borrower pays, at the prompt or to the paybill.
Pay(r) ==
    /\ ~Paid(r)
    /\ settled' = [settled EXCEPT ![r] = hour]
    /\ UNCHANGED <<mpesaRow, pull, pullCursor, hour, mpesaFaults, unwritten,
                   unresolved>>

Observed(r, source, poll) ==
    /\ mpesaRow' = [mpesaRow EXCEPT ![r] = RecordObservation(@, source, poll)]
    /\ UNCHANGED <<settled, pull, pullCursor, hour, mpesaFaults, unwritten,
                   unresolved>>

\* A success callback for a prompt is staged for the poller; a failed one is
\* dropped.  Nothing tells a callback about a real payment from another.
STKCallback(r) == Observed(r, "stk", TRUE)

\* A paybill confirmation names no loan and asks for no poll: the pull sweep
\* attributes and confirms it.
C2BConfirmation(r) == Observed(r, "c2b", FALSE)

\* The answer to a query about the receipt, or word that the query timed out,
\* which leaves the row to be asked about again.
AsyncResult(r) == \E timeout \in BOOLEAN : Observed(r, "status", timeout)

-----------------------------------------------------------------------------
(* The lending module's use of the rows *)

\* A due row is queried: a settled payment is confirmed for its loan, any
\* other answer ends or postpones the polling.
Query(r) ==
    /\ mpesaRow[r].poll /\ ~mpesaRow[r].confirmed
    /\ mpesaRow' = [mpesaRow EXCEPT ![r] =
          IF Paid(r)
          THEN [@ EXCEPT !.confirmed = TRUE, !.loan = TRUE, !.poll = FALSE]
          ELSE [@ EXCEPT !.poll = FALSE]]
    /\ UNCHANGED <<settled, pull, pullCursor, hour, mpesaFaults, unwritten,
                   unresolved>>

\* ListUnappliedConfirmed: the paybill rows; a prompt's row is settled by the
\* loan's own poller.
UnappliedMpesa(row) ==
    row.confirmed /\ row.loan /\ ~row.applied /\ row.source \in {"c2b", "pull"}

ApplyMpesa(r) ==
    /\ UnappliedMpesa(mpesaRow[r])
    /\ mpesaRow' = [mpesaRow EXCEPT ![r].applied = TRUE]
    /\ UNCHANGED <<settled, pull, pullCursor, hour, mpesaFaults, unwritten,
                   unresolved>>

-----------------------------------------------------------------------------
(* The pull sweep *)

PullDue == pullCursor < hour

InWindow == {r \in Receipt : Paid(r) /\ settled[r] >= pullCursor}

\* PullAll reads pages up to an empty one.  A page that does not decode reads
\* as empty, so the walk ends there without an error and what the page and
\* those after it list is unread.
PullAll(unread) == InWindow \ unread

\* The window runs from the cursor to now.
StartPull ==
    /\ ~pull.on
    /\ PullDue
    /\ \E unread \in SUBSET InWindow :
          /\ pull' = [on |-> TRUE, to |-> hour, left |-> PullAll(unread)]
          /\ unwritten' = unwritten \cup unread
          /\ \/ unread = {} /\ UNCHANGED mpesaFaults
             \/ /\ unread # {} /\ mpesaFaults < MpesaFaults
                /\ mpesaFaults' = mpesaFaults + 1
    /\ UNCHANGED <<settled, mpesaRow, pullCursor, hour, unresolved>>

\* One pulled payment is written; its reference may not resolve to the loan.
Reconcile(r) ==
    /\ r \in pull.left
    /\ pull' = [pull EXCEPT !.left = @ \ {r}]
    /\ \/ /\ mpesaRow' = [mpesaRow EXCEPT ![r] = UpsertFromPull(@, TRUE)]
          /\ UNCHANGED <<mpesaFaults, unwritten, unresolved>>
       \/ /\ mpesaFaults < MpesaFaults
          /\ mpesaFaults' = mpesaFaults + 1
          /\ mpesaRow' = [mpesaRow EXCEPT ![r] = UpsertFromPull(@, FALSE)]
          /\ unresolved' = unresolved + 1
          /\ UNCHANGED unwritten
       \/ /\ mpesaFaults < MpesaFaults
          /\ mpesaFaults' = mpesaFaults + 1
          /\ unwritten' = unwritten \cup {r}
          /\ UNCHANGED <<mpesaRow, unresolved>>
    /\ UNCHANGED <<settled, pullCursor, hour>>

\* Mutant: the cursor moves to the time the sweep ends, not the window's end.
SweptToNow == hour

SweptTo == pull.to

\* Everything read was written, or logged as not written.
FinishPull ==
    /\ pull.on
    /\ pull.left = {}
    /\ pull' = NoPull
    /\ pullCursor' = SweptTo
    /\ UNCHANGED <<settled, mpesaRow, hour, mpesaFaults, unwritten, unresolved>>

\* The query fails, the process stops in the middle of the window, or the
\* cursor cannot be written: the next sweep walks the window again.
AbandonPull ==
    /\ pull.on
    /\ mpesaFaults < MpesaFaults
    /\ mpesaFaults' = mpesaFaults + 1
    /\ pull' = NoPull
    /\ UNCHANGED <<settled, mpesaRow, pullCursor, hour, unwritten, unresolved>>

MpesaNext ==
    \/ MpesaTick
    \/ \E r \in Receipt : Pay(r)
    \/ \E r \in Receipt : STKCallback(r)
    \/ \E r \in Receipt : C2BConfirmation(r)
    \/ \E r \in Receipt : AsyncResult(r)
    \/ \E r \in Receipt : Query(r)
    \/ \E r \in Receipt : ApplyMpesa(r)
    \/ StartPull
    \/ \E r \in Receipt : Reconcile(r)
    \/ FinishPull
    \/ AbandonPull

MpesaSpec == MpesaInit /\ [][MpesaNext]_mpesaVars

-----------------------------------------------------------------------------
(* Properties *)

\* Every variable keeps its shape; a window never starts behind the cursor.
MpesaTypeOK ==
    /\ settled \in [Receipt -> 0..NotYet]
    /\ mpesaRow \in [Receipt -> [source : {"none", "stk", "c2b", "status", "pull"},
                                 confirmed : BOOLEAN, loan : BOOLEAN,
                                 applied : BOOLEAN, poll : BOOLEAN]]
    /\ pull \in [on : BOOLEAN, to : 0..MpesaTicks, left : SUBSET Receipt]
    /\ pullCursor \in 0..hour
    /\ pull.on => pullCursor < pull.to
    /\ hour \in 0..MpesaTicks
    /\ mpesaFaults \in 0..MpesaFaults
    /\ unwritten \subseteq Receipt /\ unresolved \in 0..mpesaFaults

\* Nothing is credited on the strength of a notification: whatever callbacks
\* arrive, and however they interleave with the query and the sweep, a row is
\* confirmed or converted only for a payment that settled.
CreditedOnlyIfPaid ==
    \A r \in Receipt : mpesaRow[r].confirmed \/ mpesaRow[r].applied => Paid(r)

\* A payment that settled before the cursor is confirmed, whichever callback
\* staged its row first and whatever settles during a sweep; only what a sweep
\* could not write (and logged) or could not read is passed over.
PulledIsConfirmed ==
    \A r \in Receipt :
        settled[r] < pullCursor /\ r \notin unwritten => mpesaRow[r].confirmed

\* The books and M-Pesa agree: nothing is credited that was not paid, nothing
\* paid is passed over.
MpesaSound == CreditedOnlyIfPaid /\ PulledIsConfirmed

\* What a loan has received never goes down, a window walked twice included,
\* unless the repeated pull could not resolve the loan's reference.
ReceivedNeverDrops ==
    [][ \/ SumAppliedStroopsByLoan' >= SumAppliedStroopsByLoan
        \/ unresolved' # unresolved ]_mpesaVars
=============================================================================
