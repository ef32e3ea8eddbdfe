------------------------------ MODULE Airtel ------------------------------
(***************************************************************************)
(* Money a borrower pays by an Airtel push, as the server learns of it.    *)
(* Airtel's callbacks stage a row and prove nothing; an enquiry (made by   *)
(* the lending module, which is not in this repository) or the summary     *)
(* sweep confirms it; a confirmed row that names its loan is converted     *)
(* once.  The sweep walks a window of time page by page, and its cursor    *)
(* says from where the next window starts.                                 *)
(*                                                                         *)
(* Time is a count of ticks; a payment settles at the tick it happens in.  *)
(***************************************************************************)
EXTENDS Naturals, FiniteSets

CONSTANTS Push,          \* the transaction ids the server minted
          AirtelTicks,   \* bound: the clock stops here
          PageSize,      \* entries in one page of the summary
          MaxPages,      \* pages one sweep reads
          AirtelFaults   \* bound: failed calls and stops of the process

ASSUME AirtelAssumption ==
    /\ AirtelTicks \in Nat /\ PageSize \in Nat \ {0}
    /\ MaxPages \in Nat \ {0} /\ AirtelFaults \in Nat /\ IsFiniteSet(Push)

VARIABLES
    collection,     \* Airtel's own record of each push
    airtelRow,      \* the airtel_transactions row of each push
    walk,           \* the sweep in progress
    summaryCursor,  \* airtel_summary_cursor.swept_to
    tick,           \* the time
    airtelFaults,   \* failures spent
    pastCeiling     \* history: settled pushes a full sweep left unread
airtelVars == <<collection, airtelRow, walk, summaryCursor, tick,
                airtelFaults, pastCeiling>>

-----------------------------------------------------------------------------
(* Rows *)

NoAirtelRow ==
    [there |-> FALSE, status |-> "none", confirmed |-> FALSE,
     receipt |-> FALSE, loan |-> FALSE, applied |-> FALSE, poll |-> FALSE]

\* A receipt comes only with word of a success.
Discloses(st) == st = "TS"

\* Mutant: a late callback rewrites a confirmed row.
updateFromCallbackAny(r, st) ==
    [r EXCEPT !.status = st, !.receipt = @ \/ Discloses(st)]

\* A later callback for a row already staged: confirmed rows are not
\* touched, a receipt is filled in and never cleared, the poll stands.
updateFromCallback(r, st) ==
    IF r.confirmed
    THEN r
    ELSE [r EXCEPT !.status = st, !.receipt = @ \/ Discloses(st)]

\* The first callback inserts the row, to be enquired about after a delay.
RecordAirtelCallback(r, st) ==
    IF r.there
    THEN updateFromCallback(r, st)
    ELSE [NoAirtelRow EXCEPT !.there = TRUE, !.status = st,
                             !.receipt = Discloses(st), !.poll = TRUE]

\* An enquiry settles the row; an empty receipt or loan leaves the column.
ConfirmAirtel(r, st, loan) ==
    [r EXCEPT !.confirmed = TRUE, !.status = st, !.poll = FALSE,
              !.receipt = @ \/ Discloses(st), !.loan = @ \/ loan]

\* What the sweep found is settled: it inserts the row or confirms it.  The
\* summary names no loan.
UpsertFromSummary(r) ==
    [r EXCEPT !.there = TRUE, !.status = "TS", !.confirmed = TRUE,
              !.receipt = TRUE, !.poll = FALSE]

-----------------------------------------------------------------------------
(* The summary and the window the sweep asks it for *)

NoWalk == [on |-> FALSE, from |-> 0, to |-> 0, page |-> 0]

Finished(p) == collection[p].st \in {"TS", "TF"}

\* The entries of a window, in the order they finished, and its pages.
Listed(from, to) == {p \in Push : Finished(p) /\ collection[p].at \in from..to}

Rank(p, entries) ==
    Cardinality({q \in entries : collection[q].place <= collection[p].place})

SummaryPage(from, to, n) ==
    LET entries == Listed(from, to)
    IN  {p \in entries : Rank(p, entries) \in (n * PageSize + 1)..((n + 1) * PageSize)}

\* Only entries that succeeded and whose amount parses are recorded.
Recordable(p) == collection[p].st = "TS" /\ collection[p].legible

AirtelInit ==
    /\ collection = [p \in Push |-> [st |-> "TIP", at |-> 0, place |-> 0,
                                     legible |-> TRUE]]
    /\ airtelRow = [p \in Push |-> NoAirtelRow]
    /\ walk = NoWalk
    /\ summaryCursor = 0
    /\ tick = 0
    /\ airtelFaults = 0
    /\ pastCeiling = {}

-----------------------------------------------------------------------------
(* Airtel and the passing of time *)

AirtelTick ==
    /\ tick < AirtelTicks
    /\ tick' = tick + 1
    /\ UNCHANGED <<collection, airtelRow, walk, summaryCursor, airtelFaults,
                   pastCeiling>>

\* The borrower answers the prompt, or does not.
SettleCollection(p) ==
    /\ ~Finished(p)
    /\ \E st \in {"TS", "TF"}, legible \in BOOLEAN :
          /\ st = "TF" => legible
          /\ collection' = [collection EXCEPT ![p] =
                [st |-> st, at |-> tick, legible |-> legible,
                 place |-> 1 + Cardinality({q \in Push : Finished(q)})]]
    /\ UNCHANGED <<airtelRow, walk, summaryCursor, tick, airtelFaults,
                   pastCeiling>>

\* A callback proves nothing: any status may come for any push, late, twice
\* or never, and say TS of a payment that is open or failed.
CollectionCallback(p) ==
    /\ \E st \in {"TIP", "TF", "TS"} :
          airtelRow' = [airtelRow EXCEPT ![p] = RecordAirtelCallback(@, st)]
    /\ UNCHANGED <<collection, walk, summaryCursor, tick, airtelFaults,
                   pastCeiling>>

-----------------------------------------------------------------------------
(* The lending module's use of the rows *)

\* The enquiry is the authority: it confirms what finished, and gives up on
\* or postpones what did not.
Enquire(p) ==
    /\ airtelRow[p].there
    /\ \/ /\ Finished(p)
          /\ airtelRow' = [airtelRow EXCEPT ![p] =
                ConfirmAirtel(@, collection[p].st, collection[p].st = "TS")]
       \/ /\ ~Finished(p)
          /\ airtelRow[p].poll
          /\ airtelRow' = [airtelRow EXCEPT ![p].poll = FALSE]
    /\ UNCHANGED <<collection, walk, summaryCursor, tick, airtelFaults,
                   pastCeiling>>

\* ListUnappliedConfirmed, then SetAppliedStroops.
UnappliedAirtel(r) == r.confirmed /\ r.loan /\ ~r.applied

ApplyAirtel(p) ==
    /\ UnappliedAirtel(airtelRow[p])
    /\ airtelRow' = [airtelRow EXCEPT ![p].applied = TRUE]
    /\ UNCHANGED <<collection, walk, summaryCursor, tick, airtelFaults,
                   pastCeiling>>

-----------------------------------------------------------------------------
(* The summary sweep *)

WindowOpen == summaryCursor < tick

StartSummary ==
    /\ ~walk.on
    /\ WindowOpen
    /\ walk' = [on |-> TRUE, from |-> summaryCursor, to |-> tick, page |-> 0]
    /\ UNCHANGED <<collection, airtelRow, summaryCursor, tick, airtelFaults,
                   pastCeiling>>

Recorded(ps) ==
    [p \in Push |-> IF p \in ps /\ Recordable(p)
                    THEN UpsertFromSummary(airtelRow[p]) ELSE airtelRow[p]]

\* Mutant: no ceiling on the pages of a sweep.
WalkEndsShort(entries) == Cardinality(entries) < PageSize

\* After a page: a short one ends the window; a full one is followed by the
\* next, and after the last page a sweep may read it ends the same way.
WalkEnds(entries) == Cardinality(entries) < PageSize \/ walk.page + 1 = MaxPages

\* What a full sweep leaves unread.
Unread == {p \in Listed(walk.from, walk.to) :
              /\ Recordable(p)
              /\ \A n \in 0..walk.page : p \notin SummaryPage(walk.from, walk.to, n)}

\* Mutant: the cursor advances after a failed page too.
AdvanceSummaryAlways(moved) == summaryCursor' = walk.to

AdvanceSummary(moved) == summaryCursor' = IF moved THEN walk.to ELSE summaryCursor

ReadPage ==
    /\ walk.on
    /\ LET entries == SummaryPage(walk.from, walk.to, walk.page)
       IN  /\ airtelRow' = Recorded(entries)
           /\ IF WalkEnds(entries)
              THEN /\ walk' = NoWalk
                   /\ AdvanceSummary(TRUE)
                   /\ pastCeiling' = pastCeiling \cup Unread
              ELSE /\ walk' = [walk EXCEPT !.page = @ + 1]
                   /\ UNCHANGED <<summaryCursor, pastCeiling>>
    /\ UNCHANGED <<collection, tick, airtelFaults>>

\* The page cannot be fetched, an entry of it cannot be written, or the
\* process stops: what was recorded stays, the cursor stays, and the window
\* is walked again.
FailPage ==
    /\ walk.on
    /\ airtelFaults < AirtelFaults
    /\ airtelFaults' = airtelFaults + 1
    /\ LET entries == SummaryPage(walk.from, walk.to, walk.page)
       IN  \E n \in 0..Cardinality(entries) :
              airtelRow' = Recorded({p \in entries : Rank(p, entries) <= n})
    /\ AdvanceSummary(FALSE)
    /\ walk' = NoWalk
    /\ UNCHANGED <<collection, tick, pastCeiling>>

AirtelNext ==
    \/ AirtelTick
    \/ \E p \in Push : SettleCollection(p)
    \/ \E p \in Push : CollectionCallback(p)
    \/ \E p \in Push : Enquire(p)
    \/ \E p \in Push : ApplyAirtel(p)
    \/ StartSummary
    \/ ReadPage
    \/ FailPage

AirtelSpec == AirtelInit /\ [][AirtelNext]_airtelVars

-----------------------------------------------------------------------------
(* Properties *)

\* Every variable keeps its shape, and a sweep reads no more than its pages.
AirtelTypeOK ==
    /\ collection \in [Push -> [st : {"TIP", "TS", "TF"}, at : 0..AirtelTicks,
                                place : 0..Cardinality(Push), legible : BOOLEAN]]
    /\ airtelRow \in [Push -> [there : BOOLEAN, confirmed : BOOLEAN,
                               status : {"none", "TIP", "TS", "TF"},
                               receipt : BOOLEAN, loan : BOOLEAN,
                               applied : BOOLEAN, poll : BOOLEAN]]
    /\ walk \in [on : BOOLEAN, from : 0..AirtelTicks, to : 0..AirtelTicks,
                 page : 0..(MaxPages - 1)]
    /\ summaryCursor \in 0..tick
    /\ tick \in 0..AirtelTicks
    /\ airtelFaults \in 0..AirtelFaults
    /\ pastCeiling \subseteq Push

\* However callbacks are delayed, repeated or reordered around the enquiry
\* and the sweep, a confirmed row says what Airtel's own record says, and
\* only a payment that succeeded is converted ("a late callback must not walk
\* a settled row back").
ConfirmedIsFinal ==
    \A p \in Push :
        /\ airtelRow[p].confirmed => airtelRow[p].status = collection[p].st
        /\ airtelRow[p].applied => collection[p].st = "TS"

\* A receipt once recorded, the only key a refund accepts, is never cleared
\* by a notification that carries none.
ReceiptKept ==
    [][\A p \in Push : airtelRow[p].receipt => airtelRow'[p].receipt]_airtelVars

\* A settled payment that lies before the cursor is recorded and confirmed,
\* through failed pages, crashes and payments that settle while a window is
\* walked; only a full sweep leaves any behind.  Of such a window summary.go:30-33
\* and :155 say that "the cursor does not advance, and the next tick resumes the same
\* window rather than skipping what it missed"; the code advances it, since walk
\* returns no error.
SweptIsConfirmed ==
    \A p \in Push :
        /\ Recordable(p)
        /\ collection[p].at < summaryCursor
        /\ p \notin pastCeiling
        => airtelRow[p].confirmed
=============================================================================
