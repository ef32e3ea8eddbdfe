---------------------------- MODULE VaultWatch ----------------------------
(***************************************************************************)
(* The watcher of the vault's events and the screener of the deposits it   *)
(* finds.  The watcher's cursor is a ledger number: a page of events is    *)
(* inspected from it on, each deposit is queued for screening, each exit   *)
(* deadline of the (one) depositor watched is mirrored, and the cursor     *)
(* moves past the last ledger inspected, or stops at a deposit that could  *)
(* not be queued.  Each tick ends by warning of a mirrored deadline that   *)
(* comes within a week, and again within a day.  The on-chain writer       *)
(* mirrors deadlines too, with a value it read before.                     *)
(***************************************************************************)
EXTENDS Integers, Sequences, FiniteSets

CONSTANTS MaxEvents,        \* bound: events the vault emits
          MaxNow,           \* bound: days that pass
          PageLimit,        \* events in one page
          Tries,            \* attempts to screen a deposit
          WatchFaults       \* bound: failed writes and stops

ASSUME VaultWatchAssumption ==
    /\ PageLimit \in Nat \ {0} /\ Tries \in Nat \ {0}
    /\ MaxEvents \in Nat /\ MaxNow \in Nat /\ WatchFaults \in Nat

VARIABLES
    events,       \* the vault's events in order: ledger, and what happened
    ledger,       \* the latest closed ledger
    watchCursor,  \* vault_watch_cursor.last_ledger, 0 until seeded
    screening,    \* the deposit_screenings row of each event
    exit,         \* the mirrored exit_deadline and exit_warning_level
    now,          \* the day
    held,         \* a deadline the on-chain writer has read and not written
    watchFaults,
    seed,         \* history: the ledger the cursor was seeded with
    cut,          \* history: events a full page left behind, deposits not decoded
    warned,       \* history: levels warned of since the mirror last changed
    rewarned,     \* history: a level was warned of twice, or after a nearer
    unmirrored    \* history: a deadline was not decoded or not mirrored, or the
                  \* writer recorded a value that an event had outlived
watchVars == <<events, ledger, watchCursor, screening, exit, now, held,
               watchFaults, seed, cut, warned, rewarned, unmirrored>>

NoDeadline == 0
NotHeld == -1
Deadlines == {NoDeadline, MaxNow}      \* days a deadline may fall on
Funds == -1                            \* a deposit
What == {Funds} \cup Deadlines

-----------------------------------------------------------------------------
(* The vault *)

Deposits == {n \in 1..Len(events) : events[n].what = Funds}
DeadlineEvents == {n \in 1..Len(events) : events[n].what # Funds}
Newest(ns) == CHOOSE n \in ns : \A m \in ns : m <= n

\* exit_deadline of the contract: the last one set or cleared.
ChainDeadline ==
    IF DeadlineEvents = {} THEN NoDeadline ELSE events[Newest(DeadlineEvents)].what

\* The events from the cursor on, and the page of the oldest ones.
Before == Cardinality({n \in 1..Len(events) : events[n].at < watchCursor})
From == (Before + 1)..Len(events)
Page == From \cap ((Before + 1)..(Before + PageLimit))

-----------------------------------------------------------------------------
(* Exit deadlines and their warnings *)

\* Mutant: a cleared deadline is not mirrored.
SetExitDeadlineKept(e, deadline) ==
    IF deadline \in {e.deadline, NoDeadline} THEN e
    ELSE [deadline |-> deadline, level |-> 0]

\* A changed deadline starts its warnings over.
SetExitDeadline(e, deadline) ==
    IF deadline = e.deadline THEN e ELSE [deadline |-> deadline, level |-> 0]

\* The mirror after the deadline events in ns were written in order: an event
\* that differed starts the warnings over even when a later one agrees again.
Mirrored(ns) ==
    LET ds      == ns \cap DeadlineEvents
        changed == \E n \in ds : events[n].what # exit.deadline
    IN  IF ds = {} THEN exit
        ELSE [SetExitDeadline(exit, events[Newest(ds)].what) EXCEPT
                 !.level = IF changed THEN 0 ELSE @]

\* Level 2 is warned of within a day and level 1 within seven (here two).
Window(level) == IF level = 2 THEN 1 ELSE 2

Closing(level, e) ==
    e.deadline > now /\ e.deadline <= now + Window(level) /\ e.level < level

\* checkExitWindows: the levels warned of, level 2 first, so that a deadline
\* first seen within a day is warned of once.  A level is written after its
\* warning, which may fail.
Levels(mirror, failing) ==
    IF Closing(2, mirror)
    THEN IF 2 \in failing /\ Closing(1, mirror) THEN {1, 2} ELSE {2}
    ELSE IF Closing(1, mirror) THEN {1} ELSE {}

Written(mirror, levels) ==
    IF levels = {} THEN mirror
    ELSE [mirror EXCEPT !.level = CHOOSE l \in levels : \A k \in levels : l <= k]

Warn(mirror, levels, failing) ==
    /\ exit' = Written(mirror, levels \ failing)
    /\ warned' = levels \cup (IF mirror = exit THEN warned ELSE {})
    /\ rewarned' = (rewarned \/ levels = {1, 2}
                        \/ (mirror = exit /\ \E l \in levels, w \in warned : l <= w))

-----------------------------------------------------------------------------
(* Screenings *)

NotQueued == [st |-> "none", tries |-> 0]

\* The event id is unique: a deposit seen again is left alone.
Enqueue(s) == IF s.st = "none" THEN [s EXCEPT !.st = "queued"] ELSE s

Queued(ns) ==
    [n \in 1..MaxEvents |->
        IF n \in ns /\ n \in Deposits THEN Enqueue(screening[n]) ELSE screening[n]]

\* Mutant: the cursor stops past the ledger of the deposit not queued.
StopAtPast(n) == events[n].at + 1

StopAt(n) == events[n].at

-----------------------------------------------------------------------------
VaultWatchInit ==
    /\ events = <<>> /\ ledger = 1 /\ watchCursor = 0
    /\ screening = [n \in 1..MaxEvents |-> NotQueued]
    /\ exit = [deadline |-> NoDeadline, level |-> 0]
    /\ now = 0 /\ held = NotHeld /\ watchFaults = 0
    /\ seed = 0 /\ cut = {} /\ warned = {} /\ rewarned = FALSE /\ unmirrored = FALSE

\* A ledger closes with one or two events.
Close ==
    \E some \in [1..1 -> What] \cup [1..2 -> What] :
        /\ Len(events) + Len(some) <= MaxEvents
        /\ ledger' = ledger + 1
        /\ events' = events \o [i \in 1..Len(some) |-> [at |-> ledger + 1, what |-> some[i]]]
        /\ UNCHANGED <<watchCursor, screening, exit, now, held, watchFaults,
                       seed, cut, warned, rewarned, unmirrored>>

DayPasses ==
    /\ now < MaxNow
    /\ now' = now + 1
    /\ UNCHANGED <<events, ledger, watchCursor, screening, exit, held,
                   watchFaults, seed, cut, warned, rewarned, unmirrored>>

-----------------------------------------------------------------------------
(* The watcher *)

\* An unseeded cursor starts at the latest ledger.
Seed ==
    /\ watchCursor = 0
    /\ watchCursor' = ledger
    /\ seed' = ledger
    /\ UNCHANGED <<events, ledger, screening, exit, now, held, watchFaults,
                   cut, warned, rewarned, unmirrored>>

\* Events are inspected of which some are dropped: DecodeVaultEvent refuses
\* them, or a deadline cannot be mirrored; the cursor passes them like any
\* other.  The level of some warning cannot be written, and own more faults
\* befall the tick: each counts.  A full page leaves the events left behind.
Inspect(seen, own, left) ==
    \E dropped \in SUBSET seen, failing \in SUBSET {1, 2} :
    \E mirror \in {Mirrored(seen \ dropped)} : \E levels \in {Levels(mirror, failing)} :
        /\ failing \subseteq levels
        /\ watchFaults' = watchFaults + Cardinality(dropped) + Cardinality(failing) + own
        /\ watchFaults' <= WatchFaults
        /\ screening' = Queued(seen \ dropped)
        /\ Warn(mirror, levels, failing)
        /\ unmirrored' = (unmirrored \/ dropped \cap DeadlineEvents # {})
        /\ cut' = cut \cup left \cup (dropped \cap Deposits)

\* A page is inspected and all its deposits queued: the cursor moves past the
\* last ledger of the page, or past the latest when there was nothing.
Watch ==
    /\ watchCursor # 0
    /\ \E page \in {Page} :
       \E next \in {IF page = {} THEN ledger + 1 ELSE events[Newest(page)].at + 1} :
          /\ Inspect(page, 0, {n \in From \ page : events[n].at < next})
          /\ watchCursor' = next
    /\ UNCHANGED <<events, ledger, now, held, seed>>

\* A deposit of the page cannot be queued: the events before it were
\* inspected, and the cursor stops at its ledger.
WatchStops ==
    /\ watchCursor # 0
    /\ \E n \in Page \cap Deposits :
          /\ Inspect({m \in Page : m < n}, 1, {})
          /\ watchCursor' = StopAt(n)
    /\ UNCHANGED <<events, ledger, now, held, seed>>

\* The cursor cannot be written: the same page is inspected again.
WatchAgain ==
    /\ watchCursor # 0
    /\ Inspect(Page, 1, {})
    /\ UNCHANGED <<events, ledger, watchCursor, now, held, seed>>

-----------------------------------------------------------------------------
(* The on-chain writer reads a deadline back, then records it *)

ReadBack ==
    /\ held = NotHeld
    /\ held' = ChainDeadline
    /\ UNCHANGED <<events, ledger, watchCursor, screening, exit, now,
                   watchFaults, seed, cut, warned, rewarned, unmirrored>>

RecordExitDeadline ==
    /\ held # NotHeld
    /\ held' = NotHeld
    /\ exit' = SetExitDeadline(exit, held)
    /\ warned' = IF held = exit.deadline THEN warned ELSE {}
    /\ unmirrored' = (unmirrored \/ held # ChainDeadline)
    /\ UNCHANGED <<events, ledger, watchCursor, screening, now, watchFaults,
                   seed, cut, rewarned>>

-----------------------------------------------------------------------------
(* The deposit screener *)


LastScreeningTry(s) == s.tries + 1 >= Tries

\* A decision is recorded.
Screened(n) ==
    /\ screening[n].st = "queued"
    /\ screening' = [screening EXCEPT ![n] = [st |-> "screened", tries |-> @.tries + 1]]
    /\ UNCHANGED <<events, ledger, watchCursor, exit, now, held, watchFaults,
                   seed, cut, warned, rewarned, unmirrored>>

\* The provider failed or has not finished: the attempt is counted, and the
\* last one fails the row, which is told to a person.
ScreeningRetried(n) ==
    /\ screening[n].st = "queued"
    /\ screening' = [screening EXCEPT ![n] =
          [st |-> IF LastScreeningTry(@) THEN "failed" ELSE "queued", tries |-> @.tries + 1]]
    /\ UNCHANGED <<events, ledger, watchCursor, exit, now, held, watchFaults,
                   seed, cut, warned, rewarned, unmirrored>>

VaultWatchNext ==
    \/ Close
    \/ DayPasses
    \/ Seed
    \/ Watch
    \/ WatchStops
    \/ WatchAgain
    \/ ReadBack
    \/ RecordExitDeadline
    \/ \E n \in 1..MaxEvents : Screened(n)
    \/ \E n \in 1..MaxEvents : ScreeningRetried(n)

VaultWatchSpec == VaultWatchInit /\ [][VaultWatchNext]_watchVars

-----------------------------------------------------------------------------
(* Properties *)

\* Every variable keeps its shape, and no deposit is tried past its limit.
VaultWatchTypeOK ==
    /\ \A n \in 1..Len(events) : events[n].at \in 2..ledger /\ events[n].what \in What
    /\ Len(events) <= MaxEvents
    /\ watchCursor \in 0..(ledger + 1)
    /\ screening \in [1..MaxEvents -> [st : {"none", "queued", "screened", "failed"},
                                       tries : 0..Tries]]
    /\ exit \in [deadline : Deadlines, level : 0..2]
    /\ now \in 0..MaxNow /\ held \in {NotHeld} \cup Deadlines
    /\ watchFaults \in 0..WatchFaults /\ seed \in 0..ledger
    /\ cut \subseteq 1..Len(events) /\ warned \subseteq {1, 2}
    /\ rewarned \in BOOLEAN /\ unmirrored \in BOOLEAN

\* The events the cursor has passed but for the deposits that did not decode
\* and what a full page made it leave behind.
Passed == {n \in 1..Len(events) : seed # 0 /\ events[n].at \in seed..(watchCursor - 1)} \ cut

\* Every deposit the cursor has passed was queued for screening, through
\* failed writes and stops, except one whose event does not decode (inspect
\* logs it and goes on) and those a full page cut off inside a ledger.
PassedIsQueued == \A n \in Passed \cap Deposits : screening[n].st # "none"

\* A watcher that has caught up mirrors the deadline the contract holds,
\* whatever it replayed, unless an event did not decode, a write failed or the
\* writer recorded a value that a later event had outlived.
MirrorFollows ==
    (DeadlineEvents # {} /\ Newest(DeadlineEvents) \in Passed /\ ~unmirrored)
        => exit.deadline = ChainDeadline

\* For one deadline each window is warned of once, the week's never after the
\* day's: only a level that could not be written, or a page inspected again,
\* repeats a warning.
WarnedOnce == rewarned => watchFaults > 0

\* A lender's exit window: the date warned about is the contract's, and each
\* warning is sent once.
ExitTold == MirrorFollows /\ WarnedOnce

\* A deposit is decided once: seeing its event again starts nothing anew.
DecidedOnce ==
    [][\A n \in 1..MaxEvents :
          screening[n].st \in {"screened", "failed"} => screening'[n] = screening[n]]_watchVars
=============================================================================
