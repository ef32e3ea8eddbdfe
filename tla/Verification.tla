----------------------------- MODULE Verification -----------------------------
(***************************************************************************)
(* What providers tell the server about a lender after it was taken on:     *)
(* Didit's business verification, whose sessions the portal starts and      *)
(* whose webhooks move the session's status (kyb.go, kyb_repository.go),    *)
(* and the notifications of Didit and Merkle Science that queue rescreens   *)
(* of the lender's addresses (monitoring.go).  A webhook is delivered       *)
(* again until it is answered with success, late, or again after that.      *)
(*                                                                         *)
(* One lender; signatures are assumed good; approving the lender and        *)
(* rescreening an address are Allowlist's.                                  *)
(***************************************************************************)
EXTENDS Naturals, Sequences, FiniteSets

CONSTANTS
  Starter,       \* people who ask for the lender's verification link
  LenderAddress, \* addresses a provider may name
  MaxSessions,   \* bound: sessions Didit creates
  MaxNotes,      \* bound: notifications about data or addresses
  NoteFaults     \* bound: failed writes and stops

ASSUME VerificationAssumption == MaxSessions \in Nat /\ MaxNotes \in Nat /\ NoteFaults \in Nat

VARIABLES
  lender,     \* the counterparty's session columns; history: whose status it is
  starting,   \* of each Starter: the Start call in progress
  didit,      \* Didit's own status of each session
  screenedBefore, \* addresses screened at least once
  webhook,    \* every notification a provider sent
  handling,   \* the delivery being handled
  queued,     \* monitoring_signals: event key and address
  unmatched,  \* monitoring_signals that name no address
  noteFaults,
  kept,       \* history: every notification answered with success was queued, or told
  toldOf,     \* history: unmatched notifications a person was alerted of
  overlapped, \* history: a session was set while a call or an event still held the one before
  cutShort    \* history: notifications a stop caught between the row and the alert

verificationVars == <<lender, starting, didit, screenedBefore, webhook, handling, queued, unmatched,
                      noteFaults, kept, toldOf, overlapped, cutShort>>

openStatuses == {"not_started", "in_review"}
NotStarting == [at |-> "idle", session |-> 0]
Nothing == [kind |-> "none", session |-> 0, status |-> "none", names |-> {}]
NoDelivery == [at |-> "idle", of |-> Nothing, needs |-> {}]

VerificationInit ==
  /\ lender = [session |-> 0, status |-> "none", from |-> 0]
  /\ starting = [p \in Starter |-> NotStarting]
  /\ didit = <<>> /\ screenedBefore = {} /\ webhook = {} /\ handling = NoDelivery
  /\ queued = {} /\ unmatched = {} /\ noteFaults = 0
  /\ kept = TRUE /\ toldOf = {} /\ overlapped = FALSE /\ cutShort = {}

Fails == noteFaults < NoteFaults /\ noteFaults' = noteFaults + 1

-----------------------------------------------------------------------------
(* Start *)

\* The link of an open session is given out again.
Start(p) ==
  /\ starting[p] = NotStarting
  /\ ~(lender.session # 0 /\ lender.status \in openStatuses)
  /\ starting' = [starting EXCEPT ![p] = [at |-> "create", session |-> lender.session]]
  /\ UNCHANGED <<lender, didit, screenedBefore, webhook, handling, queued, unmatched, noteFaults,
                 kept, toldOf, overlapped, cutShort>>

CreateKYBSession(p) ==
  /\ starting[p].at = "create" /\ Len(didit) < MaxSessions
  /\ didit' = Append(didit, "not_started")
  /\ \/ /\ starting' = [starting EXCEPT ![p] = [at |-> "set", session |-> Len(didit) + 1]]
        /\ UNCHANGED noteFaults
     \/ starting' = [starting EXCEPT ![p] = NotStarting] /\ Fails   \* the answer is lost
  /\ UNCHANGED <<lender, screenedBefore, webhook, handling, queued, unmatched, kept, toldOf,
                 overlapped, cutShort>>

SetSession(p) ==
  /\ starting[p].at = "set"
  /\ starting' = [starting EXCEPT ![p] = NotStarting]
  /\ \/ /\ lender' = [session |-> starting[p].session, status |-> "not_started", from |-> starting[p].session]
        /\ overlapped' = (overlapped \/ handling.at = "write" \/ \E q \in Starter \ {p} : starting[q].at # "idle")
        /\ UNCHANGED noteFaults
     \/ Fails /\ UNCHANGED <<lender, overlapped>>
  /\ UNCHANGED <<didit, screenedBefore, webhook, handling, queued, unmatched, kept, toldOf, cutShort>>

-----------------------------------------------------------------------------
(* The providers *)

\* A session moves on, and Didit says so.
Decides(x) ==
  /\ didit[x] \in openStatuses
  /\ \E status \in {"in_review", "approved", "declined"} \ {didit[x]} :
       /\ didit' = [didit EXCEPT ![x] = status]
       /\ webhook' = webhook \cup {[kind |-> "status", session |-> x, status |-> status, names |-> {}]}
  /\ UNCHANGED <<lender, starting, screenedBefore, handling, queued, unmatched, noteFaults, kept,
                 toldOf, overlapped, cutShort>>

Notes == Cardinality({n \in webhook : n.kind # "status"})

\* data.updated for a session, or a Compass notification naming addresses.
Notifies ==
  /\ Notes < MaxNotes
  /\ \E x \in DOMAIN didit, names \in SUBSET LenderAddress :
       \/ names = {} /\ webhook' = webhook \cup {[kind |-> "data", session |-> x, status |-> "none", names |-> {}]}
       \/ webhook' = webhook \cup {[kind |-> "compass", session |-> 0, status |-> "none", names |-> names]}
  /\ UNCHANGED <<lender, starting, didit, screenedBefore, handling, queued, unmatched, noteFaults,
                 kept, toldOf, overlapped, cutShort>>

\* An address leaves "pending" (Allowlist).
ScreenFirst(x) ==
  /\ x \notin screenedBefore /\ screenedBefore' = screenedBefore \cup {x}
  /\ UNCHANGED <<lender, starting, didit, webhook, handling, queued, unmatched, noteFaults, kept,
                 toldOf, overlapped, cutShort>>

-----------------------------------------------------------------------------
(* HandleEvent and HandleMerkleWebhook *)

Handles(at) == handling' = [handling EXCEPT !.at = at]
Event == handling.of

DeliverNote(n) ==
  /\ handling = NoDelivery
  /\ handling' = [at |-> IF n.kind = "compass" THEN "match" ELSE "read", of |-> n, needs |-> {}]
  /\ UNCHANGED <<lender, starting, didit, screenedBefore, webhook, queued, unmatched, noteFaults,
                 kept, toldOf, overlapped, cutShort>>

Answer(signals, alerted) ==
  /\ handling' = NoDelivery
  /\ kept' = (kept /\ {<<Event, x>> : x \in handling.needs} \subseteq signals
                  /\ (Event \in unmatched => Event \in alerted \cup cutShort))

\* An error is answered 500 and the provider delivers again.
Refuse == handling' = NoDelivery /\ UNCHANGED kept

\* Fault: the session an event names is not compared.
IsCurrentAny == lender.session # 0
IsCurrent == lender.session = Event.session

\* RecordEvent reads the row's session and, in the same transaction but without a
\* lock, appends the event and updates the status.
ReadSession ==
  /\ handling.at = "read"
  /\ IF IsCurrent THEN Handles("write") /\ UNCHANGED kept ELSE Answer(queued, toldOf)
  /\ UNCHANGED <<lender, starting, didit, screenedBefore, webhook, queued, unmatched, noteFaults,
                 toldOf, overlapped, cutShort>>

WriteStatus ==
  /\ handling.at = "write"
  /\ \/ Fails /\ Refuse /\ UNCHANGED lender
     \/ /\ Event.kind = "status" /\ Answer(queued, toldOf)
        /\ lender' = [lender EXCEPT !.status = Event.status, !.from = Event.session]
        /\ UNCHANGED noteFaults
     \/ Event.kind = "data" /\ Handles("queue") /\ UNCHANGED <<lender, noteFaults, kept>>
  /\ UNCHANGED <<starting, didit, screenedBefore, webhook, queued, unmatched, toldOf, overlapped, cutShort>>

\* QueueCounterparty reads the lender's screened addresses; MatchAddresses those
\* among the ones named.
QueueCounterparty ==
  /\ handling.at = "queue"
  /\ handling' = [handling EXCEPT !.at = "enqueue", !.needs = screenedBefore]
  /\ UNCHANGED <<lender, starting, didit, screenedBefore, webhook, queued, unmatched, noteFaults,
                 kept, toldOf, overlapped, cutShort>>

MatchAddresses ==
  /\ handling.at = "match"
  /\ handling' = [handling EXCEPT !.at = IF Event.names \cap screenedBefore = {} THEN "unmatched" ELSE "enqueue",
                                  !.needs = Event.names \cap screenedBefore]
  /\ UNCHANGED <<lender, starting, didit, screenedBefore, webhook, queued, unmatched, noteFaults,
                 kept, toldOf, overlapped, cutShort>>

\* A repeated delivery has the same key and adds nothing.
Enqueue ==
  /\ handling.at = "enqueue"
  /\ \/ /\ queued' = queued \cup {<<Event, x>> : x \in handling.needs} /\ Answer(queued', toldOf)
        /\ UNCHANGED noteFaults
     \/ Fails /\ Refuse /\ UNCHANGED queued
  /\ UNCHANGED <<lender, starting, didit, screenedBefore, webhook, unmatched, toldOf, overlapped, cutShort>>

\* The unmatched row is stored once, and only its first storing raises the alert.
StoreUnmatched ==
  /\ handling.at = "unmatched"
  /\ \/ /\ unmatched' = unmatched \cup {Event} /\ UNCHANGED noteFaults
        /\ IF Event \in unmatched THEN Answer(queued, toldOf) ELSE Handles("alert") /\ UNCHANGED kept
     \/ Fails /\ Refuse /\ UNCHANGED unmatched
  /\ UNCHANGED <<lender, starting, didit, screenedBefore, webhook, queued, toldOf, overlapped, cutShort>>

RaiseUnmatched ==
  /\ handling.at = "alert" /\ toldOf' = toldOf \cup {Event} /\ Answer(queued, toldOf')
  /\ UNCHANGED <<lender, starting, didit, screenedBefore, webhook, queued, unmatched, noteFaults,
                 overlapped, cutShort>>

\* The process stops: calls and the delivery in hand are gone.
StopVerification ==
  /\ Fails /\ handling' = NoDelivery /\ starting' = [p \in Starter |-> NotStarting]
  /\ cutShort' = IF handling.at = "alert" THEN cutShort \cup {Event} ELSE cutShort
  /\ UNCHANGED <<lender, didit, screenedBefore, webhook, queued, unmatched, kept, toldOf, overlapped>>

VerificationNext ==
  \/ \E p \in Starter : Start(p) \/ CreateKYBSession(p) \/ SetSession(p)
  \/ \E x \in DOMAIN didit : Decides(x)
  \/ Notifies \/ (\E x \in LenderAddress : ScreenFirst(x))
  \/ \E n \in webhook : DeliverNote(n)
  \/ ReadSession \/ WriteStatus \/ QueueCounterparty \/ MatchAddresses \/ Enqueue
  \/ StoreUnmatched \/ RaiseUnmatched \/ StopVerification

-----------------------------------------------------------------------------
(* Properties *)

VerificationTypeOK ==
  /\ lender.session \in {0} \cup DOMAIN didit /\ lender.from \in {0} \cup DOMAIN didit
  /\ handling.of \in {Nothing} \cup webhook
  /\ queued \subseteq webhook \X LenderAddress /\ unmatched \subseteq webhook

\* The status shown is the current session's, and a lender is sent no second link
\* while the first can still be used, unless a session was replaced between the
\* look at the row and the write (kyb.go:113-133, kyb_repository.go:61-86).
SessionIsOwn ==
  overlapped \/
    /\ lender.from = lender.session
    /\ \A p \in Starter : starting[p].at = "create" /\ lender.session = starting[p].session =>
         lender.session = 0 \/ didit[lender.session] \notin openStatuses

\* A notification answered with success has queued every screened address it is
\* about, or was about none and told a person, but for a stop in between.
NotesAreKept == kept

VerificationSound == SessionIsOwn /\ NotesAreKept
=============================================================================
