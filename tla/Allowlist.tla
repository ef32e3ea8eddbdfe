----------------------------- MODULE Allowlist -----------------------------
(***************************************************************************)
(* Who may deposit into the vault: a lender's Stellar addresses, as they   *)
(* are screened, decided on by people and by the rescreening of providers' *)
(* alerts, and put on or off the contract's allowlist by the on-chain      *)
(* writer.  Intent (the row) and what the chain was seen to hold           *)
(* (onchain) are separate columns, and a screening reads the row, asks a   *)
(* provider, and only then writes.                                         *)
(*                                                                         *)
(* One lender owns all addresses.                                          *)
(***************************************************************************)
EXTENDS Naturals, FiniteSets

CONSTANTS Addr,          \* the lender's addresses
          AlertTries,      \* rescreens tried for one alert before a person is told
          AdminActs,     \* bound: decisions people take on addresses
          AllowFaults    \* bound: failed submissions and failed writes

ASSUME AllowlistAssumption ==
    /\ AlertTries \in Nat \ {0} /\ AdminActs \in Nat /\ AllowFaults \in Nat

VARIABLES
    kyb,        \* the lender's kyb_status
    addressRow,        \* the counterparty_addresses row of each address
    chain,      \* what the vault contract holds for each address
    toScreen,   \* addresses for which ScreenAndRecord was called
    screen,     \* the screening in progress, and what it read
    recheck,    \* the monitoring rescreen in progress, and what it read
    signal,     \* the monitoring_signals row of each address's alert
    writer,     \* the on-chain writer's pass
    adminActs, allowFaults,
    vouched     \* history: addresses a person decided on or had screened
allowVars == <<kyb, addressRow, chain, toScreen, screen, recheck, signal, writer,
               adminActs, allowFaults, vouched>>

Status == {"none", "pending", "approved", "rejected", "review", "expired"}
OnchainState == {"absent", "pending", "approved", "revoked", "frozen"}
Verdict == {"approved", "rejected", "review", "pending"}

-----------------------------------------------------------------------------
(* Verdicts *)

\* The status a verdict leads to; "pending" leaves the status alone.  An
\* address that cannot be screened is approved provisionally.
applyVerdict(v) == IF v = "pending" THEN "none" ELSE v

\* An automated change never loosens what is recorded.
tighten(current, next) ==
    CASE next = "rejected" -> next
      [] next = "review"   -> IF current = "rejected" THEN "none" ELSE next
      [] next = "approved" -> IF current \in {"approved", "expired"} THEN next ELSE "none"
      [] OTHER             -> "none"

\* RecordScreening: "none" leaves a column alone; the expiry goes with the
\* status, and only an approval has one.
RecordScreening(r, status, onchain) ==
    [r EXCEPT !.status = IF status = "none" THEN @ ELSE status,
              !.lapses = IF status = "none" THEN @ ELSE status = "approved",
              !.onchain = IF onchain = "none" THEN @ ELSE onchain]

-----------------------------------------------------------------------------
(* The on-chain writer's queues *)

NeedsAllow(r) == r.status = "approved" /\ r.onchain = "pending"
NeedsRevoke(r) == r.revoked /\ ~r.frozen /\ r.onchain # "revoked"
NeedsFreeze(r) == r.frozen /\ r.onchain # "frozen"

WriterQueue(phase) ==
    {x \in Addr : CASE phase = "allow"  -> NeedsAllow(addressRow[x])
                    [] phase = "revoke" -> NeedsRevoke(addressRow[x])
                    [] OTHER            -> NeedsFreeze(addressRow[x])}

NextPhase(phase) ==
    CASE phase = "allow" -> "revoke" [] phase = "revoke" -> "freeze" [] OTHER -> "allow"

\* The contract: allowing clears the exit deadline, revoking never moves one.
Enforced(phase, chainState) ==
    CASE phase = "allow"  -> "allowed"
      [] phase = "revoke" -> IF chainState = "frozen" THEN "frozen" ELSE "revoked"
      [] OTHER            -> "frozen"

Confirmed(phase) ==
    CASE phase = "allow" -> "approved" [] phase = "revoke" -> "revoked" [] OTHER -> "frozen"

-----------------------------------------------------------------------------
NoAddress == [status |-> "none", onchain |-> "absent", revoked |-> FALSE,
          frozen |-> FALSE, lapses |-> FALSE]
NoCall == [of |-> {}, status |-> "none", onchain |-> "absent"]

AllowlistInit ==
    /\ kyb = "pending"
    /\ addressRow = [x \in Addr |-> NoAddress]
    /\ chain = [x \in Addr |-> "off"]
    /\ toScreen = {}
    /\ screen = NoCall
    /\ recheck = NoCall
    /\ signal = [x \in Addr |-> [st |-> "none", tries |-> 0, told |-> "no"]]
    /\ writer = [phase |-> "freeze", held |-> {}, sent |-> {}]
    /\ adminActs = 0
    /\ allowFaults = 0
    /\ vouched = {}

OnFile(x) == addressRow[x].status # "none"

-----------------------------------------------------------------------------
(* The lender *)

\* Mutant: an address is screened as it is submitted, lender approved or not.
ScreenOnSubmitAlways(x) == toScreen' = toScreen \cup {x}

ScreenOnSubmit(x) ==
    toScreen' = IF kyb = "approved" THEN toScreen \cup {x} ELSE toScreen

SubmitAddress(x) ==
    /\ ~OnFile(x)
    /\ addressRow' = [addressRow EXCEPT ![x].status = "pending"]
    /\ ScreenOnSubmit(x)
    /\ UNCHANGED <<kyb, chain, screen, recheck, signal, writer, adminActs,
                   allowFaults, vouched>>

\* Every address still waiting is screened; the list is read once.
ApproveKYB ==
    /\ kyb # "approved"
    /\ adminActs < AdminActs
    /\ adminActs' = adminActs + 1
    /\ kyb' = "approved"
    /\ toScreen' = toScreen \cup {x \in Addr : addressRow[x].status = "pending"}
    /\ UNCHANGED <<addressRow, chain, screen, recheck, signal, writer, allowFaults, vouched>>

RejectKYB ==
    /\ kyb # "rejected"
    /\ adminActs < AdminActs
    /\ adminActs' = adminActs + 1
    /\ kyb' = "rejected"
    /\ UNCHANGED <<addressRow, chain, toScreen, screen, recheck, signal, writer,
                   allowFaults, vouched>>

-----------------------------------------------------------------------------
(* People's decisions on an address *)

Decide(x, r) ==
    /\ OnFile(x)
    /\ adminActs < AdminActs
    /\ adminActs' = adminActs + 1
    /\ addressRow' = [addressRow EXCEPT ![x] = r]
    /\ vouched' = vouched \cup {x}
    /\ UNCHANGED <<kyb, chain, toScreen, screen, recheck, signal, writer, allowFaults>>

\* An override clears the revocation and the freeze and queues an allow.
ApproveAddress(x) ==
    Decide(x, [addressRow[x] EXCEPT !.status = "approved", !.onchain = "pending",
                             !.revoked = FALSE, !.frozen = FALSE])

\* A rejection leaves what was written on chain.
RejectAddress(x) == Decide(x, [addressRow[x] EXCEPT !.status = "rejected"])

\* Revoking and freezing record an intent; the writer acts on it.
RevokeAddress(x) == Decide(x, [addressRow[x] EXCEPT !.revoked = TRUE])
FreezeAddress(x) == Decide(x, [addressRow[x] EXCEPT !.frozen = TRUE, !.revoked = TRUE])

\* The operator's "rescreen now".
AskRescreen(x) ==
    /\ OnFile(x)
    /\ adminActs < AdminActs
    /\ adminActs' = adminActs + 1
    /\ toScreen' = toScreen \cup {x}
    /\ vouched' = vouched \cup {x}
    /\ UNCHANGED <<kyb, addressRow, chain, screen, recheck, signal, writer, allowFaults>>

-----------------------------------------------------------------------------
(* Screening *)

\* Approvals lapse; the sweep marks them expired and screens every expired
\* address again.
RescreenSweep ==
    /\ \E lapsed \in SUBSET {x \in Addr : /\ addressRow[x].status = "approved"
                                          /\ addressRow[x].lapses} :
          addressRow' = [x \in Addr |->
            IF x \in lapsed THEN [addressRow[x] EXCEPT !.status = "expired"]
            ELSE addressRow[x]]
    /\ \E x \in Addr : addressRow'[x].status = "expired"
    /\ toScreen' = toScreen \cup {x \in Addr : addressRow'[x].status = "expired"}
    /\ UNCHANGED <<kyb, chain, screen, recheck, signal, writer, adminActs,
                   allowFaults, vouched>>

Reads(x) == [of |-> {x}, status |-> addressRow[x].status, onchain |-> addressRow[x].onchain]

BeginScreen(x) ==
    /\ x \in toScreen
    /\ screen.of = {}
    /\ screen' = Reads(x)
    /\ toScreen' = toScreen \ {x}
    /\ UNCHANGED <<kyb, addressRow, chain, recheck, signal, writer, adminActs,
                   allowFaults, vouched>>

\* The provider answers or fails.  A first approval queues the allow, judged
\* by the on-chain state read before the provider was asked.
EndScreen(x) ==
    /\ x \in screen.of
    /\ screen' = NoCall
    /\ \/ \E v \in Verdict :
             LET status == applyVerdict(v)
                 allow == status = "approved" /\ screen.onchain = "absent"
             IN  addressRow' = [addressRow EXCEPT ![x] =
                    RecordScreening(@, status, IF allow THEN "pending" ELSE "none")]
       \/ UNCHANGED addressRow
    /\ UNCHANGED <<kyb, chain, toScreen, recheck, signal, writer, adminActs,
                   allowFaults, vouched>>

-----------------------------------------------------------------------------
(* Monitoring: a provider's alert rescreens the address it names *)

\* Repeated deliveries of one notification are queued once, and an address
\* never screened is not matched.
QueueSignal(x) ==
    /\ OnFile(x) /\ addressRow[x].status # "pending"
    /\ signal[x].st = "none"
    /\ signal' = [signal EXCEPT ![x].st = "queued"]
    /\ UNCHANGED <<kyb, addressRow, chain, toScreen, screen, recheck, writer,
                   adminActs, allowFaults, vouched>>

\* Signals are rescreened one by one, the telling included.
BeginRecheck(x) ==
    /\ signal[x].st = "queued"
    /\ recheck.of = {} /\ \A y \in Addr : signal[y].told # "next"
    /\ recheck' = Reads(x)
    /\ UNCHANGED <<kyb, addressRow, chain, toScreen, screen, signal, writer,
                   adminActs, allowFaults, vouched>>

LastTry(s) == s.tries + 1 >= AlertTries

\* An attempt that did not complete is counted; a person is told of the last.
Retry(s) ==
    IF LastTry(s)
    THEN [st |-> "failed", tries |-> s.tries + 1, told |-> "next"]
    ELSE [s EXCEPT !.tries = @ + 1]

Rescreened(s, v) == [s EXCEPT !.st = "rescreened", !.told = "next"]

\* The verdict is applied by the status that was read, then the signal is
\* settled, or counts a provider's failure or an unfinished analysis; the
\* signal's write may fail, and the address is screened again.
EndRecheck(x) ==
    /\ x \in recheck.of
    /\ recheck' = NoCall
    /\ \E v \in Verdict \cup {"error"} :
          /\ addressRow' =
                IF v = "error" THEN addressRow
                ELSE [addressRow EXCEPT ![x] = RecordScreening(@,
                           tighten(recheck.status, applyVerdict(v)), "none")]
          /\ \/ /\ signal' = [signal EXCEPT ![x] =
                      IF v \in {"pending", "error"} THEN Retry(@) ELSE Rescreened(@, v)]
                /\ UNCHANGED allowFaults
             \/ /\ allowFaults < AllowFaults
                /\ allowFaults' = allowFaults + 1
                /\ UNCHANGED signal
    /\ UNCHANGED <<kyb, chain, toScreen, screen, writer, adminActs, vouched>>

\* The operators are told once the row is settled.
Tell(x) ==
    /\ signal[x].told = "next"
    /\ signal' = [signal EXCEPT ![x].told = "yes"]
    /\ UNCHANGED <<kyb, addressRow, chain, toScreen, screen, recheck, writer,
                   adminActs, allowFaults, vouched>>

-----------------------------------------------------------------------------
(* The on-chain writer: allows, then revokes, then freezes, each over a list
   read at its start *)

ListQueue ==
    /\ writer.held = {}
    /\ LET phase == NextPhase(writer.phase)
       IN  writer' = [phase |-> phase, held |-> WriterQueue(phase), sent |-> {}]
    /\ UNCHANGED <<kyb, addressRow, chain, toScreen, screen, recheck, signal,
                   adminActs, allowFaults, vouched>>

Submit(x) ==
    /\ x \in writer.held /\ writer.sent = {}
    /\ chain' = [chain EXCEPT ![x] = Enforced(writer.phase, @)]
    /\ writer' = [writer EXCEPT !.sent = {x}]
    /\ UNCHANGED <<kyb, addressRow, toScreen, screen, recheck, signal, adminActs,
                   allowFaults, vouched>>

\* Mutant: a failed submission is recorded as if it had landed.
AfterFailedSubmitRecords(x) ==
    addressRow' = [addressRow EXCEPT ![x].onchain = Confirmed(writer.phase)]

AfterFailedSubmit(x) == UNCHANGED addressRow

SubmitFails(x) ==
    /\ x \in writer.held /\ writer.sent = {}
    /\ allowFaults < AllowFaults
    /\ allowFaults' = allowFaults + 1
    /\ writer' = [writer EXCEPT !.held = @ \ {x}]
    /\ AfterFailedSubmit(x)
    /\ UNCHANGED <<kyb, chain, toScreen, screen, recheck, signal, adminActs, vouched>>

\* SetOnchainState, which may fail after the chain was written.
RecordOnchain(x) ==
    /\ x \in writer.sent
    /\ writer' = [writer EXCEPT !.held = @ \ {x}, !.sent = {}]
    /\ \/ /\ addressRow' = [addressRow EXCEPT ![x].onchain = Confirmed(writer.phase)]
          /\ UNCHANGED allowFaults
       \/ /\ allowFaults < AllowFaults
          /\ allowFaults' = allowFaults + 1
          /\ UNCHANGED addressRow
    /\ UNCHANGED <<kyb, chain, toScreen, screen, recheck, signal, adminActs, vouched>>

\* The process stops: calls in work are lost, and so is a telling that was due.
StopCompliance ==
    /\ allowFaults < AllowFaults
    /\ allowFaults' = allowFaults + 1
    /\ toScreen' = {} /\ screen' = NoCall /\ recheck' = NoCall
    /\ writer' = [phase |-> "freeze", held |-> {}, sent |-> {}]
    /\ signal' = [x \in Addr |-> [signal[x] EXCEPT !.told = IF @ = "next" THEN "lost" ELSE @]]
    /\ UNCHANGED <<kyb, addressRow, chain, adminActs, vouched>>

AllowlistNext ==
    \/ \E x \in Addr : SubmitAddress(x)
    \/ ApproveKYB
    \/ RejectKYB
    \/ \E x \in Addr : ApproveAddress(x)
    \/ \E x \in Addr : RejectAddress(x)
    \/ \E x \in Addr : RevokeAddress(x)
    \/ \E x \in Addr : FreezeAddress(x)
    \/ \E x \in Addr : AskRescreen(x)
    \/ RescreenSweep
    \/ \E x \in Addr : BeginScreen(x)
    \/ \E x \in Addr : EndScreen(x)
    \/ \E x \in Addr : QueueSignal(x)
    \/ \E x \in Addr : BeginRecheck(x)
    \/ \E x \in Addr : EndRecheck(x)
    \/ ListQueue
    \/ \E x \in Addr : Submit(x)
    \/ \E x \in Addr : SubmitFails(x)
    \/ \E x \in Addr : RecordOnchain(x)
    \/ \E x \in Addr : Tell(x)
    \/ StopCompliance

AllowlistSpec == AllowlistInit /\ [][AllowlistNext]_allowVars

-----------------------------------------------------------------------------
(* Properties *)

\* Every variable keeps its shape, and no alert is tried more than its limit.
AllowlistTypeOK ==
    /\ kyb \in {"pending", "approved", "rejected"}
    /\ addressRow \in [Addr -> [status : Status, onchain : OnchainState,
                         revoked : BOOLEAN, frozen : BOOLEAN, lapses : BOOLEAN]]
    /\ chain \in [Addr -> {"off", "allowed", "revoked", "frozen"}]
    /\ toScreen \subseteq Addr
    /\ {screen, recheck} \subseteq
          [of : SUBSET Addr, status : Status, onchain : OnchainState]
    /\ signal \in [Addr -> [st : {"none", "queued", "rescreened", "failed"},
                            tries : 0..AlertTries,
                            told : {"no", "next", "yes", "lost"}]]
    /\ \A x \in Addr : signal[x].st = "queued" => signal[x].tries < AlertTries
    /\ writer \in [phase : {"allow", "revoke", "freeze"}, held : SUBSET Addr,
                   sent : SUBSET Addr]
    /\ writer.sent \subseteq writer.held /\ Cardinality(writer.sent) <= 1
    /\ adminActs \in 0..AdminActs /\ allowFaults \in 0..AllowFaults
    /\ vouched \subseteq Addr

\* Without a person's decision on an address, nothing is put on the vault's
\* allowlist while the lender's verification is undecided.
NoAllowBeforeKYB ==
    \A x \in Addr : chain[x] = "allowed" /\ kyb = "pending" => x \in vouched

\* A revocation that stands reaches the chain and stays there, whatever the
\* writer was doing when it was recorded, whichever of its calls failed, and
\* whatever screenings answer in the meantime.
RevocationReachesChain ==
    \A x \in Addr : <>[](addressRow[x].revoked) => <>[](chain[x] # "allowed")

\* A freeze that stands reaches the chain and stays there.
FreezeReachesChain ==
    \A x \in Addr : <>[](addressRow[x].frozen) => <>[](chain[x] = "frozen")

\* What people decided against an address is what the vault enforces in the end.
IntentReachesChain == RevocationReachesChain /\ FreezeReachesChain

\* Monitoring (monitoring.go:183-236): a person is told of every alert, with the
\* verdict or after the last attempt, through failed writes and stops; only a
\* stop between settling the row and telling leaves it untold.
AlertsAreAnswered ==
    \A x \in Addr : signal[x].st = "queued" ~> signal[x].told \in {"yes", "lost"}
=============================================================================
