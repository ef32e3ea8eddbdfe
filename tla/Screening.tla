------------------------------ MODULE Screening ------------------------------
(***************************************************************************)
(* With which providers lenders' addresses and deposits are screened, and   *)
(* what the providers' answers come to.  Operators choose the providers in  *)
(* the portal, one proposing and another approving (screening_settings.go); *)
(* the running server follows the choice with a cache (switch.go), asks     *)
(* every provider and keeps the strictest verdict (combine.go).             *)
(*                                                                         *)
(* Abstracted: names, reasons and notes; scores are a few levels; a third   *)
(* provider, Didit, cannot screen Stellar and is refused everywhere.        *)
(***************************************************************************)
EXTENDS Naturals, Sequences, FiniteSets

CONSTANTS
  Operator,     \* people in the portal
  MaxChanges,   \* bound: changes proposed
  MaxHour,      \* bound of the clock
  TTL,          \* defaultSwitchTTL
  ScreenStops   \* bound: restarts

ASSUME ScreeningAssumption ==
  MaxChanges \in Nat /\ MaxHour \in Nat /\ TTL \in Nat /\ ScreenStops \in Nat

VARIABLES
  deployed,  \* the environment: providers with credentials, the default choice
  setting,   \* screening_provider_settings, in order of proposal
  deciding,  \* of each operator: the call in progress, on which row
  switch,    \* the Switch: choice it was built for and when it read it; history: when
             \* that choice was in force last
  clock,
  told,      \* history: the decisions their callers were told were made
  outdated,  \* history: a screening used a choice that was out of force for TTL or longer
  screenStops

screeningVars == <<deployed, setting, deciding, switch, clock, told, outdated, screenStops>>

Provider == {"elliptic", "merkle"}
Selection == (SUBSET Provider) \ {{}}
Cut == {[review |-> 0, reject |-> 0], [review |-> 1, reject |-> 2], [review |-> 0, reject |-> 2]}
NoDecision == [at |-> "idle", id |-> 0, choice |-> {}]

-----------------------------------------------------------------------------
(* One provider's verdict *)

NoScore == 9
\* A level against its cut points: nothing passes while they are unset.
ByScore(score, cut) ==
  CASE cut.reject > 0 /\ score >= cut.reject -> "rejected"
    [] cut.review > 0 /\ score >= cut.review -> "review"
    [] cut.review = 0 /\ cut.reject = 0      -> "review"
    [] OTHER                                 -> "approved"

\* Elliptic, an address: unfinished, sanctioned, unscored, then the score.
deriveVerdict(r, cut) ==
  CASE ~r.complete          -> "pending"
    [] r.sanctioned         -> "rejected"
    [] r.score = NoScore    -> "review"
    [] OTHER                -> ByScore(r.score, cut)

EllipticAddress(r, cut) == IF ~r.found THEN "unscreenable" ELSE deriveVerdict(r, cut)

\* Elliptic, a deposit: sanctions first; a predictive analysis is not final.
transactionVerdict(r, cut) ==
  CASE ~r.found             -> "pending"
    [] r.sanctioned         -> "rejected"
    [] r.predictive         -> "pending"
    [] OTHER                -> deriveVerdict([r EXCEPT !.sanctioned = FALSE], cut)

\* Merkle: sanctions, exposure through others, no history, then the level.
MerkleVerdict(r, cut, isAddress) ==
  CASE r.sanctioned                    -> "rejected"
    [] r.indirect                      -> "review"
    [] isAddress /\ ~r.found           -> "unscreenable"
    [] r.score = NoScore               -> "pending"
    [] OTHER                           -> ByScore(r.score, cut)

VerdictOf(p, r, cut, isAddress) ==
  IF p = "merkle" THEN MerkleVerdict(r, cut, isAddress)
  ELSE IF isAddress THEN EllipticAddress(r, cut) ELSE transactionVerdict(r, cut)

\* What a provider may answer.
Answers ==
  [found : BOOLEAN, complete : BOOLEAN, predictive : BOOLEAN, sanctioned : BOOLEAN,
   indirect : BOOLEAN, score : {0, 1, 2, NoScore}]

-----------------------------------------------------------------------------
(* Several providers' verdicts *)

VerdictRank == [approved |-> 0, unscreenable |-> 1, pending |-> 2, review |-> 3, rejected |-> 4]
Stricter(a, b) == IF VerdictRank[b] > VerdictRank[a] THEN b ELSE a

\* merge keeps the strictest; one provider's failure fails the screening.
Strictest(verdicts) == CHOOSE v \in verdicts : \A w \in verdicts : Stricter(v, w) = v

-----------------------------------------------------------------------------
(* The choice of providers *)

\* Normalize: only providers with credentials, at least one.
Usable(choice) == choice # {} /\ choice \subseteq deployed.keys

\* Current: the approved row decided last.  At most one row is open at a time,
\* so rows are decided in the order they were proposed.
Approved == {i \in DOMAIN setting : setting[i].status = "approved"}
InForce ==
  IF Approved = {} THEN deployed.boot
  ELSE LET last == CHOOSE i \in Approved : \A j \in Approved : j <= i IN setting[last].choice

DeployedAs(d) ==
  /\ d.boot \subseteq d.keys \cup {"elliptic"}   \* only Merkle's key is asked for at boot

ScreeningInit ==
  /\ deployed \in {d \in [keys : SUBSET Provider, boot : Selection] : DeployedAs(d)}
  /\ setting = <<>> /\ deciding = [o \in Operator |-> NoDecision]
  /\ switch = [resolved |-> FALSE, choice |-> {}, readAt |-> 0, seen |-> 0]
  /\ clock = 0 /\ told = {} /\ outdated = FALSE
  /\ screenStops = 0

Does(o, call) == deciding' = [deciding EXCEPT ![o] = call]

\* Propose: a usable choice other than the one in force.
Propose(o, choice) ==
  /\ deciding[o] = NoDecision /\ Usable(choice) /\ choice # InForce
  /\ Does(o, [at |-> "propose", id |-> 0, choice |-> choice])
  /\ UNCHANGED <<deployed, setting, switch, clock, told, outdated, screenStops>>

\* The unique index holds one open row.
Insert(o) ==
  /\ deciding[o].at = "propose" /\ Does(o, NoDecision)
  /\ IF \E i \in DOMAIN setting : setting[i].status = "proposed" \/ Len(setting) = MaxChanges
       THEN UNCHANGED setting
       ELSE setting' = Append(setting, [choice |-> deciding[o].choice, status |-> "proposed", by |-> o, decider |-> o])
  /\ UNCHANGED <<deployed, switch, clock, told, outdated, screenStops>>

\* Approve: an open row of somebody else, checked against this deployment.
Approve(o, i) ==
  /\ deciding[o] = NoDecision /\ setting[i].status = "proposed"
  /\ setting[i].by # o /\ Usable(setting[i].choice)
  /\ Does(o, [at |-> "approved", id |-> i, choice |-> {}])
  /\ UNCHANGED <<deployed, setting, switch, clock, told, outdated, screenStops>>

\* Reject: any row; the proposer may withdraw their own.
Reject(o, i) ==
  /\ deciding[o] = NoDecision /\ Does(o, [at |-> "rejected", id |-> i, choice |-> {}])
  /\ UNCHANGED <<deployed, setting, switch, clock, told, outdated, screenStops>>

\* Fault: the row is updated by its id alone.
OpenAny(i) == i \in DOMAIN setting

\* Decide updates a row that is still open, and the caller is told whether it did.
Open(i) == setting[i].status = "proposed"
Decide(o) ==
  LET i == deciding[o].id IN
  /\ deciding[o].at \in {"approved", "rejected"} /\ Does(o, NoDecision)
  /\ IF Open(i)
       THEN /\ setting' = [setting EXCEPT ![i].status = deciding[o].at, ![i].decider = o]
            /\ told' = told \cup {<<i, deciding[o].at>>}
            /\ switch' = [switch EXCEPT !.seen = IF switch.choice = InForce THEN clock ELSE @]
       ELSE UNCHANGED <<setting, told, switch>>
  /\ UNCHANGED <<deployed, clock, outdated, screenStops>>

-----------------------------------------------------------------------------
(* The Switch and a screening *)

\* current: the choice read less than TTL ago; else the one in force, which must
\* be usable if a person approved it; else, when it cannot be read, the last.
Current(choice, blind) ==
  IF switch.resolved /\ clock - switch.readAt < TTL
    THEN choice = switch.choice /\ ~blind /\ UNCHANGED switch
    ELSE \/ /\ choice = InForce /\ ~blind /\ (Approved # {} => Usable(choice))
            /\ switch' = [resolved |-> TRUE, choice |-> choice, readAt |-> clock, seen |-> clock]
         \/ switch.resolved /\ choice = switch.choice /\ blind /\ UNCHANGED switch

\* A screening asks the providers of the choice; one without credentials fails it.
Screen(choice, blind) ==
  /\ Current(choice, blind) /\ choice \subseteq deployed.keys
  /\ outdated' = (outdated \/ (~blind /\ choice # InForce /\ clock - switch.seen >= TTL))
  /\ UNCHANGED <<deployed, setting, deciding, clock, told, screenStops>>

HourPasses ==
  /\ clock < MaxHour /\ clock' = clock + 1
  /\ UNCHANGED <<deployed, setting, deciding, switch, told, outdated, screenStops>>

\* The server restarts, perhaps with other credentials and another default.
Redeploy ==
  /\ screenStops < ScreenStops /\ screenStops' = screenStops + 1
  /\ \E keys \in SUBSET Provider, boot \in Selection :
       /\ deployed' = [keys |-> keys, boot |-> boot] /\ DeployedAs(deployed')
  /\ switch' = [resolved |-> FALSE, choice |-> {}, readAt |-> 0, seen |-> 0]
  /\ deciding' = [o \in Operator |-> NoDecision]
  /\ UNCHANGED <<setting, clock, told, outdated>>

ScreeningNext ==
  \/ \E o \in Operator :
       \/ \E choice \in Selection : Propose(o, choice)
       \/ \E i \in DOMAIN setting : Approve(o, i) \/ Reject(o, i)
       \/ Insert(o) \/ Decide(o)
  \/ \E choice \in Selection, blind \in BOOLEAN : Screen(choice, blind)
  \/ HourPasses \/ Redeploy

-----------------------------------------------------------------------------
(* Properties *)

ScreeningTypeOK ==
  /\ \A i \in DOMAIN setting : setting[i].choice \in Selection /\ setting[i].status \in {"proposed", "approved", "rejected"}
  /\ Cardinality({i \in DOMAIN setting : setting[i].status = "proposed"}) <= 1
  /\ switch.resolved => switch.choice \in Selection

\* What an answer that may pass looks like: a finished analysis with a score under
\* the cut points that are set, and no sanctions, its own or next to it.
Passes(p, r, cut, isAddress) ==
  LET cuts == {cut.review, cut.reject} \ {0} IN
  /\ r.score # NoScore /\ cuts # {} /\ (\A c \in cuts : r.score < c) /\ ~r.sanctioned
  /\ IF p = "merkle" THEN ~r.indirect /\ (r.found \/ ~isAddress)
     ELSE r.found /\ r.complete /\ (isAddress \/ ~r.predictive)

Outcomes(p, cut, isAddress) ==
  {[verdict |-> VerdictOf(p, r, cut, isAddress), passes |-> Passes(p, r, cut, isAddress)] : r \in Answers}

\* An address or a deposit is approved only when each provider asked sent an
\* answer that may pass, whatever the others said (combine.go, verdict.go).
ApprovedOnEvidence ==
  \A cut \in Cut, isAddress \in BOOLEAN, choice \in Selection :
    \A e \in Outcomes("elliptic", cut, isAddress), m \in Outcomes("merkle", cut, isAddress) :
      LET answer == [elliptic |-> e, merkle |-> m] IN
      Strictest({answer[p].verdict : p \in choice}) = "approved" => \A p \in choice : answer[p].passes

\* A screening uses the choice that is or was in force less than TTL ago, but for
\* one that the table could not be read for (switch.go:60-63,105-140).
ChoiceIsRecent == ~outdated

\* A choice in force was proposed and approved by two people, and a decision its
\* caller was told of stands (screening_settings.go).
DecidedByTwo ==
  /\ \A i \in Approved : setting[i].by # setting[i].decider
  /\ \A t \in told : setting[t[1]].status = t[2]

ScreeningSound == ApprovedOnEvidence /\ ChoiceIsRecent /\ DecidedByTwo
=============================================================================
