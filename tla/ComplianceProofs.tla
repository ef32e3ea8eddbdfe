-------------------------- MODULE ComplianceProofs --------------------------
(***************************************************************************)
(* Lenders are screened with the providers two people chose, and what       *)
(* providers report about a lender is kept: for any operators, changes,     *)
(* restarts, sessions, notifications and failures.                          *)
(*                                                                         *)
(* That a decision told to its caller stands needs the calls in progress:   *)
(* an approval on its way is of somebody else's row, and one row at most is  *)
(* open.  That a choice is recent needs when it was read: never later than  *)
(* it was last in force.  That the status shown is the current session's    *)
(* needs what a delivery read before it writes.                             *)
(***************************************************************************)
EXTENDS Screening, Verification, TLAPS, FiniteSetTheorems

-----------------------------------------------------------------------------
(* The choice of providers (Screening) *)

Verdicts == {"approved", "unscreenable", "pending", "review", "rejected"}

LEMMA VerdictsKnown ==
  ASSUME NEW p \in Provider, NEW r \in Answers, NEW cut \in Cut, NEW isAddress \in BOOLEAN
  PROVE  /\ VerdictOf(p, r, cut, isAddress) \in Verdicts
         /\ VerdictOf(p, r, cut, isAddress) = "approved" => Passes(p, r, cut, isAddress)
<1>1. /\ r.score \in {0, 1, 2, 9} /\ cut.review \in {0, 1} /\ cut.reject \in {0, 2}
      /\ cut.review \in Int /\ cut.reject \in Int /\ r.score \in Int
  BY SMT DEF Answers, Cut, NoScore
<1>b. r.found \in BOOLEAN /\ r.complete \in BOOLEAN /\ r.predictive \in BOOLEAN
      /\ r.sanctioned \in BOOLEAN /\ r.indirect \in BOOLEAN
  BY Zenon DEF Answers
<1> DEFINE s == r.score
           low == \A c \in {cut.review, cut.reject} \ {0} : r.score < c
           set == {cut.review, cut.reject} \ {0} # {}
<1>2. /\ ByScore(s, cut) \in Verdicts
      /\ ByScore(s, cut) = "approved" => low /\ set
  BY <1>1, SMT DEF ByScore, Verdicts
<1>3. CASE p = "merkle"
  <2>1. VerdictOf(p, r, cut, isAddress) = MerkleVerdict(r, cut, isAddress)
    BY <1>3 DEF VerdictOf
  <2>2. MerkleVerdict(r, cut, isAddress) \in Verdicts
    BY <1>2, Zenon DEF MerkleVerdict, Verdicts
  <2>3. ASSUME MerkleVerdict(r, cut, isAddress) = "approved"
        PROVE  ~r.sanctioned /\ ~r.indirect /\ (r.found \/ ~isAddress) /\ r.score # NoScore
               /\ ByScore(s, cut) = "approved"
    BY <2>3, SMT DEF MerkleVerdict
  <2> QED  BY <1>2, <1>3, <2>1, <2>2, <2>3, Zenon DEF Passes
<1>4. CASE p = "elliptic"
  <2>0. "elliptic" # "merkle"
    OBVIOUS
  <2>1. CASE isAddress
    <3>1. VerdictOf(p, r, cut, isAddress) = EllipticAddress(r, cut)
      BY <1>4, <2>0, <2>1, Zenon DEF VerdictOf
    <3>2. EllipticAddress(r, cut) \in Verdicts
      BY <1>2, Zenon DEF EllipticAddress, deriveVerdict, Verdicts
    <3>3. ASSUME EllipticAddress(r, cut) = "approved"
          PROVE  ~r.sanctioned /\ r.found /\ r.complete /\ r.score # NoScore
                 /\ ByScore(s, cut) = "approved"
      BY <3>3, SMT DEF EllipticAddress, deriveVerdict
    <3> QED  BY <1>2, <1>4, <2>0, <2>1, <3>1, <3>2, <3>3, Zenon DEF Passes
  <2>2. CASE ~isAddress
    <3>1. VerdictOf(p, r, cut, isAddress) = transactionVerdict(r, cut)
      BY <1>4, <2>0, <2>2, Zenon DEF VerdictOf
    <3> DEFINE q == [r EXCEPT !.sanctioned = FALSE]
    <3>q. q.complete = r.complete /\ q.sanctioned = FALSE /\ q.score = r.score
      BY Zenon DEF Answers
    <3> HIDE DEF q
    <3>2. deriveVerdict(q, cut) \in Verdicts
      BY <1>2, <3>q, Zenon DEF deriveVerdict, Verdicts
    <3>3. ASSUME deriveVerdict(q, cut) = "approved"
          PROVE  r.complete /\ r.score # NoScore /\ ByScore(s, cut) = "approved"
      BY <3>3, <3>q, SMT DEF deriveVerdict
    <3>4. transactionVerdict(r, cut) =
            CASE ~r.found             -> "pending"
              [] r.sanctioned         -> "rejected"
              [] r.predictive         -> "pending"
              [] OTHER                -> deriveVerdict(q, cut)
      BY Zenon DEF transactionVerdict, q
    <3>5. transactionVerdict(r, cut) \in Verdicts
      BY <3>2, <3>4, Zenon DEF Verdicts
    <3>6. ASSUME transactionVerdict(r, cut) = "approved"
          PROVE  ~r.sanctioned /\ r.found /\ ~r.predictive
                 /\ deriveVerdict(q, cut) = "approved"
      BY <3>4, <3>6, SMT
    <3> QED  BY <1>2, <1>4, <2>0, <2>2, <3>1, <3>3, <3>5, <3>6, Zenon DEF Passes
  <2> QED  BY <2>1, <2>2
<1> QED  BY <1>3, <1>4 DEF Provider

LEMMA StrictestOfAll ==
  ASSUME NEW x \in Verdicts, NEW y \in Verdicts
  PROVE  /\ Strictest({x, y}) \in {x, y}
         /\ Strictest({x, y}) = "approved" => x = "approved" /\ y = "approved"
<1>1. \A a, b \in Verdicts : /\ Stricter(a, b) = a \/ Stricter(b, a) = b
                             /\ Stricter("approved", b) = "approved" => b = "approved"
                             /\ Stricter(a, a) = a
  BY SMT DEF Stricter, VerdictRank, Verdicts
<1>2. \E v \in {x, y} : \A w \in {x, y} : Stricter(v, w) = v
  BY <1>1
<1>3. /\ Strictest({x, y}) \in {x, y}
      /\ \A w \in {x, y} : Stricter(Strictest({x, y}), w) = Strictest({x, y})
  BY <1>2 DEF Strictest
<1> QED  BY <1>1, <1>3

\* A screening comes to "approved" only on an answer of every provider asked that
\* may pass: for every cut point, answer and choice (combine.go, verdict.go).
THEOREM ApprovalNeedsEvidence == ApprovedOnEvidence
<1> SUFFICES ASSUME NEW cut \in Cut, NEW isAddress \in BOOLEAN, NEW choice \in Selection,
                    NEW e \in Outcomes("elliptic", cut, isAddress),
                    NEW m \in Outcomes("merkle", cut, isAddress),
                    NEW answer, answer = [elliptic |-> e, merkle |-> m],
                    Strictest({answer[p].verdict : p \in choice}) = "approved"
             PROVE  \A p \in choice : answer[p].passes
  BY Zenon DEF ApprovedOnEvidence
<1>1. /\ e.verdict \in Verdicts /\ (e.verdict = "approved" => e.passes)
  <2>1. PICK r \in Answers : e = [verdict |-> VerdictOf("elliptic", r, cut, isAddress),
                                  passes |-> Passes("elliptic", r, cut, isAddress)]
    BY Zenon DEF Outcomes
  <2> QED  BY <2>1, VerdictsKnown, Zenon DEF Provider
<1>2. /\ m.verdict \in Verdicts /\ (m.verdict = "approved" => m.passes)
  <2>1. PICK r \in Answers : m = [verdict |-> VerdictOf("merkle", r, cut, isAddress),
                                  passes |-> Passes("merkle", r, cut, isAddress)]
    BY Zenon DEF Outcomes
  <2> QED  BY <2>1, VerdictsKnown, Zenon DEF Provider
<1>3. answer["elliptic"] = e /\ answer["merkle"] = m
  BY Zenon
<1>4. PICK x \in choice, y \in choice : choice = {x, y}
  <2>1. choice \subseteq {"elliptic", "merkle"} /\ choice # {}
    BY Zenon DEF Selection, Provider
  <2>2. PICK x \in choice : TRUE
    BY <2>1, Zenon
  <2>3. CASE choice = {x}
    BY <2>3, Zenon
  <2>4. CASE choice # {x}
    <3>1. PICK y \in choice : y # x
      BY <2>2, <2>4, SMT
    <3>2. choice = {x, y}
      <4>1. /\ x = "elliptic" \/ x = "merkle"
            /\ y = "elliptic" \/ y = "merkle"
        BY <2>1, <2>2, <3>1, Zenon
      <4>2. ASSUME NEW z \in choice  PROVE  z = x \/ z = y
        BY <2>1, <3>1, <4>1, Zenon
      <4> QED  BY <2>2, <3>1, <4>2, Zenon
    <3> QED  BY <2>2, <3>1, <3>2, Zenon
  <2> QED  BY <2>3, <2>4
<1>x. x \in {"elliptic", "merkle"} /\ y \in {"elliptic", "merkle"}
  BY DEF Selection, Provider
<1>5. answer[x].verdict \in Verdicts /\ answer[y].verdict \in Verdicts
  BY <1>1, <1>2, <1>3, <1>x, Zenon
<1>6. {answer[p].verdict : p \in choice} = {answer[x].verdict, answer[y].verdict}
  BY <1>4, Zenon
<1>7. answer[x].verdict = "approved" /\ answer[y].verdict = "approved"
  <2>1. Strictest({answer[x].verdict, answer[y].verdict}) = "approved"
    BY <1>6, Zenon
  <2> QED  BY <1>5, <2>1, StrictestOfAll, Zenon
<1>8. \A p \in {"elliptic", "merkle"} : answer[p].verdict = "approved" => answer[p].passes
  BY <1>1, <1>2, <1>3, Zenon
<1>9. answer[x].passes /\ answer[y].passes
  BY <1>7, <1>8, <1>x, Zenon
<1> QED  BY <1>4, <1>9, Zenon

-----------------------------------------------------------------------------

SettingRow == [choice : Selection, status : {"proposed", "approved", "rejected"},
        by : Operator, decider : Operator]
PortalCall == [at : {"idle", "propose", "approved", "rejected"}, id : Nat, choice : SUBSET Provider]
SwitchState == [resolved : BOOLEAN, choice : SUBSET Provider, readAt : Nat, seen : Nat]

SettingRows ==
  /\ setting \in Seq(SettingRow)
  /\ \A i, j \in DOMAIN setting :
       setting[i].status = "proposed" /\ setting[j].status = "proposed" => i = j
PortalCalls ==
  /\ deciding \in [Operator -> PortalCall]
  /\ \A o \in Operator :
       /\ deciding[o].at = "propose" => deciding[o].choice \in Selection
       /\ deciding[o].at \in {"approved", "rejected"} => deciding[o].id \in DOMAIN setting
       /\ deciding[o].at = "approved" => setting[deciding[o].id].by # o
Stands ==
  \A t \in told : \E i \in DOMAIN setting, s \in {"approved", "rejected"} :
    t = <<i, s>> /\ setting[i].status = s
TwoPeople == \A i \in DOMAIN setting : setting[i].status = "approved" => setting[i].by # setting[i].decider
Followed ==
  /\ switch \in SwitchState /\ clock \in Nat /\ outdated = FALSE
  /\ switch.readAt <= switch.seen /\ switch.seen <= clock
  /\ switch.resolved => switch.choice \in Selection

ScreeningInv == SettingRows /\ PortalCalls /\ Stands /\ TwoPeople /\ Followed

LEMMA ScreeningStarts == ScreeningInit => ScreeningInv
<1> SUFFICES ASSUME ScreeningInit  PROVE ScreeningInv
  OBVIOUS
<1> USE DEF ScreeningInit
<1>1. SettingRows
  BY DEF SettingRows
<1>2. NoDecision \in PortalCall /\ NoDecision.at = "idle"
  BY DEF PortalCall, NoDecision
<1>3. PortalCalls
  BY <1>2 DEF PortalCalls
<1>4. Stands /\ TwoPeople
  BY DEF Stands, TwoPeople
<1>5. switch \in SwitchState
  BY Zenon DEF SwitchState
<1>6. Followed
  BY <1>5 DEF Followed
<1> QED  BY <1>1, <1>3, <1>4, <1>6 DEF ScreeningInv

\* Only a decision in the portal changes: to one that is sound on the rows.
LEMMA CallsMove ==
  ASSUME ScreeningInv, UNCHANGED <<setting, told>>, NEW o \in Operator, NEW decision \in PortalCall,
         deciding' = [deciding EXCEPT ![o] = decision],
         decision.at = "propose" => decision.choice \in Selection,
         decision.at \in {"approved", "rejected"} => decision.id \in DOMAIN setting,
         decision.at = "approved" => setting[decision.id].by # o
  PROVE  (SettingRows /\ PortalCalls /\ Stands /\ TwoPeople)'
<1>1. deciding' \in [Operator -> PortalCall] /\ deciding'[o] = decision
      /\ \A x \in Operator \ {o} : deciding'[x] = deciding[x]
  BY DEF ScreeningInv, PortalCalls
<1>2. PortalCalls'
  BY <1>1 DEF ScreeningInv, PortalCalls
<1>3. (SettingRows /\ Stands /\ TwoPeople)'
  BY DEF ScreeningInv, SettingRows, Stands, TwoPeople, SettingRow
<1> QED  BY <1>2, <1>3

LEMMA FollowedStays ==
  ASSUME ScreeningInv, UNCHANGED <<switch, clock, outdated>>
  PROVE  Followed'
BY DEF ScreeningInv, Followed

LEMMA ProposeSound ==
  ASSUME ScreeningInv, NEW o \in Operator, NEW choice \in Selection, Propose(o, choice)
  PROVE  ScreeningInv'
<1> DEFINE decision == [at |-> "propose", id |-> 0, choice |-> choice]
<1>1. decision \in PortalCall /\ decision.at = "propose" /\ decision.choice = choice
  BY DEF PortalCall, Selection
<1>2. deciding' = [deciding EXCEPT ![o] = decision]
  BY DEF Propose, Does
<1> HIDE DEF decision
<1>3. (SettingRows /\ PortalCalls /\ Stands /\ TwoPeople)'
  BY <1>1, <1>2, CallsMove DEF Propose
<1> QED  BY <1>3, FollowedStays DEF Propose, ScreeningInv

LEMMA ApproveSound ==
  ASSUME ScreeningInv, NEW o \in Operator, NEW i \in DOMAIN setting, Approve(o, i)
  PROVE  ScreeningInv'
<1> DEFINE decision == [at |-> "approved", id |-> i, choice |-> {}]
<1>1. decision \in PortalCall /\ decision.at = "approved" /\ decision.id = i
  BY DEF PortalCall, ScreeningInv, SettingRows
<1>2. deciding' = [deciding EXCEPT ![o] = decision]
  BY DEF Approve, Does
<1> HIDE DEF decision
<1>3. (SettingRows /\ PortalCalls /\ Stands /\ TwoPeople)'
  BY <1>1, <1>2, CallsMove DEF Approve
<1> QED  BY <1>3, FollowedStays DEF Approve, ScreeningInv

LEMMA RejectSound ==
  ASSUME ScreeningInv, NEW o \in Operator, NEW i \in DOMAIN setting, Reject(o, i)
  PROVE  ScreeningInv'
<1> DEFINE decision == [at |-> "rejected", id |-> i, choice |-> {}]
<1>1. decision \in PortalCall /\ decision.at = "rejected" /\ decision.id = i
  BY DEF PortalCall, ScreeningInv, SettingRows
<1>2. deciding' = [deciding EXCEPT ![o] = decision]
  BY DEF Reject, Does
<1> HIDE DEF decision
<1>3. (SettingRows /\ PortalCalls /\ Stands /\ TwoPeople)'
  BY <1>1, <1>2, CallsMove DEF Reject
<1> QED  BY <1>3, FollowedStays DEF Reject, ScreeningInv

LEMMA PortalIdle == NoDecision \in PortalCall /\ NoDecision.at = "idle"
BY DEF PortalCall, NoDecision

LEMMA InsertSound ==
  ASSUME ScreeningInv, NEW o \in Operator, Insert(o)
  PROVE  ScreeningInv'
<1>0. Followed'
  BY FollowedStays DEF Insert
<1>1. deciding' = [deciding EXCEPT ![o] = NoDecision] /\ told' = told
  BY DEF Insert, Does
<1>2. CASE setting' = setting
  BY <1>0, <1>1, <1>2, PortalIdle, CallsMove DEF ScreeningInv
<1>3. CASE setting' # setting
  <2> DEFINE row == [choice |-> deciding[o].choice, status |-> "proposed", by |-> o, decider |-> o]
  <2>1. setting' = Append(setting, row) /\ ~\E i \in DOMAIN setting : setting[i].status = "proposed"
    <3>1. (\E i \in DOMAIN setting : setting[i].status = "proposed" \/ Len(setting) = MaxChanges)
          => setting' = setting
      BY Zenon DEF Insert
    <3>2. ~(\E i \in DOMAIN setting : setting[i].status = "proposed" \/ Len(setting) = MaxChanges)
          => setting' = Append(setting, row)
      BY Zenon DEF Insert
    <3> QED  BY <1>3, <3>1, <3>2, Zenon
  <2>2. row \in SettingRow /\ row.status = "proposed"
    <3>1. deciding[o].choice \in Selection
      BY DEF Insert, ScreeningInv, PortalCalls
    <3> QED  BY <3>1 DEF SettingRow
  <2> HIDE DEF row
  <2> DEFINE n == Len(setting) + 1
  <2>3. /\ setting' \in Seq(SettingRow) /\ DOMAIN setting' = DOMAIN setting \cup {n}
        /\ setting'[n] = row /\ n \notin DOMAIN setting
        /\ \A i \in DOMAIN setting : setting'[i] = setting[i]
    BY <2>1, <2>2 DEF ScreeningInv, SettingRows
  <2> HIDE DEF n
  <2>4. SettingRows'
    <3> SUFFICES ASSUME NEW i \in DOMAIN setting', NEW j \in DOMAIN setting',
                        setting'[i].status = "proposed", setting'[j].status = "proposed"
                 PROVE  i = j
      BY <2>3 DEF SettingRows
    <3> QED  BY <2>1, <2>3
  <2>5. /\ deciding' \in [Operator -> PortalCall] /\ deciding'[o] = NoDecision
        /\ \A x \in Operator \ {o} : deciding'[x] = deciding[x]
    BY <1>1, PortalIdle DEF ScreeningInv, PortalCalls
  <2>6. PortalCalls'
    BY <2>3, <2>5, PortalIdle DEF ScreeningInv, PortalCalls
  <2>7. Stands'
    BY <1>1, <2>3 DEF ScreeningInv, Stands
  <2>8. TwoPeople'
    BY <2>2, <2>3 DEF ScreeningInv, TwoPeople
  <2> QED  BY <1>0, <2>4, <2>6, <2>7, <2>8 DEF ScreeningInv
<1> QED  BY <1>2, <1>3

LEMMA DecideSound ==
  ASSUME ScreeningInv, NEW o \in Operator, Decide(o)
  PROVE  ScreeningInv'
<1> DEFINE i == deciding[o].id
           s == deciding[o].at
<1>1. /\ i \in DOMAIN setting /\ s \in {"approved", "rejected"}
      /\ s = "approved" => setting[i].by # o
  BY DEF Decide, ScreeningInv, PortalCalls
<1>2. deciding' = [deciding EXCEPT ![o] = NoDecision] /\ clock' = clock /\ outdated' = outdated
  BY DEF Decide, Does
<1>3. CASE ~Open(i)
  <2>1. setting' = setting /\ told' = told /\ switch' = switch
    BY <1>3, Zenon DEF Decide
  <2> QED  BY <1>2, <2>1, PortalIdle, CallsMove, FollowedStays DEF ScreeningInv
<1>4. CASE Open(i)
  <2>1. /\ setting' = [setting EXCEPT ![i].status = s, ![i].decider = o]
        /\ told' = told \cup {<<i, s>>}
        /\ switch' = [switch EXCEPT !.seen = IF switch.choice = InForce THEN clock ELSE @]
    BY <1>4, Zenon DEF Decide
  <2>2. setting[i].status = "proposed"
    BY <1>4 DEF Open
  <2> DEFINE row == [[setting[i] EXCEPT !.status = s] EXCEPT !.decider = o]
  <2>3. setting' = [setting EXCEPT ![i] = row]
    BY <2>1, Zenon
  <2>4. row \in SettingRow /\ row.status = s /\ row.decider = o /\ row.by = setting[i].by
    <3>1. setting[i] \in SettingRow
      BY <1>1 DEF ScreeningInv, SettingRows
    <3> QED  BY <1>1, <3>1 DEF SettingRow
  <2> HIDE DEF row
  <2>5. /\ setting' \in Seq(SettingRow) /\ DOMAIN setting' = DOMAIN setting
        /\ setting'[i] = row
        /\ \A j \in DOMAIN setting \ {i} : setting'[j] = setting[j]
    BY <1>1, <2>3, <2>4 DEF ScreeningInv, SettingRows
  <2>p. s # "proposed"
    BY <1>1
  <2>q. /\ deciding' \in [Operator -> PortalCall] /\ deciding'[o] = NoDecision
        /\ \A x \in Operator \ {o} : deciding'[x] = deciding[x]
    BY <1>2, PortalIdle DEF ScreeningInv, PortalCalls
  <2> HIDE DEF i, s
  <2>6. SettingRows'
    <3> SUFFICES ASSUME NEW j \in DOMAIN setting, NEW k \in DOMAIN setting,
                        setting'[j].status = "proposed", setting'[k].status = "proposed"
                 PROVE  j = k
      BY <2>5 DEF SettingRows
    <3>1. j # i /\ k # i
      BY <2>4, <2>5, <2>p
    <3> QED  BY <2>5, <3>1 DEF ScreeningInv, SettingRows
  <2>7. PortalCalls'
    <3>1. \A x \in Operator : x # o => deciding'[x] = deciding[x]
      BY <2>q
    <3>2. \A j \in DOMAIN setting : setting'[j].by = setting[j].by
      BY <2>4, <2>5
    <3> QED  BY <2>5, <2>q, <3>1, <3>2, PortalIdle DEF ScreeningInv, PortalCalls
  <2>8. Stands'
    <3> SUFFICES ASSUME NEW t \in told'
                 PROVE  \E j \in DOMAIN setting', v \in {"approved", "rejected"} :
                          t = <<j, v>> /\ setting'[j].status = v
      BY DEF Stands
    <3>1. CASE t = <<i, s>>
      BY <1>1, <2>4, <2>5, <3>1
    <3>2. CASE t \in told
      <4>1. PICK j \in DOMAIN setting, v \in {"approved", "rejected"} :
              t = <<j, v>> /\ setting[j].status = v
        BY <3>2 DEF ScreeningInv, Stands
      <4>2. j # i
        BY <2>2, <4>1
      <4> QED  BY <2>5, <4>1, <4>2
    <3> QED  BY <2>1, <3>1, <3>2
  <2>9. TwoPeople'
    BY <1>1, <2>4, <2>5 DEF ScreeningInv, TwoPeople
  <2>10. Followed'
    <3> DEFINE at == IF switch.choice = InForce THEN clock ELSE switch.seen
    <3>1. switch' = [switch EXCEPT !.seen = at]
      BY <2>1, Zenon
    <3>2. /\ switch \in SwitchState /\ clock \in Nat /\ outdated = FALSE
          /\ switch.seen \in Nat /\ switch.readAt \in Nat
          /\ switch.readAt <= switch.seen /\ switch.seen <= clock
          /\ switch.resolved => switch.choice \in Selection
      BY DEF ScreeningInv, Followed, SwitchState
    <3>3. at \in Nat /\ switch.readAt <= at /\ at <= clock
      BY <3>2
    <3> HIDE DEF at
    <3>4. /\ switch' \in SwitchState /\ switch'.seen = at /\ switch'.readAt = switch.readAt
          /\ switch'.resolved = switch.resolved /\ switch'.choice = switch.choice
      BY <3>1, <3>2, <3>3, Zenon DEF SwitchState
    <3> QED  BY <1>2, <3>2, <3>3, <3>4 DEF Followed
  <2> QED  BY <2>6, <2>7, <2>8, <2>9, <2>10 DEF ScreeningInv
<1> QED  BY <1>3, <1>4

LEMMA ScreenSound ==
  ASSUME ScreeningInv, NEW choice \in Selection, NEW blind \in BOOLEAN, Screen(choice, blind)
  PROVE  ScreeningInv'
<1>0. (SettingRows /\ PortalCalls /\ Stands /\ TwoPeople)'
  BY DEF Screen, ScreeningInv, SettingRows, PortalCalls, Stands, TwoPeople, SettingRow, PortalCall
<1>1. /\ switch \in SwitchState /\ clock \in Nat /\ outdated = FALSE /\ clock' = clock
      /\ switch.seen \in Nat /\ switch.readAt \in Nat
      /\ switch.readAt <= switch.seen /\ switch.seen <= clock
      /\ switch.resolved => switch.choice \in Selection
  BY DEF ScreeningInv, Followed, SwitchState, Screen
<1>2. outdated' = (outdated \/ (~blind /\ choice # InForce /\ clock - switch.seen >= TTL))
  BY DEF Screen
<1>3. Current(choice, blind)
  BY DEF Screen
<1>4. CASE switch.resolved /\ clock - switch.readAt < TTL
  <2>1. switch' = switch
    BY <1>3, <1>4, Zenon DEF Current
  <2>2. ~(clock - switch.seen >= TTL)
    BY <1>1, <1>4, ScreeningAssumption
  <2>3. outdated' = FALSE
    BY <1>1, <1>2, <2>2, Zenon
  <2> QED  BY <1>0, <1>1, <2>1, <2>3 DEF ScreeningInv, Followed
<1>5. CASE ~(switch.resolved /\ clock - switch.readAt < TTL)
  <2>1. CASE choice = InForce /\ ~blind
    <3>1. \/ switch' = [resolved |-> TRUE, choice |-> choice, readAt |-> clock, seen |-> clock]
          \/ switch' = switch
      BY <1>3, <1>5, Zenon DEF Current
    <3>2. outdated' = FALSE
      BY <1>1, <1>2, <2>1, Zenon
    <3>3. CASE switch' = switch
      BY <1>0, <1>1, <3>2, <3>3 DEF ScreeningInv, Followed
    <3>4. CASE switch' = [resolved |-> TRUE, choice |-> choice, readAt |-> clock, seen |-> clock]
      <4>0. choice \in SUBSET Provider
        BY DEF Selection
      <4>1. /\ switch' \in SwitchState /\ switch'.seen = clock /\ switch'.readAt = clock
            /\ switch'.choice = choice
        BY <1>1, <3>4, <4>0, Zenon DEF SwitchState
      <4> QED  BY <1>0, <1>1, <3>2, <4>1 DEF ScreeningInv, Followed
    <3> QED  BY <3>1, <3>3, <3>4
  <2>2. CASE ~(choice = InForce /\ ~blind)
    <3>1. blind /\ switch' = switch
      BY <1>3, <1>5, <2>2, Zenon DEF Current
    <3>2. outdated' = FALSE
      BY <1>1, <1>2, <3>1, Zenon
    <3> QED  BY <1>0, <1>1, <3>1, <3>2 DEF ScreeningInv, Followed
  <2> QED  BY <2>1, <2>2
<1> QED  BY <1>4, <1>5

LEMMA HourSound ==
  ASSUME ScreeningInv, HourPasses
  PROVE  ScreeningInv'
<1>1. (SettingRows /\ PortalCalls /\ Stands /\ TwoPeople)'
  BY DEF HourPasses, ScreeningInv, SettingRows, PortalCalls, Stands, TwoPeople, SettingRow, PortalCall
<1>2. switch.seen \in Nat /\ clock \in Nat
  BY DEF ScreeningInv, Followed, SwitchState
<1>3. Followed'
  BY <1>2 DEF HourPasses, ScreeningInv, Followed
<1> QED  BY <1>1, <1>3 DEF ScreeningInv

LEMMA RedeploySound ==
  ASSUME ScreeningInv, Redeploy
  PROVE  ScreeningInv'
<1>1. (SettingRows /\ Stands /\ TwoPeople)'
  BY DEF Redeploy, ScreeningInv, SettingRows, Stands, TwoPeople, SettingRow
<1>2. PortalCalls'
  <2>1. deciding' = [o \in Operator |-> NoDecision]
    BY DEF Redeploy
  <2> QED  BY <2>1, PortalIdle DEF PortalCalls
<1>3. Followed'
  <2>1. switch' = [resolved |-> FALSE, choice |-> {}, readAt |-> 0, seen |-> 0]
    BY DEF Redeploy
  <2>2. switch' \in SwitchState
    BY <2>1, Zenon DEF SwitchState
  <2>3. clock \in Nat /\ clock' = clock /\ outdated' = FALSE
    BY DEF Redeploy, ScreeningInv, Followed
  <2> QED  BY <2>1, <2>2, <2>3 DEF Followed
<1> QED  BY <1>1, <1>2, <1>3 DEF ScreeningInv

LEMMA ScreeningStep ==
  ASSUME ScreeningInv, [ScreeningNext]_screeningVars
  PROVE  ScreeningInv'
<1>1. CASE UNCHANGED screeningVars
  BY <1>1 DEF screeningVars, ScreeningInv, SettingRows, PortalCalls, Stands, TwoPeople, Followed,
              SettingRow, PortalCall, SwitchState
<1>2. CASE ScreeningNext
  BY <1>2, ProposeSound, ApproveSound, RejectSound, InsertSound, DecideSound,
     ScreenSound,
     HourSound, RedeploySound DEF ScreeningNext
<1> QED  BY <1>1, <1>2

LEMMA ScreeningInvIsEnough == ScreeningInv => ScreeningSound /\ ScreeningTypeOK
<1> SUFFICES ASSUME ScreeningInv  PROVE ScreeningSound /\ ScreeningTypeOK
  OBVIOUS
<1>1. DecidedByTwo
  BY DEF ScreeningInv, Stands, TwoPeople, DecidedByTwo, Approved
<1>2. ChoiceIsRecent
  BY DEF ScreeningInv, Followed, ChoiceIsRecent
<1>3. \A i \in DOMAIN setting :
        setting[i].choice \in Selection /\ setting[i].status \in {"proposed", "approved", "rejected"}
  <2>1. \A i \in DOMAIN setting : setting[i] \in SettingRow
    BY DEF ScreeningInv, SettingRows
  <2> QED  BY <2>1, Zenon DEF SettingRow
<1>4. Cardinality({i \in DOMAIN setting : setting[i].status = "proposed"}) <= 1
  <2> DEFINE proposed == {i \in DOMAIN setting : setting[i].status = "proposed"}
  <2>1. CASE proposed = {}
    BY <2>1, FS_EmptySet
  <2>2. CASE proposed # {}
    <3>1. PICK i \in proposed : proposed = {i}
      BY <2>2 DEF ScreeningInv, SettingRows
    <3>2. Cardinality(proposed) = 1
      BY <3>1, FS_Singleton, Zenon
    <3> QED  BY <3>2
  <2> QED  BY <2>1, <2>2
<1>5. switch.resolved => switch.choice \in Selection
  BY DEF ScreeningInv, Followed
<1> QED  BY <1>1, <1>2, <1>3, <1>4, <1>5, ApprovalNeedsEvidence DEF ScreeningSound,
   ScreeningTypeOK

\* The choice a screening uses is recent, every choice in force was made by two
\* people, and what a caller was told of a decision stands: for any number of
\* operators, changes, hours and restarts (switch.go, screening_settings.go).
THEOREM ScreeningStaysSound ==
  ScreeningInit /\ [][ScreeningNext]_screeningVars => [](ScreeningSound /\ ScreeningTypeOK)
<1>1. ScreeningInit => ScreeningInv
  BY ScreeningStarts
<1>2. ScreeningInv /\ [ScreeningNext]_screeningVars => ScreeningInv'
  BY ScreeningStep
<1> QED  BY <1>1, <1>2, ScreeningInvIsEnough, PTL

-----------------------------------------------------------------------------
(* What providers report of a lender (Verification) *)

Statuses == openStatuses \cup {"approved", "declined"}
Notification == [kind : {"none", "status", "data", "compass"}, session : Nat, status : Statuses \cup {"none"},
         names : SUBSET LenderAddress]
Delivery == [at : {"idle", "read", "write", "queue", "match", "enqueue", "unmatched", "alert"},
             of : Notification, needs : SUBSET LenderAddress]

\* Sessions are Didit's, in the order it made them; notifications are about them.
LenderRecords ==
  /\ didit \in Seq(Statuses) /\ webhook \subseteq Notification /\ handling \in Delivery
  /\ lender \in [session : Nat, status : Statuses \cup {"none"}, from : Nat]
  /\ starting \in [Starter -> [at : {"idle", "create", "set"}, session : Nat]]
  /\ screenedBefore \subseteq LenderAddress
  /\ \A n \in webhook : n.kind = "status" => n.session \in 1..Len(didit)
  /\ lender.session \in 0..Len(didit) /\ lender.from \in 0..Len(didit)
  /\ \A p \in Starter : starting[p].at = "set" => starting[p].session \in 1..Len(didit)

\* What is handled is a notification that was sent, on the path of its kind.
InHand ==
  /\ handling = NoDelivery \/ (handling.at # "idle" /\ handling.of \in webhook)
  /\ handling.at \in {"read", "write", "queue"} => handling.of.kind # "compass"
  /\ handling.at \in {"match", "unmatched", "alert"} => handling.of.kind = "compass"
  /\ handling.at \in {"read", "write", "match", "unmatched", "alert"} => handling.needs = {}

\* A session that ended stays as it ended, and the row shows no end before it.
Ended(x) == didit[x] \notin openStatuses
OversShown ==
  /\ \A n \in webhook : n.kind = "status" /\ n.status \notin openStatuses => Ended(n.session)
  /\ lender.from # 0 /\ lender.status \notin openStatuses => Ended(lender.from)
  /\ ~overlapped /\ handling.at = "write" => handling.of.session = lender.session

\* An unmatched notification is told, about to be, or was cut short.
UnmatchedTold ==
  \A n \in unmatched : n.kind = "compass" /\
    (n \in toldOf \cup cutShort \/ (handling.at = "alert" /\ handling.of = n))

SignalsBooked == queued \subseteq webhook \X LenderAddress /\ unmatched \subseteq webhook

VerificationInv == LenderRecords /\ InHand /\ OversShown /\ UnmatchedTold /\ SignalsBooked /\ SessionIsOwn /\ NotesAreKept

LEMMA NoDeliveryIn == NoDelivery \in Delivery
BY DEF NoDelivery, Delivery, Nothing, Notification, Statuses

LEMMA VerInit == VerificationInit => VerificationInv
<1> SUFFICES ASSUME VerificationInit PROVE VerificationInv
  OBVIOUS
<1>1. LenderRecords
  <2>1. lender \in [session : Nat, status : Statuses \cup {"none"}, from : Nat] /\ lender.session = 0 /\ lender.from = 0
    BY Zenon DEF VerificationInit
  <2>2. starting \in [Starter -> [at : {"idle", "create", "set"}, session : Nat]] /\ \A p \in Starter : starting[p].at = "idle"
    BY DEF VerificationInit, NotStarting
  <2>3. didit = <<>> /\ webhook = {} /\ screenedBefore = {} /\ handling \in Delivery
    BY NoDeliveryIn DEF VerificationInit
  <2>4. didit \in Seq(Statuses) /\ Len(didit) = 0
    BY <2>3
  <2> QED BY <2>1, <2>2, <2>3, <2>4 DEF LenderRecords
<1>2. InHand /\ OversShown /\ UnmatchedTold /\ SignalsBooked
  BY DEF VerificationInit, InHand, OversShown, UnmatchedTold, SignalsBooked, NoDelivery
<1>3. SessionIsOwn /\ NotesAreKept
  BY DEF VerificationInit, SessionIsOwn, NotesAreKept, NotStarting
<1> QED BY <1>1, <1>2, <1>3 DEF VerificationInv

\* The calls in progress keep their type.
Starts == [Starter -> [at : {"idle", "create", "set"}, session : Nat]]

LEMMA CreateStep == ASSUME VerificationInv, NEW p \in Starter, CreateKYBSession(p) PROVE VerificationInv'
<1> USE DEF VerificationInv
<1>1. /\ didit' = Append(didit, "not_started")
      /\ UNCHANGED <<lender, screenedBefore, webhook, handling, queued, unmatched, kept, toldOf, overlapped, cutShort>>
      /\ \/ starting' = [starting EXCEPT ![p] = [at |-> "set", session |-> Len(didit) + 1]]
         \/ starting' = [starting EXCEPT ![p] = NotStarting]
  BY DEF CreateKYBSession
<1>2. didit' \in Seq(Statuses) /\ Len(didit') = Len(didit) + 1 /\ Len(didit) \in Nat
      /\ \A x \in 1..Len(didit) : didit'[x] = didit[x]
  BY <1>1 DEF LenderRecords, Statuses, openStatuses
<1>3. starting' \in Starts
  <2>1. [at |-> "set", session |-> Len(didit) + 1] \in [at : {"idle", "create", "set"}, session : Nat]
    BY <1>2
  <2>2. NotStarting \in [at : {"idle", "create", "set"}, session : Nat]
    BY DEF NotStarting
  <2> QED BY <1>1, <2>1, <2>2 DEF LenderRecords, Starts
<1>4. \A q \in Starter : q # p => starting'[q] = starting[q]
  BY <1>1 DEF LenderRecords
<1>5. \/ starting'[p].at = "set" /\ starting'[p].session = Len(didit) + 1
      \/ starting'[p].at = "idle"
  BY <1>1 DEF LenderRecords, NotStarting
<1>6. LenderRecords'
  <2>1. \A q \in Starter : starting'[q].at = "set" => starting'[q].session \in 1..Len(didit')
    BY <1>2, <1>4, <1>5 DEF LenderRecords
  <2>2. \A n \in webhook' : n.kind = "status" => n.session \in 1..Len(didit')
    BY <1>1, <1>2 DEF LenderRecords
  <2>3. lender'.session \in 0..Len(didit') /\ lender'.from \in 0..Len(didit')
    BY <1>1, <1>2 DEF LenderRecords
  <2> QED BY <1>1, <1>2, <1>3, <2>1, <2>2, <2>3 DEF LenderRecords, Starts
<1>7. InHand' /\ UnmatchedTold' /\ SignalsBooked' /\ NotesAreKept'
  BY <1>1 DEF InHand, UnmatchedTold, SignalsBooked, NotesAreKept
<1>8. OversShown'
  BY <1>1, <1>2 DEF OversShown, Ended, LenderRecords
<1>9. SessionIsOwn'
  BY <1>1, <1>2, <1>4, <1>5 DEF SessionIsOwn, LenderRecords
<1> QED BY <1>6, <1>7, <1>8, <1>9

LEMMA SetStep == ASSUME VerificationInv, NEW p \in Starter, SetSession(p) PROVE VerificationInv'
<1> USE DEF VerificationInv
<1>1. /\ starting[p].at = "set" /\ starting' = [starting EXCEPT ![p] = NotStarting]
      /\ UNCHANGED <<didit, screenedBefore, webhook, handling, queued, unmatched, kept, toldOf, cutShort>>
  BY DEF SetSession
<1>3. starting' \in Starts
  BY <1>1 DEF LenderRecords, Starts, NotStarting
<1>4. starting'[p].at = "idle" /\ \A q \in Starter : q # p => starting'[q] = starting[q]
  BY <1>1 DEF LenderRecords, NotStarting
<1>5. InHand' /\ UnmatchedTold' /\ SignalsBooked' /\ NotesAreKept'
  BY <1>1 DEF InHand, UnmatchedTold, SignalsBooked, NotesAreKept
<1>6. CASE UNCHANGED <<lender, overlapped>>
  <2>1. LenderRecords'
    BY <1>1, <1>3, <1>4, <1>6 DEF LenderRecords, Starts
  <2>2. OversShown'
    BY <1>1, <1>6 DEF OversShown, Ended
  <2>3. SessionIsOwn'
    BY <1>1, <1>4, <1>6 DEF SessionIsOwn
  <2> QED BY <1>5, <2>1, <2>2, <2>3
<1>7. CASE lender' = [session |-> starting[p].session, status |-> "not_started", from |-> starting[p].session]
           /\ overlapped' = (overlapped \/ handling.at = "write" \/ \E q \in Starter \ {p} : starting[q].at # "idle")
  <2>1. starting[p].session \in 1..Len(didit) /\ Len(didit) \in Nat
    BY <1>1 DEF LenderRecords
  <2>2. lender'.session = starting[p].session /\ lender'.from = starting[p].session /\ lender'.status \in openStatuses
    BY <1>7 DEF openStatuses
  <2>3. lender' \in [session : Nat, status : Statuses \cup {"none"}, from : Nat]
    BY <1>7, <2>1 DEF Statuses, openStatuses
  <2>4. ~overlapped' => handling.at # "write" /\ \A q \in Starter : q # p => starting[q].at = "idle"
    BY <1>7, Zenon
  <2>5. LenderRecords'
    BY <1>1, <1>3, <1>4, <2>1, <2>2, <2>3 DEF LenderRecords, Starts
  <2>6. OversShown'
    BY <1>1, <2>2, <2>4 DEF OversShown, Ended
  <2>7. SessionIsOwn'
    BY <1>1, <1>4, <2>2, <2>4 DEF SessionIsOwn
  <2> QED BY <1>5, <2>5, <2>6, <2>7
<1> QED BY <1>6, <1>7 DEF SetSession

LEMMA DecidesStep == ASSUME VerificationInv, NEW x \in DOMAIN didit, Decides(x) PROVE VerificationInv'
<1> USE DEF VerificationInv
<1>1. PICK s \in {"in_review", "approved", "declined"} \ {didit[x]} :
        /\ didit' = [didit EXCEPT ![x] = s]
        /\ webhook' = webhook \cup {[kind |-> "status", session |-> x, status |-> s, names |-> {}]}
  BY DEF Decides
<1>2. didit[x] \in openStatuses
      /\ UNCHANGED <<lender, starting, screenedBefore, handling, queued, unmatched, noteFaults, kept, toldOf, overlapped, cutShort>>
  BY DEF Decides
<1>3. x \in 1..Len(didit) /\ didit \in Seq(Statuses) /\ s \in Statuses
  BY DEF LenderRecords, Statuses, openStatuses
<1>4. didit' \in Seq(Statuses) /\ Len(didit') = Len(didit) /\ didit'[x] = s
      /\ \A y \in 1..Len(didit) : y # x => didit'[y] = didit[y]
  BY <1>1, <1>3
<1> DEFINE n == [kind |-> "status", session |-> x, status |-> s, names |-> {}]
<1>5. n \in Notification /\ n.session = x /\ n.status = s /\ n.kind = "status"
  BY <1>3 DEF Notification
<1>6. webhook' = webhook \cup {n}
  BY <1>1
<1> HIDE DEF n
<1>7. LenderRecords'
  BY <1>2, <1>3, <1>4, <1>5, <1>6 DEF LenderRecords
<1>8. InHand' /\ UnmatchedTold' /\ SignalsBooked' /\ NotesAreKept'
  BY <1>2, <1>6 DEF InHand, UnmatchedTold, SignalsBooked, NotesAreKept
<1>9. \A y \in 1..Len(didit) : Ended(y) => Ended(y)'
  BY <1>2, <1>3, <1>4 DEF Ended
<1>10. OversShown'
  <2>1. \A m \in webhook : m.kind = "status" => m.session \in 1..Len(didit)
    BY DEF LenderRecords
  <2>2. \A m \in webhook' : m.kind = "status" /\ m.status \notin openStatuses => Ended(m.session)'
    BY <1>4, <1>5, <1>6, <1>9, <2>1 DEF OversShown, Ended
  <2>3. lender.from # 0 => lender.from \in 1..Len(didit)
    BY DEF LenderRecords
  <2> QED BY <1>2, <1>9, <2>2, <2>3 DEF OversShown
<1>11. SessionIsOwn'
  <2>1. lender.session # 0 => lender.session \in 1..Len(didit)
    BY DEF LenderRecords
  <2> QED BY <1>2, <1>9, <2>1 DEF SessionIsOwn, Ended
<1> QED BY <1>7, <1>8, <1>10, <1>11

LEMMA NotifiesStep == ASSUME VerificationInv, Notifies PROVE VerificationInv'
<1> USE DEF VerificationInv
<1>1. UNCHANGED <<lender, starting, didit, screenedBefore, handling, queued, unmatched, noteFaults, kept, toldOf, overlapped, cutShort>>
  BY DEF Notifies
<1>2. PICK x \in DOMAIN didit, names \in SUBSET LenderAddress :
        \/ names = {} /\ webhook' = webhook \cup {[kind |-> "data", session |-> x, status |-> "none", names |-> {}]}
        \/ webhook' = webhook \cup {[kind |-> "compass", session |-> 0, status |-> "none", names |-> names]}
  BY DEF Notifies
<1>3. PICK n : webhook' = webhook \cup {n} /\ n \in Notification /\ n.kind # "status"
  <2>1. x \in Nat
    BY DEF LenderRecords
  <2>2. [kind |-> "data", session |-> x, status |-> "none", names |-> {}] \in Notification
    BY <2>1 DEF Notification
  <2>3. [kind |-> "compass", session |-> 0, status |-> "none", names |-> names] \in Notification
    BY DEF Notification
  <2>4. CASE webhook' = webhook \cup {[kind |-> "data", session |-> x, status |-> "none", names |-> {}]}
    <3> DEFINE n == [kind |-> "data", session |-> x, status |-> "none", names |-> {}]
    <3>1. webhook' = webhook \cup {n} /\ n \in Notification /\ n.kind # "status"
      BY <2>2, <2>4
    <3> QED  BY <3>1, Zenon
  <2>5. CASE webhook' = webhook \cup {[kind |-> "compass", session |-> 0, status |-> "none", names |-> names]}
    <3> DEFINE n == [kind |-> "compass", session |-> 0, status |-> "none", names |-> names]
    <3>1. webhook' = webhook \cup {n} /\ n \in Notification /\ n.kind # "status"
      BY <2>3, <2>5
    <3> QED  BY <3>1, Zenon
  <2> QED  BY <1>2, <2>4, <2>5, Zenon
<1>4. LenderRecords'
  BY <1>1, <1>3 DEF LenderRecords
<1>5. InHand' /\ UnmatchedTold' /\ SignalsBooked' /\ NotesAreKept'
  BY <1>1, <1>3 DEF InHand, UnmatchedTold, SignalsBooked, NotesAreKept
<1>6. OversShown' /\ SessionIsOwn'
  BY <1>1, <1>3 DEF OversShown, Ended, SessionIsOwn
<1> QED BY <1>4, <1>5, <1>6

\* The delivery in hand moves on; the books do not.
LEMMA StartStep == ASSUME VerificationInv, NEW p \in Starter, Start(p) PROVE VerificationInv'
<1> USE DEF VerificationInv
<1>1. LenderRecords'
  BY DEF Start, LenderRecords
<1>2. InHand' /\ OversShown' /\ UnmatchedTold' /\ SignalsBooked'
  BY DEF Start, InHand, OversShown, UnmatchedTold, SignalsBooked, Ended
<1>3. SessionIsOwn'
  BY DEF Start, SessionIsOwn, LenderRecords, OversShown, Ended
<1>4. NotesAreKept'
  BY DEF Start, NotesAreKept
<1> QED BY <1>1, <1>2, <1>3, <1>4

LEMMA DeliverStep == ASSUME VerificationInv, NEW n \in webhook, DeliverNote(n) PROVE VerificationInv'
<1> USE DEF VerificationInv
<1>1. /\ handling = NoDelivery /\ n \in Notification
      /\ UNCHANGED <<lender, starting, didit, screenedBefore, webhook, queued, unmatched, kept, toldOf, overlapped, cutShort>>
  BY DEF DeliverNote, LenderRecords
<1>2. /\ handling'.of = n /\ handling'.needs = {}
      /\ handling'.at = IF n.kind = "compass" THEN "match" ELSE "read"
  BY DEF DeliverNote
<1>3. handling' \in Delivery
  BY <1>1 DEF DeliverNote, Delivery
<1>4. LenderRecords' /\ SignalsBooked' /\ NotesAreKept' /\ SessionIsOwn'
  BY <1>1, <1>3 DEF LenderRecords, SignalsBooked, NotesAreKept, SessionIsOwn
<1>5. InHand' /\ OversShown' /\ UnmatchedTold'
  BY <1>1, <1>2 DEF InHand, OversShown, Ended, UnmatchedTold, NoDelivery
<1> QED BY <1>4, <1>5

\* What a step of the handling leaves alone.
Beside == <<starting, didit, screenedBefore, webhook, overlapped>>

\* The handling ends or goes on, with the queue and the alerts it has written.
LEMMA HandleStep ==
  ASSUME VerificationInv, UNCHANGED Beside, UNCHANGED lender, handling' \in Delivery, InHand', SignalsBooked', UnmatchedTold', NotesAreKept',
         handling'.at = "write" => handling'.of.session = lender.session
  PROVE  VerificationInv'
<1> USE DEF VerificationInv
<1>1. LenderRecords'
  BY DEF LenderRecords, Beside
<1>2. OversShown' /\ SessionIsOwn'
  BY DEF OversShown, Ended, SessionIsOwn, Beside
<1> QED BY <1>1, <1>2

LEMMA GoesOn ==
  ASSUME handling \in Delivery, NEW at \in {"write", "queue", "alert"}, Handles(at)
  PROVE  handling' \in Delivery /\ handling'.at = at /\ handling'.of = handling.of /\ handling'.needs = handling.needs
BY DEF Handles, Delivery

LEMMA AnswerKeeps ==
  ASSUME kept, NEW signals, NEW alerted, Answer(signals, alerted),
         {<<Event, x>> : x \in handling.needs} \subseteq signals,
         Event \in unmatched => Event \in alerted \cup cutShort
  PROVE  kept' /\ handling' = NoDelivery
BY Zenon DEF Answer

LEMMA ReadStep == ASSUME VerificationInv, ReadSession PROVE VerificationInv'
<1> USE DEF VerificationInv
<1>1. handling.at = "read" /\ UNCHANGED Beside /\ UNCHANGED <<lender, queued, unmatched, toldOf, cutShort>>
  BY DEF ReadSession, Beside
<1>2. handling \in Delivery /\ handling.of \in webhook /\ handling.needs = {} /\ handling.of.kind # "compass"
  BY <1>1 DEF LenderRecords, InHand, NoDelivery
<1>3. SignalsBooked'
  BY <1>1 DEF SignalsBooked, Beside
<1>4. CASE IsCurrent
  <2>1. Handles("write") /\ UNCHANGED kept
    BY <1>4 DEF ReadSession
  <2>2. handling' \in Delivery /\ handling'.at = "write" /\ handling'.of = handling.of /\ handling'.needs = {}
    BY <1>2, <2>1, GoesOn
  <2>3. InHand' /\ UnmatchedTold' /\ NotesAreKept'
    BY <1>1, <1>2, <2>1, <2>2 DEF InHand, UnmatchedTold, NotesAreKept, Beside
  <2> QED BY <1>1, <1>3, <1>4, <2>2, <2>3, HandleStep DEF IsCurrent, Event
<1>5. CASE ~IsCurrent
  <2>1. kept' /\ handling' = NoDelivery
    BY <1>2, <1>5, AnswerKeeps DEF ReadSession, NotesAreKept, UnmatchedTold, Event
  <2>2. InHand' /\ UnmatchedTold' /\ NotesAreKept' /\ handling' \in Delivery /\ handling'.at = "idle"
    BY <1>1, <2>1, NoDeliveryIn DEF InHand, UnmatchedTold, NotesAreKept, NoDelivery
  <2> QED BY <1>1, <1>3, <2>2, HandleStep
<1> QED BY <1>4, <1>5

LEMMA WriteStep == ASSUME VerificationInv, WriteStatus PROVE VerificationInv'
<1> USE DEF VerificationInv
<1>1. handling.at = "write" /\ UNCHANGED Beside /\ UNCHANGED <<queued, unmatched, toldOf, cutShort>>
  BY DEF WriteStatus, Beside
<1>2. handling \in Delivery /\ handling.of \in webhook /\ handling.needs = {} /\ handling.of.kind # "compass"
  BY <1>1 DEF LenderRecords, InHand, NoDelivery
<1>3. SignalsBooked'
  BY <1>1 DEF SignalsBooked, Beside
<1>4. CASE Refuse /\ UNCHANGED lender
  <2>1. InHand' /\ UnmatchedTold' /\ NotesAreKept' /\ handling' \in Delivery /\ handling'.at = "idle"
    BY <1>1, <1>4, NoDeliveryIn DEF Refuse, InHand, UnmatchedTold, NotesAreKept, NoDelivery
  <2> QED BY <1>1, <1>3, <1>4, <2>1, HandleStep
<1>5. CASE Event.kind = "data" /\ Handles("queue") /\ UNCHANGED <<lender, kept>>
  <2>2. handling' \in Delivery /\ handling'.at = "queue" /\ handling'.of = handling.of /\ handling'.needs = {}
    BY <1>2, <1>5, GoesOn
  <2>3. InHand' /\ UnmatchedTold' /\ NotesAreKept'
    BY <1>1, <1>2, <1>5, <2>2 DEF InHand, UnmatchedTold, NotesAreKept, Beside
  <2> QED BY <1>1, <1>3, <1>5, <2>2, <2>3, HandleStep
<1>6. CASE /\ Event.kind = "status" /\ Answer(queued, toldOf)
           /\ lender' = [lender EXCEPT !.status = Event.status, !.from = Event.session]
  <2>1. kept' /\ handling' = NoDelivery
    BY <1>2, <1>6, AnswerKeeps DEF NotesAreKept, UnmatchedTold, Event
  <2>2. InHand' /\ UnmatchedTold' /\ NotesAreKept' /\ handling' \in Delivery /\ handling'.at = "idle"
    BY <1>1, <2>1, NoDeliveryIn DEF InHand, UnmatchedTold, NotesAreKept, NoDelivery
  <2>3. Event \in Notification /\ Event \in webhook /\ Event.session \in 1..Len(didit) /\ Len(didit) \in Nat
    BY <1>2, <1>6 DEF Event, LenderRecords
  <2>4. /\ lender'.session = lender.session /\ lender'.status = Event.status /\ lender'.from = Event.session
        /\ lender' \in [session : Nat, status : Statuses \cup {"none"}, from : Nat]
    BY <1>6, <2>3 DEF LenderRecords, Notification
  <2>5. LenderRecords'
    BY <1>1, <2>2, <2>3, <2>4 DEF LenderRecords, Beside
  <2>6. OversShown'
    BY <1>1, <1>6, <2>2, <2>3, <2>4 DEF OversShown, Ended, Beside
  <2>7. SessionIsOwn'
    BY <1>1, <2>4 DEF SessionIsOwn, OversShown, Beside, Event
  <2> QED BY <1>3, <2>2, <2>5, <2>6, <2>7
<1> QED BY <1>4, <1>5, <1>6, Zenon DEF WriteStatus

LEMMA QueueStep == ASSUME VerificationInv, QueueCounterparty \/ MatchAddresses PROVE VerificationInv'
<1> USE DEF VerificationInv
<1>1. UNCHANGED Beside /\ UNCHANGED <<lender, queued, unmatched, toldOf, cutShort, kept>>
      /\ handling.at \in {"queue", "match"}
  BY DEF QueueCounterparty, MatchAddresses, Beside
<1>2. handling \in Delivery /\ handling.of \in webhook /\ screenedBefore \subseteq LenderAddress
  BY <1>1 DEF LenderRecords, InHand, NoDelivery
<1>3. SignalsBooked'
  BY <1>1 DEF SignalsBooked, Beside
<1>4. /\ handling' \in Delivery /\ handling'.of = handling.of
      /\ \/ handling'.at = "enqueue"
         \/ handling'.at = "unmatched" /\ handling'.needs = {} /\ handling.at = "match"
  <2>1. CASE QueueCounterparty
    BY <1>2, <2>1 DEF QueueCounterparty, Delivery
  <2>2. CASE MatchAddresses
    BY <1>2, <2>2 DEF MatchAddresses, Delivery
  <2> QED BY <2>1, <2>2
<1>5. InHand' /\ UnmatchedTold' /\ NotesAreKept'
  BY <1>1, <1>2, <1>4 DEF InHand, UnmatchedTold, NotesAreKept, Beside
<1> QED BY <1>1, <1>3, <1>4, <1>5, HandleStep

LEMMA EnqueueStep == ASSUME VerificationInv, Enqueue PROVE VerificationInv'
<1> USE DEF VerificationInv
<1>1. UNCHANGED Beside /\ UNCHANGED <<lender, unmatched, toldOf, cutShort>> /\ handling.at = "enqueue"
  BY DEF Enqueue, Beside
<1>2. handling \in Delivery /\ handling.of \in webhook /\ handling.needs \subseteq LenderAddress
  BY <1>1 DEF LenderRecords, InHand, NoDelivery, Delivery
<1>3. handling' = NoDelivery /\ NotesAreKept'
  BY <1>1, AnswerKeeps DEF Enqueue, NotesAreKept, UnmatchedTold, Event, Refuse
<1>4. SignalsBooked'
  BY <1>1, <1>2 DEF SignalsBooked, Beside, Enqueue, Event
<1>5. InHand' /\ UnmatchedTold' /\ handling' \in Delivery /\ handling'.at = "idle"
  BY <1>1, <1>3, NoDeliveryIn DEF InHand, UnmatchedTold, NoDelivery
<1> QED BY <1>1, <1>3, <1>4, <1>5, HandleStep

LEMMA UnmatchedStep == ASSUME VerificationInv, StoreUnmatched PROVE VerificationInv'
<1> USE DEF VerificationInv
<1>1. UNCHANGED Beside /\ UNCHANGED <<lender, queued, toldOf, cutShort>> /\ handling.at = "unmatched"
  BY DEF StoreUnmatched, Beside
<1>2. handling \in Delivery /\ Event \in webhook /\ handling.needs = {} /\ Event.kind = "compass" /\ Event = handling.of
  BY <1>1 DEF LenderRecords, InHand, NoDelivery, Delivery, Event
<1>3. CASE Refuse /\ UNCHANGED unmatched
  <2>1. InHand' /\ UnmatchedTold' /\ NotesAreKept' /\ handling' \in Delivery /\ handling'.at = "idle" /\ SignalsBooked'
    BY <1>1, <1>3, NoDeliveryIn DEF Refuse, InHand, UnmatchedTold, NotesAreKept, NoDelivery,
       SignalsBooked, Beside
  <2> QED BY <1>1, <2>1, HandleStep
<1>4. CASE Event \in unmatched /\ unmatched' = unmatched \cup {Event} /\ Answer(queued, toldOf)
  <2>1. kept' /\ handling' = NoDelivery
    BY <1>1, <1>2, <1>4, AnswerKeeps DEF NotesAreKept, UnmatchedTold
  <2>2. unmatched' = unmatched
    BY <1>4
  <2>3. InHand' /\ UnmatchedTold' /\ NotesAreKept' /\ handling' \in Delivery /\ handling'.at = "idle" /\ SignalsBooked'
    BY <1>1, <2>1, <2>2, NoDeliveryIn DEF InHand, UnmatchedTold, NotesAreKept, NoDelivery,
       SignalsBooked, Beside
  <2> QED BY <1>1, <2>3, HandleStep
<1>5. CASE Event \notin unmatched /\ unmatched' = unmatched \cup {Event} /\ Handles("alert") /\ UNCHANGED kept
  <2>1. handling' \in Delivery /\ handling'.at = "alert" /\ handling'.of = Event /\ handling'.needs = {}
    BY <1>2, <1>5, GoesOn
  <2>2. InHand' /\ NotesAreKept' /\ SignalsBooked'
    BY <1>1, <1>2, <1>5, <2>1 DEF InHand, NotesAreKept, SignalsBooked, Beside
  <2>3. UnmatchedTold'
    BY <1>1, <1>2, <1>5, <2>1 DEF UnmatchedTold
  <2> QED BY <1>1, <2>1, <2>2, <2>3, HandleStep
<1> QED BY <1>3, <1>4, <1>5 DEF StoreUnmatched

LEMMA RaiseStep == ASSUME VerificationInv, RaiseUnmatched PROVE VerificationInv'
<1> USE DEF VerificationInv
<1>1. UNCHANGED Beside /\ UNCHANGED <<lender, queued, unmatched, cutShort>> /\ handling.at = "alert"
      /\ toldOf' = toldOf \cup {Event} /\ Answer(queued, toldOf')
  BY DEF RaiseUnmatched, Beside
<1>2. handling.needs = {} /\ Event = handling.of
  BY <1>1 DEF InHand, Event
<1>3. kept' /\ handling' = NoDelivery
  BY <1>1, <1>2, AnswerKeeps DEF NotesAreKept
<1>4. InHand' /\ UnmatchedTold' /\ NotesAreKept' /\ handling' \in Delivery /\ handling'.at = "idle" /\ SignalsBooked'
  BY <1>1, <1>2, <1>3, NoDeliveryIn DEF InHand, UnmatchedTold, NotesAreKept, NoDelivery,
     SignalsBooked, Beside
<1> QED BY <1>1, <1>4, HandleStep

LEMMA StopStep == ASSUME VerificationInv, StopVerification PROVE VerificationInv'
<1> USE DEF VerificationInv
<1>1. /\ handling' = NoDelivery /\ starting' = [p \in Starter |-> NotStarting]
      /\ cutShort' = IF handling.at = "alert" THEN cutShort \cup {Event} ELSE cutShort
      /\ UNCHANGED <<lender, didit, screenedBefore, webhook, queued, unmatched, kept, toldOf, overlapped>>
  BY DEF StopVerification
<1>2. handling' \in Delivery /\ handling'.at = "idle" /\ \A p \in Starter : starting'[p].at = "idle"
  BY <1>1, NoDeliveryIn DEF NoDelivery, NotStarting
<1>3. starting' \in Starts
  BY <1>1 DEF Starts, NotStarting
<1>4. LenderRecords'
  BY <1>1, <1>2, <1>3 DEF LenderRecords, Starts
<1>5. InHand' /\ OversShown' /\ SignalsBooked' /\ NotesAreKept' /\ SessionIsOwn'
  BY <1>1, <1>2 DEF InHand, OversShown, Ended, SignalsBooked, NotesAreKept, SessionIsOwn
<1>6. UnmatchedTold'
  BY <1>1, <1>2 DEF UnmatchedTold, Event
<1> QED BY <1>4, <1>5, <1>6

LEMMA VerStep == VerificationInv /\ [VerificationNext]_verificationVars => VerificationInv'
<1> SUFFICES ASSUME VerificationInv, [VerificationNext]_verificationVars PROVE VerificationInv'
  OBVIOUS
<1>1. CASE UNCHANGED verificationVars
  BY <1>1 DEF verificationVars, VerificationInv, LenderRecords, InHand, OversShown, Ended,
     UnmatchedTold, SignalsBooked, SessionIsOwn, NotesAreKept
<1>2. ASSUME NEW x \in LenderAddress, ScreenFirst(x) PROVE VerificationInv'
  BY <1>2 DEF ScreenFirst, VerificationInv, LenderRecords, InHand, OversShown, Ended, UnmatchedTold,
     SignalsBooked, SessionIsOwn, NotesAreKept
<1> QED
  BY <1>1, <1>2, StartStep, CreateStep, SetStep, DecidesStep, NotifiesStep,
     DeliverStep, ReadStep, WriteStep,
     QueueStep, EnqueueStep, UnmatchedStep, RaiseStep, StopStep DEF VerificationNext

\* A lender's status is the current session's and no second link is given out while
\* the first can be used, unless sessions were replaced in between; and what was
\* answered with success was queued or told (kyb.go, monitoring.go).
THEOREM VerificationStaysSound ==
  VerificationInit /\ [][VerificationNext]_verificationVars
    => [](VerificationSound /\ VerificationTypeOK)
<1>1. VerificationInv => VerificationSound
  BY DEF VerificationInv, VerificationSound
<1>2. VerificationInv => VerificationTypeOK
  <2> SUFFICES ASSUME VerificationInv  PROVE VerificationTypeOK
    OBVIOUS
  <2>1. lender.session \in {0} \cup DOMAIN didit /\ lender.from \in {0} \cup DOMAIN didit
    BY DEF VerificationInv, LenderRecords
  <2>2. handling.of \in {Nothing} \cup webhook
    BY DEF VerificationInv, InHand, NoDelivery
  <2> QED  BY <2>1, <2>2 DEF VerificationInv, SignalsBooked, VerificationTypeOK
<1> QED
  BY VerInit, VerStep, <1>1, <1>2, PTL
=============================================================================
