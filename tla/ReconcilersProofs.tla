-------------------------- MODULE ReconcilersProofs --------------------------
(***************************************************************************)
(* The loops that bring the chain to what the rows want: an account row     *)
(* says of the ledger what is true, and no address is put on the vault's    *)
(* allowlist while its lender's verification is undecided, unless a person  *)
(* decided so.  For any number of addresses, retries, decisions and faults. *)
(*                                                                         *)
(* AllowInv follows an address nobody vouched for: until the lender is      *)
(* decided on it is never screened, never rescreened and never listed by    *)
(* the writer.  AccountInv says what each call has seen of the ledger at    *)
(* the step it is at, and that an index recorded as conflict stays in it.   *)
(***************************************************************************)
EXTENDS MCReconcilers, TLAPS, FiniteSetTheorems

-----------------------------------------------------------------------------
(* Addresses and the allowlist (Allowlist) *)

AddressRows == [status : Status, onchain : OnchainState, revoked : BOOLEAN,
                frozen : BOOLEAN, lapses : BOOLEAN]
ScreeningCalls == [of : SUBSET Addr, status : Status, onchain : OnchainState]
SignalRows == [st : {"none", "queued", "rescreened", "failed"}, tries : 0..AlertTries,
               told : {"no", "next", "yes", "lost"}]
Passes == [phase : {"allow", "revoke", "freeze"}, held : SUBSET Addr, sent : SUBSET Addr]

AllowShaped ==
  /\ kyb \in {"pending", "approved", "rejected"}
  /\ addressRow \in [Addr -> AddressRows]
  /\ chain \in [Addr -> {"off", "allowed", "revoked", "frozen"}]
  /\ toScreen \subseteq Addr /\ vouched \subseteq Addr
  /\ screen \in ScreeningCalls /\ recheck \in ScreeningCalls
  /\ signal \in [Addr -> SignalRows]
  /\ writer \in Passes
  /\ adminActs \in 0..AdminActs /\ allowFaults \in 0..AllowFaults

\* One call is sent at a time, of an address the pass holds.
OneSent ==
  /\ writer.sent \subseteq writer.held
  /\ writer.sent = {} \/ \E x \in Addr : writer.sent = {x}

\* A signal not yet settled has a try left, and a rescreen in work is of a queued one.
TriesLeft ==
  /\ \A x \in Addr : signal[x].st \in {"none", "queued"} => signal[x].tries < AlertTries
  /\ \A x \in recheck.of : signal[x].st = "queued"

\* Nothing was decided of x, and nothing is on its way that could let it in.
Untouched(x) ==
  /\ addressRow[x].status \in {"none", "pending"}
  /\ x \notin toScreen /\ x \notin screen.of /\ x \notin recheck.of
  /\ signal[x].st = "none"
  /\ writer.phase = "allow" => x \notin writer.held
  /\ chain[x] # "allowed"

NobodyEnters == kyb = "pending" => \A x \in Addr \ vouched : Untouched(x)

AllowInv == AllowShaped /\ OneSent /\ TriesLeft /\ NobodyEnters

\* What a verdict writes to a row keeps the row's shape (RecordScreening).
LEMMA RecordKeepsShape ==
  ASSUME NEW r \in AddressRows, NEW s \in Status, NEW o \in OnchainState \cup {"none"}
  PROVE  RecordScreening(r, s, o) \in AddressRows
<1>1. /\ \A a \in Status : [r EXCEPT !.status = a] \in AddressRows
      /\ \A b \in BOOLEAN : [r EXCEPT !.lapses = b] \in AddressRows
      /\ \A c \in OnchainState : [r EXCEPT !.onchain = c] \in AddressRows
  BY Zenon DEF AddressRows
<1> DEFINE st == IF s = "none" THEN r.status ELSE s
           la == IF s = "none" THEN r.lapses ELSE s = "approved"
           oc == IF o = "none" THEN r.onchain ELSE o
<1>2. st \in Status /\ la \in BOOLEAN /\ oc \in OnchainState
  <2>1. r.status \in Status /\ r.lapses \in BOOLEAN /\ r.onchain \in OnchainState
    BY Zenon DEF AddressRows
  <2> QED BY <2>1, Zenon
<1>3. RecordScreening(r, s, o) = [r EXCEPT !.status = st, !.lapses = la, !.onchain = oc]
  BY Zenon DEF RecordScreening
<1> HIDE DEF st, la, oc
<1>4. [r EXCEPT !.status = st, !.lapses = la, !.onchain = oc] \in AddressRows
  BY <1>2, Zenon DEF AddressRows
<1> QED BY <1>3, <1>4, Zenon

LEMMA VerdictStatus ==
  /\ \A v \in Verdict : applyVerdict(v) \in Status
  /\ \A s \in Status, v \in Verdict : tighten(s, applyVerdict(v)) \in Status
BY DEF Verdict, applyVerdict, Status, tighten

LEMMA AllowInit == AllowlistInit => AllowInv
<1> SUFFICES ASSUME AllowlistInit PROVE AllowInv OBVIOUS
<1> USE AllowlistAssumption
<1>1. NoAddress \in AddressRows BY Zenon DEF NoAddress, AddressRows, Status, OnchainState
<1>2. NoCall \in ScreeningCalls BY DEF NoCall, ScreeningCalls, Status, OnchainState
<1>3. ASSUME NEW x \in Addr PROVE signal[x] \in SignalRows /\ signal[x].st = "none"
  BY DEF AllowlistInit, SignalRows
<1>4. writer \in Passes BY DEF AllowlistInit, Passes
<1>5. signal \in [Addr -> SignalRows] BY <1>3 DEF AllowlistInit
<1>6. AllowShaped BY <1>1, <1>2, <1>4, <1>5 DEF AllowlistInit, AllowShaped
<1>7. OneSent /\ TriesLeft /\ NobodyEnters
  BY DEF AllowlistInit, OneSent, TriesLeft, NobodyEnters, Untouched, NoCall, NoAddress
<1> QED BY <1>6, <1>7 DEF AllowInv

-----------------------------------------------------------------------------

LEMMA AllowSubmits ==
  ASSUME AllowInv, NEW x \in Addr, SubmitAddress(x)
  PROVE  AllowInv'
<1> USE DEF SubmitAddress
<1>1. addressRow' \in [Addr -> AddressRows]
  <2>1. addressRow \in [Addr -> AddressRows] BY DEF AllowInv, AllowShaped
  <2>2. [addressRow[x] EXCEPT !.status = "pending"] \in AddressRows
    BY <2>1, Zenon DEF AddressRows, Status
  <2>3. addressRow' = [addressRow EXCEPT ![x] = [addressRow[x] EXCEPT !.status = "pending"]]
    BY <2>1
  <2> QED BY <2>1, <2>2, <2>3
<1>2. AllowShaped' BY <1>1 DEF AllowInv, AllowShaped, ScreenOnSubmit
<1>3. OneSent' /\ TriesLeft' BY DEF AllowInv, OneSent, TriesLeft
<1>4. NobodyEnters'
  <2> SUFFICES ASSUME kyb = "pending", NEW y \in Addr \ vouched PROVE Untouched(y)'
    BY DEF NobodyEnters
  <2>1. Untouched(y) BY DEF AllowInv, NobodyEnters
  <2>2. addressRow'[y].status \in {"none", "pending"}
    <3>1. addressRow \in [Addr -> AddressRows] BY DEF AllowInv, AllowShaped
    <3>2. CASE y = x
      <4>1. addressRow'[y] = [addressRow[y] EXCEPT !.status = "pending"] BY <3>1, <3>2
      <4>2. addressRow[y] \in AddressRows BY <3>1
      <4> QED BY <4>1, <4>2 DEF AddressRows
    <3>3. CASE y # x BY <2>1, <3>1, <3>3 DEF Untouched
    <3> QED BY <3>2, <3>3
  <2> QED BY <2>1, <2>2 DEF Untouched, ScreenOnSubmit
<1> QED BY <1>2, <1>3, <1>4 DEF AllowInv

LEMMA AllowDecidesKYB ==
  ASSUME AllowInv, ApproveKYB \/ RejectKYB
  PROVE  AllowInv'
<1> USE AllowlistAssumption DEF ApproveKYB, RejectKYB
<1>1. AllowShaped' BY DEF AllowInv, AllowShaped
<1>2. OneSent' /\ TriesLeft' BY DEF AllowInv, OneSent, TriesLeft
<1>3. NobodyEnters' BY DEF NobodyEnters
<1> QED BY <1>1, <1>2, <1>3 DEF AllowInv

\* A person's decision on an address vouches for it.
LEMMA AllowDecides ==
  ASSUME AllowInv, NEW x \in Addr, NEW r \in AddressRows, Decide(x, r)
  PROVE  AllowInv'
<1> USE AllowlistAssumption DEF Decide
<1>1. AllowShaped' BY DEF AllowInv, AllowShaped
<1>2. OneSent' /\ TriesLeft' BY DEF AllowInv, OneSent, TriesLeft
<1>3. NobodyEnters'
  <2> SUFFICES ASSUME kyb = "pending", NEW y \in Addr \ vouched' PROVE Untouched(y)'
    BY DEF NobodyEnters
  <2>1. Untouched(y) /\ y # x BY DEF AllowInv, NobodyEnters
  <2>2. addressRow'[y] = addressRow[y] BY <2>1 DEF AllowInv, AllowShaped
  <2> QED BY <2>1, <2>2 DEF Untouched
<1> QED BY <1>1, <1>2, <1>3 DEF AllowInv

LEMMA AllowPeople ==
  ASSUME AllowInv, NEW x \in Addr,
         \/ ApproveAddress(x) \/ RejectAddress(x) \/ RevokeAddress(x) \/ FreezeAddress(x)
  PROVE  AllowInv'
<1>1. addressRow[x] \in AddressRows BY DEF AllowInv, AllowShaped
<1>2. CASE ApproveAddress(x)
  <2>1. [addressRow[x] EXCEPT !.status = "approved", !.onchain = "pending",
                              !.revoked = FALSE, !.frozen = FALSE] \in AddressRows
    BY <1>1, Zenon DEF AddressRows, Status, OnchainState
  <2> QED BY <1>2, <2>1, AllowDecides DEF ApproveAddress
<1>3. CASE RejectAddress(x)
  <2>1. [addressRow[x] EXCEPT !.status = "rejected"] \in AddressRows
    BY <1>1, Zenon DEF AddressRows, Status
  <2> QED BY <1>3, <2>1, AllowDecides DEF RejectAddress
<1>4. CASE RevokeAddress(x)
  <2>1. [addressRow[x] EXCEPT !.revoked = TRUE] \in AddressRows
    BY <1>1, Zenon DEF AddressRows
  <2> QED BY <1>4, <2>1, AllowDecides DEF RevokeAddress
<1>5. CASE FreezeAddress(x)
  <2>1. [addressRow[x] EXCEPT !.frozen = TRUE, !.revoked = TRUE] \in AddressRows
    BY <1>1, Zenon DEF AddressRows
  <2> QED BY <1>5, <2>1, AllowDecides DEF FreezeAddress
<1> QED BY <1>2, <1>3, <1>4, <1>5

LEMMA AllowAsks ==
  ASSUME AllowInv, NEW x \in Addr, AskRescreen(x)
  PROVE  AllowInv'
<1> USE AllowlistAssumption DEF AskRescreen
<1>1. AllowShaped' BY DEF AllowInv, AllowShaped
<1>2. OneSent' /\ TriesLeft' BY DEF AllowInv, OneSent, TriesLeft
<1>3. NobodyEnters' BY DEF AllowInv, NobodyEnters, Untouched
<1> QED BY <1>1, <1>2, <1>3 DEF AllowInv

\* The sweep screens what an approval let in before: nothing untouched.
LEMMA AllowSweeps ==
  ASSUME AllowInv, RescreenSweep
  PROVE  AllowInv'
<1> USE DEF RescreenSweep
<1>0. addressRow \in [Addr -> AddressRows] BY DEF AllowInv, AllowShaped
<1>1. PICK lapsed \in SUBSET {x \in Addr : /\ addressRow[x].status = "approved"
                                           /\ addressRow[x].lapses} :
        addressRow' = [x \in Addr |->
            IF x \in lapsed THEN [addressRow[x] EXCEPT !.status = "expired"]
            ELSE addressRow[x]]
  OBVIOUS
<1>2. ASSUME NEW x \in Addr
      PROVE  /\ addressRow'[x] \in AddressRows
             /\ addressRow[x].status \in {"none", "pending"} => addressRow'[x] = addressRow[x]
  <2>1. addressRow[x] \in AddressRows BY <1>0
  <2>2. CASE x \in lapsed
    <3>1. addressRow'[x] = [addressRow[x] EXCEPT !.status = "expired"] BY <1>1, <2>2
    <3>2. [addressRow[x] EXCEPT !.status = "expired"] \in AddressRows
      BY <2>1, Zenon DEF AddressRows, Status
    <3>3. addressRow[x].status = "approved" BY <1>1, <2>2
    <3> QED BY <3>1, <3>2, <3>3
  <2>3. CASE x \notin lapsed BY <1>1, <2>1, <2>3
  <2> QED BY <2>2, <2>3
<1>3. addressRow' \in [Addr -> AddressRows] BY <1>1, <1>2
<1>4. AllowShaped' BY <1>3 DEF AllowInv, AllowShaped
<1>5. OneSent' /\ TriesLeft' BY DEF AllowInv, OneSent, TriesLeft
<1>6. NobodyEnters'
  <2> SUFFICES ASSUME kyb = "pending", NEW y \in Addr \ vouched PROVE Untouched(y)'
    BY DEF NobodyEnters
  <2>1. Untouched(y) BY DEF AllowInv, NobodyEnters
  <2>2. addressRow'[y] = addressRow[y] BY <1>2, <2>1 DEF Untouched
  <2>3. addressRow'[y].status # "expired" BY <2>1, <2>2 DEF Untouched
  <2> QED BY <2>1, <2>2, <2>3 DEF Untouched
<1> QED BY <1>4, <1>5, <1>6 DEF AllowInv

LEMMA AllowReads ==
  ASSUME AllowInv, NEW x \in Addr
  PROVE  Reads(x) \in ScreeningCalls /\ Reads(x).of = {x}
<1>1. addressRow[x] \in AddressRows BY DEF AllowInv, AllowShaped
<1>2. addressRow[x].status \in Status /\ addressRow[x].onchain \in OnchainState
  BY <1>1 DEF AddressRows
<1> QED BY <1>2 DEF Reads, ScreeningCalls

LEMMA AllowBeginsScreen ==
  ASSUME AllowInv, NEW x \in Addr, BeginScreen(x)
  PROVE  AllowInv'
<1> USE DEF BeginScreen
<1>1. screen' \in ScreeningCalls /\ screen'.of = {x} BY AllowReads
<1>2. AllowShaped' BY <1>1 DEF AllowInv, AllowShaped
<1>3. OneSent' /\ TriesLeft' BY DEF AllowInv, OneSent, TriesLeft
<1>4. NobodyEnters' BY <1>1 DEF AllowInv, NobodyEnters, Untouched
<1> QED BY <1>2, <1>3, <1>4 DEF AllowInv

\* An answer is written to the row a screening is of, which is touched already.
LEMMA AllowEndsScreen ==
  ASSUME AllowInv, NEW x \in Addr, EndScreen(x)
  PROVE  AllowInv'
<1> USE DEF EndScreen
<1>0. addressRow \in [Addr -> AddressRows] BY DEF AllowInv, AllowShaped
<1>1. screen' \in ScreeningCalls /\ screen'.of = {}
  BY DEF NoCall, ScreeningCalls, Status, OnchainState
<1>2. addressRow' \in [Addr -> AddressRows] /\ \A y \in Addr \ {x} : addressRow'[y] = addressRow[y]
  <2>1. CASE UNCHANGED addressRow BY <1>0, <2>1
  <2>2. ASSUME NEW v \in Verdict, NEW s, NEW o, s = applyVerdict(v), o \in {"pending", "none"},
               addressRow' = [addressRow EXCEPT ![x] = RecordScreening(@, s, o)]
        PROVE  addressRow' \in [Addr -> AddressRows]
               /\ \A y \in Addr \ {x} : addressRow'[y] = addressRow[y]
    <3>1. RecordScreening(addressRow[x], s, o) \in AddressRows
      BY <1>0, <2>2, VerdictStatus, RecordKeepsShape DEF OnchainState
    <3> QED BY <1>0, <2>2, <3>1
  <2>3. CASE \E v \in Verdict :
               LET status == applyVerdict(v)
                   allow == status = "approved" /\ screen.onchain = "absent"
               IN  addressRow' = [addressRow EXCEPT ![x] =
                      RecordScreening(@, status, IF allow THEN "pending" ELSE "none")]
    <3>1. PICK v \in Verdict :
               addressRow' = [addressRow EXCEPT ![x] =
                      RecordScreening(@, applyVerdict(v),
                        IF applyVerdict(v) = "approved" /\ screen.onchain = "absent"
                        THEN "pending" ELSE "none")]
      BY <2>3
    <3> DEFINE o == IF applyVerdict(v) = "approved" /\ screen.onchain = "absent"
                    THEN "pending" ELSE "none"
    <3>2. o \in {"pending", "none"} OBVIOUS
    <3>3. addressRow' = [addressRow EXCEPT ![x] = RecordScreening(@, applyVerdict(v), o)]
      BY <3>1
    <3> HIDE DEF o
    <3> QED BY <2>2, <3>2, <3>3
  <2> QED BY <2>1, <2>3
<1>3. AllowShaped' BY <1>1, <1>2 DEF AllowInv, AllowShaped
<1>4. OneSent' /\ TriesLeft' BY DEF AllowInv, OneSent, TriesLeft
<1>5. NobodyEnters' BY <1>1, <1>2 DEF AllowInv, NobodyEnters, Untouched
<1> QED BY <1>3, <1>4, <1>5 DEF AllowInv

\* A signal is of an address that was screened, so decided on by a person or after the lender.
LEMMA AllowQueuesSignal ==
  ASSUME AllowInv, NEW x \in Addr, QueueSignal(x)
  PROVE  AllowInv'
<1> USE AllowlistAssumption DEF QueueSignal
<1>0. signal \in [Addr -> SignalRows] BY DEF AllowInv, AllowShaped
<1>1. signal' \in [Addr -> SignalRows]
  <2>1. [signal[x] EXCEPT !.st = "queued"] \in SignalRows BY <1>0, Zenon DEF SignalRows
  <2>2. signal' = [signal EXCEPT ![x] = [signal[x] EXCEPT !.st = "queued"]] BY <1>0
  <2> QED BY <1>0, <2>1, <2>2
<1>2. /\ \A y \in Addr \ {x} : signal'[y] = signal[y]
      /\ signal'[x].tries = signal[x].tries /\ signal'[x].st = "queued"
  BY <1>0 DEF SignalRows
<1>3. AllowShaped' BY <1>1 DEF AllowInv, AllowShaped
<1>4. OneSent' BY DEF AllowInv, OneSent
<1>5. signal[x].tries < AlertTries BY DEF AllowInv, TriesLeft
<1>6. TriesLeft' BY <1>2, <1>5 DEF AllowInv, TriesLeft
<1>7. NobodyEnters'
  <2> SUFFICES ASSUME kyb = "pending", NEW y \in Addr \ vouched PROVE Untouched(y)'
    BY DEF NobodyEnters
  <2>1. Untouched(y) BY DEF AllowInv, NobodyEnters
  <2>2. y # x BY <2>1 DEF Untouched, OnFile
  <2> QED BY <1>2, <2>1, <2>2 DEF Untouched
<1> QED BY <1>3, <1>4, <1>6, <1>7 DEF AllowInv

LEMMA AllowBeginsRecheck ==
  ASSUME AllowInv, NEW x \in Addr, BeginRecheck(x)
  PROVE  AllowInv'
<1> USE DEF BeginRecheck
<1>1. recheck' \in ScreeningCalls /\ recheck'.of = {x} BY AllowReads
<1>2. AllowShaped' BY <1>1 DEF AllowInv, AllowShaped
<1>3. OneSent' /\ TriesLeft' BY <1>1 DEF AllowInv, OneSent, TriesLeft
<1>4. NobodyEnters' BY <1>1 DEF AllowInv, NobodyEnters, Untouched
<1> QED BY <1>2, <1>3, <1>4 DEF AllowInv

\* A signal with a try left is settled, or counts a try within the limit.
LEMMA SignalsSettle ==
  ASSUME NEW s \in SignalRows, s.tries < AlertTries, NEW v
  PROVE  /\ Retry(s) \in SignalRows /\ (Retry(s).st \in {"none", "queued"} => Retry(s).tries < AlertTries)
         /\ Rescreened(s, v) \in SignalRows /\ Rescreened(s, v).st = "rescreened"
<1> USE AllowlistAssumption
<1> DEFINE n == s.tries + 1
<1>1. s.tries \in 0..AlertTries BY DEF SignalRows
<1>2. n \in 0..AlertTries /\ (~LastTry(s) => n < AlertTries) BY <1>1 DEF LastTry
<1> HIDE DEF n
<1>3. Rescreened(s, v) \in SignalRows /\ Rescreened(s, v).st = "rescreened"
  BY Zenon DEF Rescreened, SignalRows
<1>4. CASE LastTry(s)
  <2>1. Retry(s) = [st |-> "failed", tries |-> n, told |-> "next"] BY <1>4 DEF Retry, n
  <2>2. [st |-> "failed", tries |-> n, told |-> "next"] \in SignalRows
    BY <1>2, Zenon DEF SignalRows
  <2> QED BY <1>3, <2>1, <2>2
<1>5. CASE ~LastTry(s)
  <2>1. Retry(s) = [s EXCEPT !.tries = n] BY <1>5 DEF Retry, n
  <2>2. [s EXCEPT !.tries = n] \in SignalRows BY <1>2, Zenon DEF SignalRows
  <2>3. [s EXCEPT !.tries = n].tries = n BY DEF SignalRows
  <2>4. Retry(s).tries < AlertTries BY <1>2, <1>5, <2>1, <2>3
  <2> QED BY <1>3, <2>1, <2>2, <2>4
<1> QED BY <1>4, <1>5

LEMMA AllowEndsRecheck ==
  ASSUME AllowInv, NEW x \in Addr, EndRecheck(x)
  PROVE  AllowInv'
<1> USE AllowlistAssumption DEF EndRecheck
<1>0. addressRow \in [Addr -> AddressRows] /\ signal \in [Addr -> SignalRows]
  BY DEF AllowInv, AllowShaped
<1>1. recheck' \in ScreeningCalls /\ recheck'.of = {}
  BY DEF NoCall, ScreeningCalls, Status, OnchainState
<1>2. PICK v \in Verdict \cup {"error"} :
          /\ addressRow' =
                IF v = "error" THEN addressRow
                ELSE [addressRow EXCEPT ![x] = RecordScreening(@,
                           tighten(recheck.status, applyVerdict(v)), "none")]
          /\ \/ /\ signal' = [signal EXCEPT ![x] =
                      IF v \in {"pending", "error"} THEN Retry(@) ELSE Rescreened(@, v)]
                /\ UNCHANGED allowFaults
             \/ /\ allowFaults < AllowFaults
                /\ allowFaults' = allowFaults + 1
                /\ UNCHANGED signal
  OBVIOUS
<1>3. addressRow' \in [Addr -> AddressRows] /\ \A y \in Addr \ {x} : addressRow'[y] = addressRow[y]
  <2>1. CASE v = "error" BY <1>0, <1>2, <2>1
  <2>2. CASE v # "error"
    <3> DEFINE s == tighten(recheck.status, applyVerdict(v))
    <3>1. recheck.status \in Status BY DEF AllowInv, AllowShaped, ScreeningCalls
    <3>2. s \in Status BY <2>2, <3>1, VerdictStatus
    <3>3. addressRow' = [addressRow EXCEPT ![x] = RecordScreening(addressRow[x], s, "none")]
      BY <1>0, <1>2, <2>2
    <3> HIDE DEF s
    <3>4. RecordScreening(addressRow[x], s, "none") \in AddressRows
      BY <1>0, <3>2, RecordKeepsShape
    <3> QED BY <1>0, <3>3, <3>4
  <2> QED BY <2>1, <2>2
<1>4. /\ signal' \in [Addr -> SignalRows] /\ \A y \in Addr \ {x} : signal'[y] = signal[y]
      /\ signal'[x].st \in {"none", "queued"} => signal'[x].tries < AlertTries
  <2>1. signal[x].tries < AlertTries BY DEF AllowInv, TriesLeft
  <2>2. CASE UNCHANGED signal BY <1>0, <2>1, <2>2
  <2>3. ASSUME NEW t, t \in SignalRows, t.st \in {"none", "queued"} => t.tries < AlertTries,
               signal' = [signal EXCEPT ![x] = t]
        PROVE  /\ signal' \in [Addr -> SignalRows] /\ \A y \in Addr \ {x} : signal'[y] = signal[y]
               /\ signal'[x].st \in {"none", "queued"} => signal'[x].tries < AlertTries
    BY <1>0, <2>3
  <2>4. /\ Retry(signal[x]) \in SignalRows
        /\ Retry(signal[x]).st \in {"none", "queued"} => Retry(signal[x]).tries < AlertTries
        /\ Rescreened(signal[x], v) \in SignalRows /\ Rescreened(signal[x], v).st = "rescreened"
    BY <1>0, <2>1, SignalsSettle
  <2>5. CASE signal' = [signal EXCEPT ![x] =
                IF v \in {"pending", "error"} THEN Retry(@) ELSE Rescreened(@, v)]
    <3>1. signal' = [signal EXCEPT ![x] = Retry(signal[x])]
          \/ signal' = [signal EXCEPT ![x] = Rescreened(signal[x], v)]
      BY <1>0, <2>5
    <3> QED BY <2>3, <2>4, <3>1
  <2> QED BY <1>2, <2>2, <2>5
<1>5. allowFaults' \in 0..AllowFaults BY <1>2 DEF AllowInv, AllowShaped
<1>6. AllowShaped' BY <1>1, <1>3, <1>4, <1>5 DEF AllowInv, AllowShaped
<1>7. OneSent' BY DEF AllowInv, OneSent
<1>8. TriesLeft' BY <1>1, <1>4 DEF AllowInv, TriesLeft
<1>9. NobodyEnters' BY <1>1, <1>3, <1>4 DEF AllowInv, NobodyEnters, Untouched
<1> QED BY <1>6, <1>7, <1>8, <1>9 DEF AllowInv

\* The pass of allows lists approved rows: none untouched.
LEMMA AllowLists ==
  ASSUME AllowInv, ListQueue
  PROVE  AllowInv'
<1> USE DEF ListQueue
<1> DEFINE phase == NextPhase(writer.phase)
           queue == WriterQueue(phase)
<1>1. phase \in {"allow", "revoke", "freeze"} /\ queue \subseteq Addr
  BY DEF NextPhase, WriterQueue
<1>2. writer' = [phase |-> phase, held |-> queue, sent |-> {}] OBVIOUS
<1>3. phase = "allow" => \A y \in queue : addressRow[y].status = "approved"
  BY DEF WriterQueue, NeedsAllow
<1> HIDE DEF phase, queue
<1>4. writer' \in Passes BY <1>1, <1>2 DEF Passes
<1>5. AllowShaped' BY <1>4 DEF AllowInv, AllowShaped
<1>6. OneSent' /\ TriesLeft' BY <1>2 DEF AllowInv, OneSent, TriesLeft
<1>7. NobodyEnters' BY <1>2, <1>3 DEF AllowInv, NobodyEnters, Untouched
<1> QED BY <1>5, <1>6, <1>7 DEF AllowInv

LEMMA AllowSubmitsCall ==
  ASSUME AllowInv, NEW x \in Addr, Submit(x)
  PROVE  AllowInv'
<1> USE DEF Submit
<1>0. writer \in Passes /\ chain \in [Addr -> {"off", "allowed", "revoked", "frozen"}]
  BY DEF AllowInv, AllowShaped
<1>1. writer' = [writer EXCEPT !.sent = {x}] OBVIOUS
<1>2. writer' \in Passes
  <2>1. {x} \in SUBSET Addr OBVIOUS
  <2>2. \A s \in SUBSET Addr : [writer EXCEPT !.sent = s] \in Passes BY <1>0, Zenon DEF Passes
  <2> QED BY <1>1, <2>1, <2>2
<1>3. writer'.phase = writer.phase /\ writer'.held = writer.held /\ writer'.sent = {x}
  BY <1>0, <1>1 DEF Passes
<1>4. chain' \in [Addr -> {"off", "allowed", "revoked", "frozen"}] BY <1>0 DEF Enforced
<1>5. AllowShaped' BY <1>2, <1>4 DEF AllowInv, AllowShaped
<1>6. OneSent' /\ TriesLeft' BY <1>3 DEF AllowInv, OneSent, TriesLeft
<1>7. NobodyEnters'
  <2> SUFFICES ASSUME kyb = "pending", NEW y \in Addr \ vouched PROVE Untouched(y)'
    BY DEF NobodyEnters
  <2>1. Untouched(y) BY DEF AllowInv, NobodyEnters
  <2>2. chain'[y] # "allowed"
    <3>1. CASE y = x
      <4>1. writer.phase # "allow" /\ writer.phase \in {"allow", "revoke", "freeze"}
        BY <1>0, <2>1, <3>1 DEF Untouched, Passes
      <4>2. chain'[y] = Enforced(writer.phase, chain[y]) BY <1>0, <3>1
      <4> QED BY <4>1, <4>2 DEF Enforced
    <3>2. CASE y # x BY <1>0, <2>1, <3>2 DEF Untouched
    <3> QED BY <3>1, <3>2
  <2> QED BY <1>3, <2>1, <2>2 DEF Untouched
<1> QED BY <1>5, <1>6, <1>7 DEF AllowInv

LEMMA AllowSubmitFails ==
  ASSUME AllowInv, NEW x \in Addr, SubmitFails(x)
  PROVE  AllowInv'
<1> USE AllowlistAssumption DEF SubmitFails, AfterFailedSubmit
<1>0. writer \in Passes BY DEF AllowInv, AllowShaped
<1> DEFINE rest == writer.held \ {x}
<1>1. writer' = [writer EXCEPT !.held = rest] OBVIOUS
<1>2. rest \in SUBSET Addr BY <1>0 DEF Passes
<1>3. writer'.phase = writer.phase /\ writer'.held = rest /\ writer'.sent = writer.sent
  BY <1>0, <1>1 DEF Passes
<1>4. writer' \in Passes
  <2>1. \A s \in SUBSET Addr : [writer EXCEPT !.held = s] \in Passes BY <1>0, Zenon DEF Passes
  <2> HIDE DEF rest
  <2> QED BY <1>1, <1>2, <2>1
<1>5. AllowShaped' BY <1>4 DEF AllowInv, AllowShaped
<1>6. OneSent' /\ TriesLeft' BY <1>3 DEF AllowInv, OneSent, TriesLeft
<1>7. NobodyEnters' BY <1>3 DEF AllowInv, NobodyEnters, Untouched
<1> QED BY <1>5, <1>6, <1>7 DEF AllowInv

LEMMA AllowRecords ==
  ASSUME AllowInv, NEW x \in Addr, RecordOnchain(x)
  PROVE  AllowInv'
<1> USE AllowlistAssumption DEF RecordOnchain
<1>0. writer \in Passes /\ addressRow \in [Addr -> AddressRows] BY DEF AllowInv, AllowShaped
<1> DEFINE rest == writer.held \ {x}
           none == {}
           seen == Confirmed(writer.phase)
<1>1. writer' = [writer EXCEPT !.held = rest, !.sent = none] OBVIOUS
<1>2. rest \in SUBSET Addr /\ none \in SUBSET Addr BY <1>0 DEF Passes
<1>3. seen \in OnchainState BY DEF Confirmed, OnchainState
<1>a. addressRow' = [addressRow EXCEPT ![x] = [addressRow[x] EXCEPT !.onchain = seen]]
      \/ addressRow' = addressRow
  BY <1>0
<1>b. allowFaults' \in 0..AllowFaults BY DEF AllowInv, AllowShaped
<1>c. rest \subseteq writer.held /\ none = {} OBVIOUS
<1> HIDE DEF rest, none, seen
<1>4. writer'.phase = writer.phase /\ writer'.held = rest /\ writer'.sent = none
  BY <1>0, <1>1 DEF Passes
<1>5. writer' \in Passes BY <1>0, <1>1, <1>2, Zenon DEF Passes
<1>6. addressRow' \in [Addr -> AddressRows] /\ \A y \in Addr : addressRow'[y].status = addressRow[y].status
  <2>1. CASE addressRow' = addressRow BY <1>0, <2>1
  <2>2. CASE addressRow' = [addressRow EXCEPT ![x] = [addressRow[x] EXCEPT !.onchain = seen]]
    <3>1. addressRow[x] \in AddressRows BY <1>0
    <3>2. \A o \in OnchainState : [addressRow[x] EXCEPT !.onchain = o] \in AddressRows
      BY <3>1, Zenon DEF AddressRows
    <3>3. [addressRow[x] EXCEPT !.onchain = seen] \in AddressRows BY <1>3, <3>2
    <3>4. [addressRow[x] EXCEPT !.onchain = seen].status = addressRow[x].status
      BY <3>1 DEF AddressRows
    <3> QED BY <1>0, <2>2, <3>3, <3>4
  <2> QED BY <1>a, <2>1, <2>2
<1>7. AllowShaped' BY <1>b, <1>5, <1>6 DEF AllowInv, AllowShaped
<1>8. OneSent' /\ TriesLeft' BY <1>c, <1>4 DEF AllowInv, OneSent, TriesLeft
<1>9. NobodyEnters' BY <1>c, <1>4, <1>6 DEF AllowInv, NobodyEnters, Untouched
<1> QED BY <1>7, <1>8, <1>9 DEF AllowInv

LEMMA AllowTells ==
  ASSUME AllowInv, NEW x \in Addr, Tell(x)
  PROVE  AllowInv'
<1> USE DEF Tell
<1>0. signal \in [Addr -> SignalRows] BY DEF AllowInv, AllowShaped
<1>1. signal' = [signal EXCEPT ![x] = [signal[x] EXCEPT !.told = "yes"]] BY <1>0
<1>2. [signal[x] EXCEPT !.told = "yes"] \in SignalRows BY <1>0, Zenon DEF SignalRows
<1>3. /\ [signal[x] EXCEPT !.told = "yes"].st = signal[x].st
      /\ [signal[x] EXCEPT !.told = "yes"].tries = signal[x].tries
  BY <1>0 DEF SignalRows
<1>4. /\ signal' \in [Addr -> SignalRows]
      /\ \A y \in Addr : signal'[y].st = signal[y].st /\ signal'[y].tries = signal[y].tries
  BY <1>0, <1>1, <1>2, <1>3
<1>5. AllowShaped' BY <1>4 DEF AllowInv, AllowShaped
<1>a. recheck.of \subseteq Addr BY DEF AllowInv, AllowShaped, ScreeningCalls
<1>6. OneSent' /\ TriesLeft' BY <1>4, <1>a DEF AllowInv, OneSent, TriesLeft
<1>7. NobodyEnters' BY <1>4 DEF AllowInv, NobodyEnters, Untouched
<1> QED BY <1>5, <1>6, <1>7 DEF AllowInv

LEMMA AllowStops ==
  ASSUME AllowInv, StopCompliance
  PROVE  AllowInv'
<1> USE AllowlistAssumption DEF StopCompliance
<1>0. signal \in [Addr -> SignalRows] BY DEF AllowInv, AllowShaped
<1>1. NoCall \in ScreeningCalls /\ NoCall.of = {}
  BY DEF NoCall, ScreeningCalls, Status, OnchainState
<1>2. ASSUME NEW y \in Addr
      PROVE  /\ signal'[y] \in SignalRows
             /\ signal'[y].st = signal[y].st /\ signal'[y].tries = signal[y].tries
  <2>0. signal[y] \in SignalRows BY <1>0
  <2> DEFINE t == IF signal[y].told = "next" THEN "lost" ELSE signal[y].told
  <2>1. t \in {"no", "next", "yes", "lost"} BY <2>0 DEF SignalRows
  <2>2. signal'[y] = [signal[y] EXCEPT !.told = t] OBVIOUS
  <2> HIDE DEF t
  <2>3. [signal[y] EXCEPT !.told = t] \in SignalRows BY <2>0, <2>1, Zenon DEF SignalRows
  <2>4. /\ [signal[y] EXCEPT !.told = t].st = signal[y].st
        /\ [signal[y] EXCEPT !.told = t].tries = signal[y].tries
    BY <2>0 DEF SignalRows
  <2> QED BY <2>2, <2>3, <2>4
<1>3. writer' \in Passes /\ writer'.held = {} /\ writer'.sent = {} BY DEF Passes
<1>4. signal' \in [Addr -> SignalRows] BY <1>2
<1>5. AllowShaped' BY <1>1, <1>3, <1>4 DEF AllowInv, AllowShaped
<1>6. OneSent' /\ TriesLeft' BY <1>1, <1>2, <1>3 DEF AllowInv, OneSent, TriesLeft
<1>7. NobodyEnters' BY <1>1, <1>2, <1>3 DEF AllowInv, NobodyEnters, Untouched
<1> QED BY <1>5, <1>6, <1>7 DEF AllowInv

LEMMA AllowSteps ==
  ASSUME AllowInv, [AllowlistNext]_allowVars
  PROVE  AllowInv'
<1>1. CASE AllowlistNext
  BY <1>1, AllowSubmits, AllowDecidesKYB, AllowPeople, AllowAsks, AllowSweeps,
     AllowBeginsScreen, AllowEndsScreen, AllowQueuesSignal, AllowBeginsRecheck,
     AllowEndsRecheck, AllowLists, AllowSubmitsCall, AllowSubmitFails, AllowRecords,
     AllowTells, AllowStops
     DEF AllowlistNext
<1>2. CASE UNCHANGED allowVars
  BY <1>2 DEF allowVars, AllowInv, AllowShaped, OneSent, TriesLeft, NobodyEnters, Untouched
<1> QED BY <1>1, <1>2

LEMMA AllowShows == AllowInv => AllowlistTypeOK /\ NoAllowBeforeKYB
<1> SUFFICES ASSUME AllowInv PROVE AllowlistTypeOK /\ NoAllowBeforeKYB OBVIOUS
<1>1. Cardinality(writer.sent) <= 1
  <2>1. Cardinality({}) = 0 BY FS_EmptySet
  <2>2. \A x \in Addr : Cardinality({x}) = 1 BY FS_Singleton
  <2> QED BY <2>1, <2>2 DEF AllowInv, OneSent
<1>2. /\ kyb \in {"pending", "approved", "rejected"}
      /\ chain \in [Addr -> {"off", "allowed", "revoked", "frozen"}]
      /\ toScreen \subseteq Addr /\ vouched \subseteq Addr
      /\ adminActs \in 0..AdminActs /\ allowFaults \in 0..AllowFaults
  BY DEF AllowInv, AllowShaped
<1>3. addressRow \in [Addr -> [status : Status, onchain : OnchainState,
                         revoked : BOOLEAN, frozen : BOOLEAN, lapses : BOOLEAN]]
  BY DEF AllowInv, AllowShaped, AddressRows
<1>4. {screen, recheck} \subseteq [of : SUBSET Addr, status : Status, onchain : OnchainState]
  BY DEF AllowInv, AllowShaped, ScreeningCalls
<1>5. signal \in [Addr -> [st : {"none", "queued", "rescreened", "failed"},
                           tries : 0..AlertTries, told : {"no", "next", "yes", "lost"}]]
  BY DEF AllowInv, AllowShaped, SignalRows
<1>6. writer \in [phase : {"allow", "revoke", "freeze"}, held : SUBSET Addr, sent : SUBSET Addr]
  BY DEF AllowInv, AllowShaped, Passes
<1>7. \A x \in Addr : signal[x].st = "queued" => signal[x].tries < AlertTries
  BY DEF AllowInv, TriesLeft
<1>8. writer.sent \subseteq writer.held BY DEF AllowInv, OneSent
<1>9. NoAllowBeforeKYB BY DEF AllowInv, NobodyEnters, Untouched, NoAllowBeforeKYB
<1> HIDE DEF AllowInv
<1>10. AllowlistTypeOK
  BY <1>1, <1>2, <1>3, <1>4, <1>5, <1>6, <1>7, <1>8 DEF AllowlistTypeOK
<1> QED BY <1>9, <1>10

-----------------------------------------------------------------------------
(* One account and its row (Accounts) *)

CreatorSteps == {"look", "try", "flag", "confirm", "reread", "fail", "done"}
CallSteps == {"idle", "refuse", "look", "adopt", "create", "recheck", "reread", "confirm",
              "flag", "record", "mark"}
AccountRows == [status : ChainStatus, index : Index, attempts : 0..HealAttempts]
EnsureCalls == [at : CallSteps, index : Index, was : ChainStatus, attempts : 0..HealAttempts,
                final : BOOLEAN]
Results == {"ok", "outage", "conflict", "error", "permanent"}

\* An index recorded as conflict stays in it, and no other is: until it is re-issued.
ConflictStands ==
  /\ acct \in AccountRows /\ flagged \subseteq 1..acct.index
  /\ acct.status = "conflict" <=> acct.index \in flagged

LedgerShaped == onChain \in [Index -> {"absent", "ours", "theirs"}] /\ landing \in [Index -> 0..2]
CallsTyped ==
  /\ creator \in [at : CreatorSteps, try : 0..CreateTries]
  /\ ensure \in [Caller -> EnsureCalls]

\* A call that is about to say an account exists has seen that it does.
CallsSaw ==
  /\ creator.at = "confirm" => Existing(1)
  /\ \A c \in Caller :
       ensure[c].at \in {"adopt", "reread", "confirm"} => Existing(ensure[c].index)

LoansTold == ready \subseteq Index /\ EnsuredExists

AccountInv ==
  ConflictStands /\ LedgerShaped /\ CallsTyped /\ CallsSaw /\ LoansTold /\ ConfirmedExists

LEMMA AccountInit == aInit => AccountInv
<1> SUFFICES ASSUME aInit PROVE AccountInv OBVIOUS
<1> USE AccountsAssumption DEF aInit
<1> DEFINE zero == 0
           one == 1
<1>0. zero \in 0..HealAttempts /\ zero \in 0..CreateTries /\ zero \in 0..2 /\ one \in Index
  BY DEF CreateTries, Index
<1>1. [status |-> "pending", index |-> one, attempts |-> zero] \in AccountRows
  <2> HIDE DEF zero, one
  <2> QED BY <1>0, Zenon DEF AccountRows, ChainStatus
<1>2. [at |-> "idle", index |-> one, was |-> "pending", attempts |-> zero, final |-> FALSE] \in EnsureCalls
  <2> HIDE DEF zero, one
  <2> QED BY <1>0, Zenon DEF EnsureCalls, CallSteps, ChainStatus
<1>3. [at |-> "look", try |-> zero] \in [at : CreatorSteps, try : 0..CreateTries]
  <2> HIDE DEF zero, one
  <2> QED BY <1>0, Zenon DEF CreatorSteps
<1>4. Idle \in EnsureCalls /\ Idle.at = "idle" BY <1>2 DEF Idle
<1>5. ConflictStands BY <1>1 DEF ConflictStands
<1>6. LedgerShaped BY DEF LedgerShaped
<1>7. CallsTyped BY <1>3, <1>4 DEF CallsTyped
<1>8. CallsSaw /\ LoansTold /\ ConfirmedExists
  BY <1>4 DEF CallsSaw, LoansTold, EnsuredExists, ConfirmedExists
<1> QED BY <1>5, <1>6, <1>7, <1>8 DEF AccountInv

\* The ledger only gains accounts, and the one created is among them.
LEMMA CreationAdds ==
  ASSUME LedgerShaped, NEW i \in Index, NEW out, CreateSponsoredAccount(i, out)
  PROVE  /\ LedgerShaped'
         /\ \A k \in Index : Existing(k) => onChain'[k] # "absent"
         /\ out = "ok" => onChain'[i] # "absent"
<1>1. CASE /\ out = "ok" /\ onChain' = [onChain EXCEPT ![i] = "ours"] /\ UNCHANGED landing
  BY <1>1 DEF LedgerShaped, Existing
<1>2. CASE /\ out = "lost" /\ landing[i] < 2
           /\ landing' = [landing EXCEPT ![i] = @ + 1] /\ UNCHANGED onChain
  <2>1. landing[i] \in 0..2 BY DEF LedgerShaped
  <2>2. landing[i] + 1 \in 0..2 BY <1>2, <2>1
  <2> QED BY <1>2, <2>2 DEF LedgerShaped, Existing
<1>3. CASE out \in {"failed", "refused"} /\ UNCHANGED <<onChain, landing>>
  BY <1>3 DEF LedgerShaped, Existing
<1> QED BY <1>1, <1>2, <1>3 DEF CreateSponsoredAccount

\* UpdateChainStatus keeps a conflict, and confirms what exists or another index's row.
LEMMA StatusWritten ==
  ASSUME ConflictStands, ConfirmedExists, UNCHANGED onChain, NEW i \in Index,
         NEW s \in ChainStatus, s = "confirmed" => Existing(i), UpdateChainStatus(i, s)
  PROVE  ConflictStands' /\ ConfirmedExists'
<1>1. CASE UNCHANGED <<acct, flagged, crossed>>
  BY <1>1 DEF ConflictStands, ConfirmedExists, Existing
<1>2. CASE /\ acct' = IF s = "conflict" \/ acct.status # "conflict"
                      THEN [acct EXCEPT !.status = s] ELSE acct
           /\ flagged' = IF s = "conflict" THEN flagged \cup {acct.index} ELSE flagged
           /\ crossed' = (crossed \/ i # acct.index)
  <2>0. acct \in AccountRows BY DEF ConflictStands
  <2>1. acct'.index = acct.index /\ acct' \in AccountRows
        /\ acct'.status = IF s = "conflict" \/ acct.status # "conflict" THEN s ELSE acct.status
    <3>1. [acct EXCEPT !.status = s] \in AccountRows BY <2>0, Zenon DEF AccountRows
    <3>2. [acct EXCEPT !.status = s].index = acct.index /\ [acct EXCEPT !.status = s].status = s
      BY <2>0 DEF AccountRows
    <3> QED BY <1>2, <2>0, <3>1, <3>2
  <2>2. acct.index \in Index BY <2>0 DEF AccountRows
  <2>3. ConflictStands' BY <1>2, <2>1, <2>2 DEF ConflictStands, Index
  <2>4. ConfirmedExists'
    <3> SUFFICES ASSUME acct'.status = "confirmed" PROVE Existing(acct.index) \/ crossed'
      BY <2>1 DEF ConfirmedExists, Existing
    <3>1. CASE s = "confirmed" BY <1>2, <3>1
    <3>2. CASE s # "confirmed" BY <1>2, <2>1, <3>2 DEF ConfirmedExists
    <3> QED BY <3>1, <3>2
  <2> QED BY <2>3, <2>4
<1> QED BY <1>1, <1>2 DEF UpdateChainStatus

\* A check that is recorded leaves a well-formed call, at a step that vouches for nothing.
LEMMA AnswerRecorded ==
  ASSUME CallsTyped, NEW c \in Caller, NEW result \in Results, Answer(c, result)
  PROVE  \E t \in EnsureCalls : /\ ensure' = [ensure EXCEPT ![c] = t]
                                /\ t.at \in {"idle", "record"}
<1> USE AccountsAssumption
<1> DEFINE s == ensure[c]
           zero == 0
           one == 1
           n == IF s.attempts < HealAttempts THEN s.attempts + 1 ELSE HealAttempts
           cap == HealAttempts
<1>0. s \in EnsureCalls BY DEF CallsTyped
<1>1. zero \in 0..HealAttempts /\ cap \in 0..HealAttempts /\ one \in Index BY DEF Index
<1>2. n \in 0..HealAttempts
  <2>1. s.attempts \in 0..HealAttempts BY <1>0 DEF EnsureCalls
  <2> HIDE DEF s
  <2> QED BY <2>1
<1>3. Idle \in EnsureCalls /\ Idle.at = "idle"
  <2>1. [at |-> "idle", index |-> one, was |-> "pending", attempts |-> zero, final |-> FALSE]
          \in EnsureCalls
    <3> HIDE DEF zero, one
    <3> QED BY <1>1, Zenon DEF EnsureCalls, CallSteps, ChainStatus
  <2> QED BY <2>1 DEF Idle
<1> DEFINE ok == [s EXCEPT !.at = "record", !.attempts = zero, !.final = FALSE]
           outage == [s EXCEPT !.at = "record", !.final = FALSE]
           error == [s EXCEPT !.at = "record", !.final = TRUE, !.attempts = n]
           permanent == [s EXCEPT !.at = "record", !.final = TRUE, !.attempts = cap]
<1>4. \A t \in {ok, outage, error, permanent} : t \in EnsureCalls
  <2> HIDE DEF s, zero, n, cap
  <2>1. ok \in EnsureCalls BY <1>0, <1>1, Zenon DEF EnsureCalls, CallSteps
  <2>2. outage \in EnsureCalls BY <1>0, Zenon DEF EnsureCalls, CallSteps
  <2>3. error \in EnsureCalls BY <1>0, <1>2, Zenon DEF EnsureCalls, CallSteps
  <2>4. permanent \in EnsureCalls BY <1>0, <1>1, Zenon DEF EnsureCalls, CallSteps
  <2> HIDE DEF ok, outage, error, permanent
  <2> QED BY <2>1, <2>2, <2>3, <2>4
<1>5. \A t \in {ok, outage, error, permanent} : t.at = "record"
  <2> HIDE DEF s, zero, n, cap
  <2>1. ok.at = "record" BY <1>0, Zenon DEF EnsureCalls
  <2>2. outage.at = "record" BY <1>0, Zenon DEF EnsureCalls
  <2>3. error.at = "record" BY <1>0, Zenon DEF EnsureCalls
  <2>4. permanent.at = "record" BY <1>0, Zenon DEF EnsureCalls
  <2> HIDE DEF ok, outage, error, permanent
  <2> QED BY <2>1, <2>2, <2>3, <2>4
<1>6. \E t \in {ok, outage, error, permanent, Idle} : ensure' = [ensure EXCEPT ![c] = t]
  <2>1. CASE c = "loan" BY <2>1 DEF Answer, Ends
  <2>2. CASE c # "loan"
    <3>1. CASE result = "ok"
      <4>1. ensure' = [ensure EXCEPT ![c] = ok] BY <2>2, <3>1, Zenon DEF Answer
      <4> HIDE DEF ok, outage, error, permanent
      <4> QED BY <4>1
    <3>2. CASE result = "outage"
      <4>1. ensure' = [ensure EXCEPT ![c] = outage] BY <2>2, <3>2 DEF Answer
      <4> HIDE DEF ok, outage, error, permanent
      <4> QED BY <4>1
    <3>3. CASE result = "conflict"
      <4>1. ensure' = [ensure EXCEPT ![c] = Idle] BY <2>2, <3>3 DEF Answer
      <4> HIDE DEF ok, outage, error, permanent
      <4> QED BY <4>1
    <3>4. CASE result = "error"
      <4>1. ensure' = [ensure EXCEPT ![c] = error] BY <2>2, <3>4 DEF Answer
      <4> HIDE DEF ok, outage, error, permanent
      <4> QED BY <4>1
    <3>5. CASE result = "permanent"
      <4>1. ensure' = [ensure EXCEPT ![c] = permanent] BY <2>2, <3>5 DEF Answer
      <4> HIDE DEF ok, outage, error, permanent
      <4> QED BY <4>1
    <3> QED BY <3>1, <3>2, <3>3, <3>4, <3>5 DEF Results
  <2> QED BY <2>1, <2>2
<1> HIDE DEF ok, outage, error, permanent
<1> QED BY <1>3, <1>4, <1>5, <1>6

\* Whoever is answered "ok" relies on an account that exists.
LEMMA AnswersAreTrue ==
  ASSUME CallsTyped, CallsSaw, LoansTold, UNCHANGED <<onChain, creator>>,
         NEW c \in Caller, NEW result \in Results, result = "ok" => Existing(ensure[c].index),
         Answer(c, result)
  PROVE  CallsTyped' /\ CallsSaw' /\ LoansTold'
<1>1. PICK t \in EnsureCalls : /\ ensure' = [ensure EXCEPT ![c] = t] /\ t.at \in {"idle", "record"}
  BY AnswerRecorded
<1>2. CallsTyped' BY <1>1 DEF CallsTyped
<1>3. CallsSaw' BY <1>1 DEF CallsTyped, CallsSaw, Existing
<1>4. ready' = ready \/ (result = "ok" /\ ready' = ready \cup {ensure[c].index})
  BY DEF Answer
<1>5. ensure[c].index \in Index BY DEF CallsTyped, EnsureCalls
<1>6. LoansTold' BY <1>4, <1>5 DEF LoansTold, EnsuredExists, Existing
<1> QED BY <1>2, <1>3, <1>6

\* A call moves on to a step for which it has seen enough.
LEMMA CallGoesOn ==
  ASSUME CallsTyped, CallsSaw, UNCHANGED <<onChain, creator>>, NEW c \in Caller, NEW at \in CallSteps,
         at \in {"adopt", "reread", "confirm"} => Existing(ensure[c].index), Goes(c, at)
  PROVE  CallsTyped' /\ CallsSaw'
<1>0. ensure[c] \in EnsureCalls BY DEF CallsTyped
<1>1. ensure' = [ensure EXCEPT ![c] = [ensure[c] EXCEPT !.at = at]] BY DEF Goes, CallsTyped
<1>2. [ensure[c] EXCEPT !.at = at] \in EnsureCalls BY <1>0, Zenon DEF EnsureCalls
<1>3. /\ [ensure[c] EXCEPT !.at = at].at = at
      /\ [ensure[c] EXCEPT !.at = at].index = ensure[c].index
  BY <1>0 DEF EnsureCalls
<1>4. CallsTyped' BY <1>1, <1>2 DEF CallsTyped
<1>5. CallsSaw' BY <1>1, <1>3 DEF CallsTyped, CallsSaw, Existing
<1> QED BY <1>4, <1>5

LEMMA CreatorMoves ==
  ASSUME AccountInv, CreatorLook \/ CreatorTry \/ CreatorReread \/ CreatorRecord
  PROVE  AccountInv'
<1> USE DEF AccountInv
<1>0. /\ creator \in [at : CreatorSteps, try : 0..CreateTries]
      /\ ensure \in [Caller -> EnsureCalls]
  BY DEF CallsTyped
<1>1. ASSUME NEW at \in CreatorSteps, NEW n \in 0..CreateTries, CreatorGoes(at, n),
             UNCHANGED ensure
      PROVE  CallsTyped' /\ creator'.at = at
  <2>1. creator' = [at |-> at, try |-> n] BY <1>1 DEF CreatorGoes
  <2>2. creator' \in [at : CreatorSteps, try : 0..CreateTries] BY <1>1, <2>1, Zenon
  <2> QED BY <1>0, <1>1, <2>1, <2>2 DEF CallsTyped
<1>2. 0 \in 0..CreateTries /\ 1 \in 0..CreateTries BY DEF CreateTries
<1>3. CASE CreatorLook
  <2>1. CASE Found(1) /\ CreatorGoes("flag", 0)
    <3>1. CallsTyped' /\ creator'.at = "flag" BY <1>1, <1>2, <1>3, <2>1 DEF CreatorLook, CreatorSteps
    <3> QED BY <1>3, <3>1
      DEF CreatorLook, ConflictStands, LedgerShaped, CallsSaw, LoansTold, EnsuredExists,
          ConfirmedExists, Existing
  <2>2. CASE NotFound(1) /\ CreatorGoes("try", 1)
    <3>1. CallsTyped' /\ creator'.at = "try" BY <1>1, <1>2, <1>3, <2>2 DEF CreatorLook, CreatorSteps
    <3> QED BY <1>3, <3>1
      DEF CreatorLook, ConflictStands, LedgerShaped, CallsSaw, LoansTold, EnsuredExists,
          ConfirmedExists, Existing
  <2> QED BY <1>3, <2>1, <2>2 DEF CreatorLook
<1>4. CASE CreatorTry
  <2>1. PICK out \in Outcomes :
          /\ CreateSponsoredAccount(1, out)
          /\ CASE out = "ok" -> CreatorGoes("confirm", 0)
               [] out \in {"lost", "failed"} /\ creator.try < CreateTries
                    -> CreatorGoes("try", creator.try + 1)
               [] OTHER -> CreatorGoes("reread", 0)
    BY <1>4 DEF CreatorTry
  <2>2. UNCHANGED <<acct, ensure, ready, flagged, crossed>> BY <1>4 DEF CreatorTry
  <2>3. 1 \in Index BY DEF Index
  <2>4. /\ LedgerShaped' /\ (\A k \in Index : Existing(k) => onChain'[k] # "absent")
        /\ out = "ok" => onChain'[1] # "absent"
    BY <2>1, <2>3, CreationAdds
  <2>5. CallsTyped' /\ (creator'.at = "confirm" => out = "ok")
    <3>1. CASE out = "ok"
      <4>1. CallsTyped' BY <1>1, <1>2, <2>1, <2>2, <3>1 DEF CreatorSteps
      <4> QED BY <3>1, <4>1
    <3>2. CASE out \in {"lost", "failed"} /\ creator.try < CreateTries
      <4> DEFINE n == creator.try + 1
      <4>1. creator.try \in 0..CreateTries BY <1>0
      <4>2. n \in 0..CreateTries BY <3>2, <4>1 DEF CreateTries
      <4>3. CreatorGoes("try", n) BY <2>1, <3>2
      <4> HIDE DEF n
      <4> QED BY <1>1, <2>2, <4>2, <4>3 DEF CreatorSteps
    <3>3. CASE out # "ok" /\ ~(out \in {"lost", "failed"} /\ creator.try < CreateTries)
      <4>1. CreatorGoes("reread", 0) BY <2>1, <3>3
      <4> QED BY <1>1, <1>2, <2>2, <4>1 DEF CreatorSteps
    <3> QED BY <3>1, <3>2, <3>3
  <2>6. \A c \in Caller : ensure[c].index \in Index BY <1>0 DEF EnsureCalls
  <2>7. acct.index \in Index BY DEF ConflictStands, AccountRows
  <2>8. CallsSaw' BY <2>2, <2>4, <2>5, <2>6 DEF CallsSaw, Existing
  <2>9. LoansTold' BY <2>2, <2>4 DEF LoansTold, EnsuredExists, Existing
  <2>10. ConfirmedExists' BY <2>2, <2>4, <2>7 DEF ConfirmedExists, Existing
  <2>11. ConflictStands' BY <2>2 DEF ConflictStands
  <2> QED BY <2>4, <2>5, <2>8, <2>9, <2>10, <2>11
<1>5. CASE CreatorReread
  <2>1. CallsTyped' /\ creator'.at # "confirm"
    <3>1. CreatorGoes("done", 0) \/ CreatorGoes("fail", 0) BY <1>5 DEF CreatorReread
    <3> QED BY <1>1, <1>2, <1>5, <3>1 DEF CreatorReread, CreatorSteps
  <2> QED BY <1>5, <2>1
      DEF CreatorReread, ConflictStands, LedgerShaped, CallsSaw, LoansTold, EnsuredExists,
          ConfirmedExists, Existing
<1>6. CASE CreatorRecord
  <2>1. CallsTyped' /\ creator'.at = "done"
    BY <1>1, <1>2, <1>6 DEF CreatorRecord, CreatorSteps
  <2>2. PICK s \in {<<"flag", "conflict">>, <<"confirm", "confirmed">>, <<"fail", "failed">>} :
          creator.at = s[1] /\ UpdateChainStatus(1, s[2])
    BY <1>6 DEF CreatorRecord
  <2>3. s[2] \in ChainStatus /\ (s[2] = "confirmed" => Existing(1)) /\ 1 \in Index
    BY <2>2 DEF ChainStatus, CallsSaw, Index
  <2>4. UNCHANGED <<onChain, landing, ensure, ready>> BY <1>6 DEF CreatorRecord
  <2>5. ConflictStands' /\ ConfirmedExists' BY <2>2, <2>3, <2>4, StatusWritten
  <2> QED BY <2>1, <2>4, <2>5 DEF LedgerShaped, CallsSaw, LoansTold, EnsuredExists, Existing
<1> QED BY <1>3, <1>4, <1>5, <1>6

\* What stays as it is while neither the ledger nor the row is written.
LEMMA RowAndLedgerStay ==
  ASSUME AccountInv, UNCHANGED <<acct, onChain, landing, creator, flagged, crossed>>
  PROVE  ConflictStands' /\ LedgerShaped' /\ ConfirmedExists' /\ (UNCHANGED ready => LoansTold')
BY DEF AccountInv, ConflictStands, LedgerShaped, ConfirmedExists, LoansTold, EnsuredExists, Existing

LEMMA CallBegins ==
  ASSUME AccountInv, NEW c \in Caller, Call(c)
  PROVE  AccountInv'
<1> USE DEF AccountInv, Call
<1> DEFINE t == [at |-> "refuse", index |-> acct.index, was |-> acct.status,
                 attempts |-> acct.attempts, final |-> FALSE]
<1>1. acct.index \in Index /\ acct.status \in ChainStatus /\ acct.attempts \in 0..HealAttempts
  BY DEF ConflictStands, AccountRows
<1>2. t \in EnsureCalls BY <1>1, Zenon DEF EnsureCalls, CallSteps
<1>3. t.at = "refuse" /\ ensure' = [ensure EXCEPT ![c] = t] OBVIOUS
<1> HIDE DEF t
<1>4. CallsTyped' BY <1>2, <1>3 DEF CallsTyped
<1>5. CallsSaw' BY <1>3 DEF CallsTyped, CallsSaw, Existing
<1> QED BY <1>4, <1>5, RowAndLedgerStay

LEMMA CallRefuses ==
  ASSUME AccountInv, NEW c \in Caller, Refuse(c)
  PROVE  AccountInv'
<1> USE DEF AccountInv, Refuse
<1>1. CASE Goes(c, "look") /\ UNCHANGED ready
  <2>1. CallsTyped' /\ CallsSaw' BY <1>1, CallGoesOn DEF CallSteps
  <2> QED BY <1>1, <2>1, RowAndLedgerStay
<1>2. CASE Answer(c, "conflict") \/ Answer(c, "outage")
  <2>1. CallsTyped' /\ CallsSaw' /\ LoansTold' BY <1>2, AnswersAreTrue DEF Results
  <2> QED BY <2>1, RowAndLedgerStay
<1> QED BY <1>1, <1>2

LEMMA CallLooks ==
  ASSUME AccountInv, NEW c \in Caller, Look(c)
  PROVE  AccountInv'
<1> USE DEF AccountInv, Look
<1>1. CASE Found(ensure[c].index) /\ Goes(c, "adopt")
  <2>1. CallsTyped' /\ CallsSaw' BY <1>1, CallGoesOn DEF CallSteps, Found
  <2> QED BY <2>1, RowAndLedgerStay
<1>2. CASE Goes(c, "create")
  <2>1. CallsTyped' /\ CallsSaw' BY <1>2, CallGoesOn DEF CallSteps
  <2> QED BY <2>1, RowAndLedgerStay
<1> QED BY <1>1, <1>2

LEMMA CallAdopts ==
  ASSUME AccountInv, NEW c \in Caller, AdoptExisting(c)
  PROVE  AccountInv'
<1> USE DEF AccountInv, AdoptExisting
<1>1. Existing(ensure[c].index) BY DEF CallsSaw
<1>2. CASE Answer(c, "ok") \/ Answer(c, "outage")
  <2>1. CallsTyped' /\ CallsSaw' /\ LoansTold' BY <1>1, <1>2, AnswersAreTrue DEF Results
  <2> QED BY <2>1, RowAndLedgerStay
<1>3. CASE UNCHANGED ready /\ (Goes(c, "confirm") \/ Goes(c, "flag"))
  <2>1. CallsTyped' /\ CallsSaw' BY <1>1, <1>3, CallGoesOn DEF CallSteps
  <2> QED BY <1>3, <2>1, RowAndLedgerStay
<1> QED BY <1>2, <1>3

LEMMA CallRechecks ==
  ASSUME AccountInv, NEW c \in Caller, Recheck(c)
  PROVE  AccountInv'
<1> USE DEF AccountInv, Recheck
<1>1. CASE Found(ensure[c].index) /\ Goes(c, "reread") /\ UNCHANGED ready
  <2>1. CallsTyped' /\ CallsSaw' BY <1>1, CallGoesOn DEF CallSteps, Found
  <2> QED BY <1>1, <2>1, RowAndLedgerStay
<1>2. CASE Answer(c, "permanent") \/ Answer(c, "error")
  <2>1. CallsTyped' /\ CallsSaw' /\ LoansTold' BY <1>2, AnswersAreTrue DEF Results
  <2> QED BY <2>1, RowAndLedgerStay
<1> QED BY <1>1, <1>2

LEMMA CallRereads ==
  ASSUME AccountInv, NEW c \in Caller, Reread(c)
  PROVE  AccountInv'
<1> USE DEF AccountInv, Reread
<1>1. Existing(ensure[c].index) BY DEF CallsSaw
<1>2. CASE Goes(c, "confirm") /\ UNCHANGED ready
  <2>1. CallsTyped' /\ CallsSaw' BY <1>1, <1>2, CallGoesOn DEF CallSteps
  <2> QED BY <1>2, <2>1, RowAndLedgerStay
<1>3. CASE Answer(c, "ok")
  <2>1. CallsTyped' /\ CallsSaw' /\ LoansTold' BY <1>1, <1>3, AnswersAreTrue DEF Results
  <2> QED BY <2>1, RowAndLedgerStay
<1> QED BY <1>2, <1>3

LEMMA CallWrites ==
  ASSUME AccountInv, NEW c \in Caller, Confirm(c) \/ Flag(c)
  PROVE  AccountInv'
<1> USE DEF AccountInv, Confirm, Flag
<1>0. UNCHANGED <<onChain, landing, creator>> /\ ensure[c].index \in Index
  BY DEF CallsTyped, EnsureCalls
<1>1. CASE Confirm(c)
  <2>1. Existing(ensure[c].index) BY <1>1 DEF CallsSaw
  <2>2. CallsTyped' /\ CallsSaw' /\ LoansTold' BY <1>0, <1>1, <2>1, AnswersAreTrue DEF Results
  <2>3. ConflictStands' /\ ConfirmedExists' BY <1>0, <1>1, <2>1, StatusWritten DEF ChainStatus
  <2> QED BY <1>0, <2>2, <2>3 DEF LedgerShaped
<1>2. CASE Flag(c)
  <2>2. CallsTyped' /\ CallsSaw' /\ LoansTold' BY <1>0, <1>2, AnswersAreTrue DEF Results
  <2>3. ConflictStands' /\ ConfirmedExists' BY <1>0, <1>2, StatusWritten DEF ChainStatus
  <2> QED BY <1>0, <2>2, <2>3 DEF LedgerShaped
<1> QED BY <1>1, <1>2

LEMMA CallCreates ==
  ASSUME AccountInv, NEW c \in Caller, Create(c)
  PROVE  AccountInv'
<1> USE DEF AccountInv
<1>0. ensure[c] \in EnsureCalls /\ ensure[c].index \in Index BY DEF CallsTyped, EnsureCalls
<1>1. UNCHANGED <<acct, creator, ready, flagged, crossed>> BY DEF Create
<1>2. PICK out \in Outcomes :
        /\ CreateSponsoredAccount(ensure[c].index, out)
        /\ ensure' = [ensure EXCEPT ![c].at = IF out = "ok" THEN "reread" ELSE "recheck",
                                    ![c].final = out = "refused"]
  BY DEF Create
<1>3. /\ LedgerShaped' /\ (\A k \in Index : Existing(k) => onChain'[k] # "absent")
      /\ out = "ok" => onChain'[ensure[c].index] # "absent"
  BY <1>0, <1>2, CreationAdds
<1> DEFINE at == IF out = "ok" THEN "reread" ELSE "recheck"
           final == (out = "refused")
           t == [ensure[c] EXCEPT !.at = at, !.final = final]
<1>4. at \in CallSteps /\ final \in BOOLEAN /\ (at \in {"adopt", "reread", "confirm"} => out = "ok")
  BY DEF CallSteps
<1>5. ensure' = [ensure EXCEPT ![c] = t]
  <2>1. ensure \in [Caller -> EnsureCalls] BY DEF CallsTyped
  <2> QED BY <1>2, <2>1, Zenon DEF EnsureCalls
<1>6. t \in EnsureCalls /\ t.at = at /\ t.index = ensure[c].index
  <2> HIDE DEF at, final
  <2>1. t \in EnsureCalls BY <1>0, <1>4, Zenon DEF EnsureCalls
  <2>2. t.at = at BY <1>0, Zenon DEF EnsureCalls
  <2>3. t.index = ensure[c].index BY <1>0, Zenon DEF EnsureCalls
  <2> QED BY <2>1, <2>2, <2>3
<1> HIDE DEF at, final, t
<1>7. CallsTyped' BY <1>1, <1>5, <1>6 DEF CallsTyped
<1>8. CallsSaw'
  <2>1. ASSUME NEW d \in Caller, ensure'[d].at \in {"adopt", "reread", "confirm"}
        PROVE  onChain'[ensure'[d].index] # "absent"
    <3>1. CASE d = c
      <4>1. ensure'[d] = t BY <1>5, <3>1 DEF CallsTyped
      <4> QED BY <1>3, <1>4, <1>6, <2>1, <4>1
    <3>2. CASE d # c
      <4>1. ensure'[d] = ensure[d] BY <1>5, <3>2 DEF CallsTyped
      <4>2. ensure[d].index \in Index BY DEF CallsTyped, EnsureCalls
      <4>3. Existing(ensure[d].index) BY <2>1, <4>1 DEF CallsSaw
      <4> QED BY <1>3, <4>1, <4>2, <4>3
    <3> QED BY <3>1, <3>2
  <2>2. creator'.at = "confirm" => onChain'[1] # "absent" BY <1>1, <1>3 DEF CallsSaw, Index
  <2> QED BY <2>1, <2>2 DEF CallsSaw, Existing
<1>9. acct.index \in Index BY DEF ConflictStands, AccountRows
<1>10. LoansTold' BY <1>1, <1>3 DEF LoansTold, EnsuredExists, Existing
<1>11. ConfirmedExists' BY <1>1, <1>3, <1>9 DEF ConfirmedExists, Existing
<1>12. ConflictStands' BY <1>1 DEF ConflictStands
<1> QED BY <1>3, <1>7, <1>8, <1>10, <1>11, <1>12

LEMMA HealerRecords ==
  ASSUME AccountInv, Record
  PROVE  AccountInv'
<1> USE DEF AccountInv
<1>0. "heal" \in Caller /\ UNCHANGED <<onChain, landing, creator, ready, flagged, crossed>>
  BY DEF Caller, Record
<1>1. ConflictStands' /\ acct'.index = acct.index /\ acct'.status = acct.status
  <2>0. acct \in AccountRows BY DEF ConflictStands
  <2>1. CASE UNCHANGED acct BY <1>0, <2>1 DEF ConflictStands
  <2>2. CASE acct' = [acct EXCEPT !.attempts = ensure["heal"].attempts]
    <3> DEFINE n == ensure["heal"].attempts
    <3>1. n \in 0..HealAttempts BY <1>0 DEF CallsTyped, EnsureCalls
    <3>2. acct' = [acct EXCEPT !.attempts = n] BY <2>2
    <3> HIDE DEF n
    <3>3. [acct EXCEPT !.attempts = n] \in AccountRows BY <2>0, <3>1, Zenon DEF AccountRows
    <3>4. [acct EXCEPT !.attempts = n].index = acct.index BY <2>0, Zenon DEF AccountRows
    <3>5. [acct EXCEPT !.attempts = n].status = acct.status BY <2>0, Zenon DEF AccountRows
    <3> QED BY <1>0, <3>2, <3>3, <3>4, <3>5 DEF ConflictStands
  <2> QED BY <2>1, <2>2 DEF Record
<1>2. CallsTyped' /\ CallsSaw'
  <2>1. CASE Goes("heal", "mark") BY <1>0, <2>1, CallGoesOn DEF CallSteps
  <2>2. CASE Ends("heal")
    <3>1. Answer("heal", "conflict") BY <1>0, <2>2 DEF Answer, Ends
    <3> QED BY <1>0, <3>1, AnswersAreTrue DEF Results
  <2> QED BY <2>1, <2>2 DEF Record
<1>3. LedgerShaped' /\ LoansTold' BY <1>0 DEF LedgerShaped, LoansTold, EnsuredExists, Existing
<1>4. ConfirmedExists' BY <1>0, <1>1 DEF ConfirmedExists, Existing
<1> QED BY <1>1, <1>2, <1>3, <1>4

LEMMA HealerMarks ==
  ASSUME AccountInv, MarkFailed
  PROVE  AccountInv'
<1> USE DEF AccountInv
<1>0. "heal" \in Caller /\ UNCHANGED <<onChain, landing, creator, ready>>
  BY DEF Caller, MarkFailed
<1>1. CallsTyped' /\ CallsSaw'
  <2>1. Answer("heal", "conflict") BY <1>0 DEF Answer, Ends, MarkFailed
  <2> QED BY <1>0, <2>1, AnswersAreTrue DEF Results
<1>2. ensure["heal"].index \in Index BY <1>0 DEF CallsTyped, EnsureCalls
<1>3. ConflictStands' /\ ConfirmedExists'
  BY <1>0, <1>2, StatusWritten DEF MarkFailed, ChainStatus
<1>4. LedgerShaped' /\ LoansTold' BY <1>0 DEF LedgerShaped, LoansTold, EnsuredExists, Existing
<1> QED BY <1>1, <1>3, <1>4

LEMMA CreationLands ==
  ASSUME AccountInv, NEW i \in Index, Land(i)
  PROVE  AccountInv'
<1> USE DEF AccountInv
<1>0. UNCHANGED <<acct, creator, ensure, ready, flagged, crossed>> BY DEF Land
<1>1. LedgerShaped'
  <2>1. landing[i] - 1 \in 0..2 BY DEF Land, LedgerShaped
  <2> QED BY <2>1 DEF Land, LedgerShaped, Existing
<1>2. \A k \in Index : Existing(k) => Existing(k)' BY DEF Land, LedgerShaped, Existing
<1>3. acct.index \in Index /\ 1 \in Index BY DEF ConflictStands, AccountRows, Index
<1>4. \A c \in Caller : ensure[c].index \in Index BY DEF CallsTyped, EnsureCalls
<1>5. CallsSaw' BY <1>0, <1>2, <1>3, <1>4 DEF CallsSaw
<1>6. LoansTold' BY <1>0, <1>2 DEF LoansTold, EnsuredExists
<1>7. ConfirmedExists' BY <1>0, <1>2, <1>3 DEF ConfirmedExists
<1>8. ConflictStands' /\ CallsTyped' BY <1>0 DEF ConflictStands, CallsTyped
<1> QED BY <1>1, <1>5, <1>6, <1>7, <1>8

LEMMA AccountsStop ==
  ASSUME AccountInv, Stop
  PROVE  AccountInv'
<1> USE DEF AccountInv
<1> DEFINE zero == 0
           one == 1
<1>0. zero \in 0..HealAttempts /\ zero \in 0..CreateTries /\ one \in Index
  BY AccountsAssumption DEF CreateTries, Index
<1>1. [at |-> "idle", index |-> one, was |-> "pending", attempts |-> zero, final |-> FALSE] \in EnsureCalls
  <2> HIDE DEF zero, one
  <2> QED BY <1>0, Zenon DEF EnsureCalls, CallSteps, ChainStatus
<1>2. [at |-> "done", try |-> zero] \in [at : CreatorSteps, try : 0..CreateTries]
  <2> HIDE DEF zero, one
  <2> QED BY <1>0, Zenon DEF CreatorSteps
<1>3. Idle \in EnsureCalls /\ Idle.at = "idle" BY <1>1 DEF Idle
<1>4. CallsTyped' BY <1>2, <1>3 DEF Stop, CallsTyped
<1>5. CallsSaw' BY <1>3 DEF Stop, CallsSaw
<1> QED BY <1>4, <1>5
    DEF Stop, ConflictStands, LedgerShaped, ConfirmedExists, LoansTold, EnsuredExists, Existing

\* The next index was never recorded as conflict: only indexes up to the row's were.
LEMMA ConflictReissued ==
  ASSUME AccountInv, ReissueConflict
  PROVE  AccountInv'
<1> USE DEF AccountInv
<1> DEFINE zero == 0
           two == 2
<1>0. zero \in 0..HealAttempts /\ two \in Index BY AccountsAssumption DEF Index
<1>1. acct' = [status |-> "pending", index |-> two, attempts |-> zero] BY DEF ReissueConflict
<1>2. flagged \subseteq 1..1 /\ UNCHANGED flagged BY DEF ReissueConflict, ConflictStands
<1>3. two \notin 1..1 /\ 1..1 \subseteq 1..two OBVIOUS
<1> HIDE DEF zero, two
<1>4. acct' \in AccountRows BY <1>0, <1>1, Zenon DEF AccountRows, ChainStatus
<1>5. acct'.status = "pending" /\ acct'.index = two BY <1>1
<1>6. ConflictStands' BY <1>2, <1>3, <1>4, <1>5 DEF ConflictStands
<1>7. ConfirmedExists' BY <1>5 DEF ConfirmedExists
<1> QED BY <1>6, <1>7
    DEF ReissueConflict, LedgerShaped, CallsTyped, CallsSaw, LoansTold, EnsuredExists, Existing

LEMMA AccountSteps ==
  ASSUME AccountInv, [aNext]_avars
  PROVE  AccountInv'
<1>1. CASE aNext
  BY <1>1, CreatorMoves, CallBegins, CallRefuses, CallLooks, CallAdopts, CallCreates,
     CallRechecks, CallRereads, CallWrites, HealerRecords, HealerMarks, CreationLands,
     AccountsStop, ConflictReissued
     DEF aNext
<1>2. CASE UNCHANGED avars
  BY <1>2 DEF avars, AccountInv, ConflictStands, LedgerShaped, CallsTyped, CallsSaw, LoansTold,
     EnsuredExists, ConfirmedExists, Existing
<1> QED BY <1>1, <1>2

LEMMA AccountShows == AccountInv => AccountsTypeOK /\ AccountSound
<1> SUFFICES ASSUME AccountInv PROVE AccountsTypeOK /\ AccountSound OBVIOUS
<1>1. acct \in [status : ChainStatus, index : Index, attempts : 0..HealAttempts]
  BY DEF AccountInv, ConflictStands, AccountRows
<1>2. /\ creator.at \in CreatorSteps /\ creator.try \in 0..CreateTries
      /\ \A c \in Caller : ensure[c].was \in ChainStatus /\ ensure[c].attempts \in 0..HealAttempts
  BY DEF AccountInv, CallsTyped, EnsureCalls
<1>3. AccountsTypeOK
  BY <1>1, <1>2 DEF AccountInv, ConflictStands, LedgerShaped, LoansTold, AccountsTypeOK, CreatorSteps
<1>4. ConflictNeverConfirmed BY DEF AccountInv, ConflictStands, ConflictNeverConfirmed
<1> QED BY <1>3, <1>4 DEF AccountInv, LoansTold, AccountSound

-----------------------------------------------------------------------------
(* Both loops in one server (MCReconcilers) *)

\* One part moves at a time, from where its own Init put it.
LEMMA ReconcilersMoveAlone ==
  ASSUME [Next]_<<part, avars, allowVars>>
  PROVE  [aNext]_avars /\ [AllowlistNext]_allowVars
BY DEF Next, AccountsMove, AllowlistMoves

\* The two invariants hold of the server that runs both loops.
THEOREM ReconcilersInvHolds == FairSpec => [](AccountInv /\ AllowInv)
<1>1. Init => AccountInv /\ AllowInv BY AccountInit, AllowInit DEF Init
<1>2. AccountInv /\ AllowInv /\ [Next]_<<part, avars, allowVars>> => (AccountInv /\ AllowInv)'
  BY ReconcilersMoveAlone, AccountSteps, AllowSteps
<1>3. FairSpec => Init /\ [][Next]_<<part, avars, allowVars>> BY DEF FairSpec
<1> QED BY <1>1, <1>2, <1>3, PTL

\* Account rows, the calls that judge them, addresses, signals and the writer's pass
\* keep their types (account_repository.go, lifecycle.go, onchain_writer.go).
THEOREM ReconcilersTyped == FairSpec => []TypesOK
<1>1. AccountInv /\ AllowInv => TypesOK BY AccountShows, AllowShows DEF TypesOK
<1> QED BY <1>1, ReconcilersInvHolds, PTL

\* What is said of an account is true of the ledger, through every overlap of its
\* creator, loans and the reconciler, lost answers and outages: confirmed means it
\* exists unless the row was re-issued under a call, a conflict is not confirmed
\* over, a loan is let through only on an existing account
\* (user_service_adapter.go, account_repository.go).
THEOREM AccountStaysSound == FairSpec => []AccountSound
<1>1. AccountInv /\ AllowInv => AccountSound BY AccountShows
<1> QED BY <1>1, ReconcilersInvHolds, PTL

\* Until the lender's verification is decided no address is put on the vault's
\* allowlist but one a person decided on, whatever screenings, rescreens, sweeps
\* and the writer have in work (lifecycle.go, monitoring.go, onchain_writer.go).
THEOREM NobodyEntersEarly == FairSpec => []NoAllowBeforeKYB
<1>1. AccountInv /\ AllowInv => NoAllowBeforeKYB BY AllowShows
<1> QED BY <1>1, ReconcilersInvHolds, PTL

\* What is said of accounts is true, and no address enters the allowlist before the
\* lender's verification but by a person (account_repository.go, onchain_writer.go).
THEOREM ReconcilersStaySound == FairSpec => []ReconcilersSound
BY AccountStaysSound, NobodyEntersEarly, PTL DEF ReconcilersSound
=============================================================================
