--------------------------- MODULE RecordsProofs ----------------------------
(***************************************************************************)
(* The parts whose rows have several writers, and their composition in      *)
(* MCRecords: users, M-Pesa and Airtel collections, the vault watcher's     *)
(* rows and registrations.  For any number of people, payments, events,     *)
(* pages, restarts and faults: an admin remains, a cursor passes nothing    *)
(* unrecorded, no confirmed or decided row is taken back, no number is let  *)
(* in that was not approved and no key is given out twice.                  *)
(*                                                                         *)
(* Each part has an inductive invariant of its own (UsersInv, MpesaInv,     *)
(* SweepInv, WatchInv, RegInv); the composition moves one part at a time    *)
(* (RecordPartsMoveAlone), so the conclusions hold of it as well.           *)
(***************************************************************************)
EXTENDS MCRecords, TLAPS, FiniteSetTheorems, SequenceTheorems, WellFoundedInduction

\* A set of naturals has a least element, a set of positions a newest one.
LEMMA LeastOf ==
  ASSUME NEW T \in SUBSET Nat, T # {}
  PROVE  \E x \in T : \A y \in T : x <= y
<1> DEFINE R == OpToRel(<, Nat)
<1>1. IsWellFoundedOn(R, Nat)
  BY NatLessThanWellFounded
<1>3. \A x, y \in Nat : <<y, x>> \in R <=> y < x
  BY DEF OpToRel
<1> HIDE DEF R
<1>4. PICK x \in T : \A y \in T : ~(<<y, x>> \in R)
  BY <1>1, WFMin
<1>5. \A y \in T : x <= y
  <2> TAKE y \in T
  <2>1. x \in Nat /\ y \in Nat /\ ~(y < x)
    BY <1>3, <1>4
  <2> QED  BY <2>1
<1> QED  BY <1>5

-----------------------------------------------------------------------------
(* Users (Users) *)

\* The rows a call may hold: a locked one is at its limit.
LockedAtLimit(row) == row.locked => row.attempts = MaxPINAttempts

\* What each call in work was allowed to ask of the row it read.
CallIs(c) ==
  /\ c \in [op : Ops, user : Person, to : Targets, row : Rows, at : {"count", "compare", "write"},
            admins : Nat, id : Nat]
  /\ c.row.live /\ LockedAtLimit(c.row)
  /\ c.op = "kyc" => c.to \in {c.row.kyc} \cup validKYCTransitions[c.row.kyc]
  /\ c.op = "status" => c.to \in {c.row.status} \cup validStatusTransitions[c.row.status]
  /\ c.op = "role" => c.to \in Roles
  /\ c.op \notin {"role", "delete"} => c.admins = 0 /\ c.at # "count"
  /\ (c.op = "delete" \/ (c.op = "role" /\ c.to # "admin")) /\ c.row.role = "admin" /\ c.at # "count"
       => c.admins > 1

CallsShaped == IsFiniteSet(calls) /\ Cardinality(calls) <= MaxOpen /\ \A c \in calls : CallIs(c)

RowsShaped ==
  /\ users \in [Person -> Rows] /\ \A u \in Person : LockedAtLimit(users[u])
  /\ tries \in [Person -> Nat] /\ begun \in 0..MaxCalls /\ stale \in BOOLEAN /\ raced \in BOOLEAN

\* Attempts claimed are counted on the row, and the last one locks it.
TriesCounted ==
  ~stale => \A u \in Person : tries[u] <= users[u].attempts /\ (tries[u] >= MaxPINAttempts => users[u].locked)

UsersInv == CallsShaped /\ RowsShaped /\ TriesCounted /\ AdminRemains

LEMMA CallReplaced ==
  ASSUME CallsShaped, NEW c \in calls, NEW more, more = {} \/ \E d : CallIs(d) /\ more = {d},
         calls' = (calls \ {c}) \cup more
  PROVE  CallsShaped'
<1>1. IsFiniteSet(calls \ {c}) /\ Cardinality(calls \ {c}) = Cardinality(calls) - 1
  BY FS_RemoveElement DEF CallsShaped
<1>2. Cardinality(calls) \in Nat /\ Cardinality(calls \ {c}) \in Nat
  BY <1>1, FS_CardinalityType DEF CallsShaped
<1>3. CASE more = {}
  <2>1. calls' = calls \ {c}
    BY <1>3
  <2>2. Cardinality(calls') <= MaxOpen
    <3>1. Cardinality(calls) <= MaxOpen
      BY DEF CallsShaped
    <3>2. Cardinality(calls') = Cardinality(calls) - 1
      BY <1>1, <2>1
    <3> QED  BY <1>2, <3>1, <3>2, UsersAssumption
  <2>3. \A e \in calls' : CallIs(e)
    BY <2>1 DEF CallsShaped
  <2> QED  BY <1>1, <2>1, <2>2, <2>3 DEF CallsShaped
<1>4. ASSUME NEW d, CallIs(d), more = {d} PROVE CallsShaped'
  <2>1. calls' = (calls \ {c}) \cup {d}
    BY <1>4
  <2>2. IsFiniteSet(calls') /\ Cardinality(calls') = IF d \in calls \ {c} THEN Cardinality(calls \ {c}) ELSE Cardinality(calls \ {c}) + 1
    BY <1>1, <2>1, FS_AddElement
  <2>3. Cardinality(calls') <= MaxOpen
    BY <1>1, <1>2, <2>2, UsersAssumption DEF CallsShaped
  <2>4. \A e \in calls' : CallIs(e)
    BY <1>4, <2>1 DEF CallsShaped
  <2> QED  BY <2>2, <2>3, <2>4 DEF CallsShaped
<1> QED  BY <1>3, <1>4

LEMMA BeginKeeps ==
  ASSUME UsersInv, NEW op \in Ops, NEW u \in Person, NEW to \in Targets, Begin(op, u, to)
  PROVE  UsersInv'
<1> DEFINE row == users[u]
           at == IF op \in {"role", "delete"} /\ users[u].role = "admin" /\ to # "admin" THEN "count" ELSE "write"
           c == [op |-> op, user |-> u, to |-> to, row |-> row, at |-> at, admins |-> 0, id |-> begun]
<1>1. /\ begun < MaxCalls /\ begun' = begun + 1 /\ Cardinality(calls) < MaxOpen
      /\ to \in Asked(op) /\ row.live /\ Allowed(op, to, row)
      /\ calls' = calls \cup {c}
      /\ UNCHANGED <<users, tries, stale, raced>>
  BY DEF Begin
<1>2. row \in Rows /\ LockedAtLimit(row) /\ begun \in Nat /\ begun' \in 0..MaxCalls
  BY <1>1, UsersAssumption DEF UsersInv, RowsShaped
<1>3. at \in {"count", "write"} /\ (op \in {"role", "delete"} /\ row.role = "admin" /\ to # "admin" => at = "count")
      /\ (op \notin {"role", "delete"} => at # "count")
  OBVIOUS
<1>4. /\ op = "kyc" => to \in {row.kyc} \cup validKYCTransitions[row.kyc]
      /\ op = "status" => to \in {row.status} \cup validStatusTransitions[row.status]
      /\ op = "role" => to \in Roles
      /\ op = "delete" => to = "none"
  BY <1>1 DEF Allowed, Asked
<1> HIDE DEF row, at
<1>5. /\ c.op = op /\ c.user = u /\ c.to = to /\ c.row = row /\ c.at = at /\ c.admins = 0
      /\ c \in [op : Ops, user : Person, to : Targets, row : Rows, at : {"count", "compare", "write"},
            admins : Nat, id : Nat]
  BY <1>2, <1>3
<1> HIDE DEF c
<1>6. CallIs(c)
  BY <1>1, <1>2, <1>3, <1>4, <1>5 DEF CallIs
<1>7. CallsShaped'
  <2>1. IsFiniteSet(calls') /\ Cardinality(calls') = IF c \in calls THEN Cardinality(calls) ELSE Cardinality(calls) + 1
    BY <1>1, FS_AddElement DEF UsersInv, CallsShaped
  <2>2. Cardinality(calls) \in Nat
    BY FS_CardinalityType DEF UsersInv, CallsShaped
  <2>3. Cardinality(calls') <= MaxOpen
    BY <1>1, <2>1, <2>2, UsersAssumption
  <2>4. \A e \in calls' : CallIs(e)
    BY <1>1, <1>6 DEF UsersInv, CallsShaped
  <2> QED  BY <2>1, <2>3, <2>4 DEF CallsShaped
<1> QED  BY <1>1, <1>2, <1>7 DEF UsersInv, RowsShaped, TriesCounted, AdminRemains, Admins

\* A row rewritten with its role and life unchanged.
LEMMA RowWritten ==
  ASSUME UsersInv, NEW u \in Person, NEW r \in Rows, LockedAtLimit(r), users' = [users EXCEPT ![u] = r],
         r.role = users[u].role, r.live = users[u].live, CallsShaped',
         begun' \in 0..MaxCalls, UNCHANGED <<stale, raced>>,
         NEW t \in Nat, tries' = [tries EXCEPT ![u] = t],
         ~stale => t <= r.attempts /\ (t >= MaxPINAttempts => r.locked)
  PROVE  UsersInv'
<1>1. users \in [Person -> Rows] /\ tries \in [Person -> Nat]
  BY DEF UsersInv, RowsShaped
<1>2. /\ users' \in [Person -> Rows] /\ tries' \in [Person -> Nat]
      /\ \A v \in Person : users'[v] = IF v = u THEN r ELSE users[v]
      /\ \A v \in Person : tries'[v] = IF v = u THEN t ELSE tries[v]
  BY <1>1
<1>3. RowsShaped'
  BY <1>2 DEF UsersInv, RowsShaped
<1>4. TriesCounted'
  <2>1. ASSUME ~stale, NEW v \in Person PROVE tries'[v] <= users'[v].attempts /\ (tries'[v] >= MaxPINAttempts => users'[v].locked)
    <3>1. CASE v = u
      BY <1>2, <2>1, <3>1
    <3>2. CASE v # u
      BY <1>2, <2>1, <3>2 DEF UsersInv, TriesCounted
    <3> QED  BY <3>1, <3>2
  <2> QED  BY <2>1 DEF TriesCounted
<1>5. Admins' = Admins
  BY <1>2 DEF Admins
<1>6. AdminRemains'
  BY <1>5 DEF UsersInv, AdminRemains
<1> QED  BY <1>3, <1>4, <1>6 DEF UsersInv

LEMMA ClaimKeeps ==
  ASSUME UsersInv, NEW c \in calls, ClaimPINAttempt(c)
  PROVE  UsersInv'
<1> DEFINE u == c.user
           row == users[u]
           n == Min2(row.attempts + 1, MaxPINAttempts)
           l == row.attempts + 1 >= MaxPINAttempts
           r == [row EXCEPT !.attempts = n, !.locked = l]
<1>1. CallIs(c) /\ u \in Person /\ row \in Rows
  BY DEF UsersInv, CallsShaped, CallIs, RowsShaped
<1>2. row.attempts \in Nat /\ row.attempts <= MaxPINAttempts /\ tries[u] \in Nat /\ MaxPINAttempts \in Nat \ {0}
  BY <1>1, UsersAssumption DEF Rows, UsersInv, RowsShaped
<1>3. /\ c.op = "verify" /\ ~row.locked
      /\ users' = [users EXCEPT ![u] = r]
      /\ tries' = [tries EXCEPT ![u] = tries[u] + 1]
      /\ calls' = (calls \ {c}) \cup {[c EXCEPT !.at = "compare"]}
      /\ UNCHANGED <<begun, stale, raced>>
  BY DEF ClaimPINAttempt
<1>4. n \in 0..MaxPINAttempts /\ l \in BOOLEAN /\ (l => n = MaxPINAttempts) 
      /\ (~l => n = row.attempts + 1 /\ row.attempts + 1 < MaxPINAttempts)
  BY <1>2 DEF Min2
<1> HIDE DEF n, l
<1>5. r \in Rows /\ r.attempts = n /\ r.locked = l /\ r.role = row.role /\ r.live = row.live
  BY <1>1, <1>4, Zenon DEF Rows
<1> HIDE DEF r
<1>6. LockedAtLimit(r)
  BY <1>4, <1>5 DEF LockedAtLimit
<1>7. ~stale => tries[u] + 1 <= r.attempts /\ (tries[u] + 1 >= MaxPINAttempts => r.locked)
  <2>1. ~stale => tries[u] <= row.attempts /\ tries[u] < MaxPINAttempts
    BY <1>1, <1>2, <1>3 DEF UsersInv, TriesCounted
  <2> QED  BY <1>2, <1>4, <1>5, <2>1
<1>8. CallsShaped'
  <2> DEFINE d == [c EXCEPT !.at = "compare"]
  <2>1. /\ d \in [op : Ops, user : Person, to : Targets, row : Rows, at : {"count", "compare", "write"},
            admins : Nat, id : Nat]
        /\ d.op = c.op /\ d.row = c.row
    BY <1>1 DEF CallIs
  <2>2. CallIs(d)
    <3>1. d.admins = c.admins /\ d.at = "compare"
      BY <1>1 DEF CallIs
    <3> HIDE DEF d
    <3> QED  BY <1>1, <1>3, <2>1, <3>1 DEF CallIs
  <2> HIDE DEF d
  <2> DEFINE more == {d}
  <2>3. calls' = (calls \ {c}) \cup more /\ \E e : CallIs(e) /\ more = {e}
    BY <1>3, <2>2 DEF d
  <2> HIDE DEF more
  <2> QED  BY <2>3, CallReplaced DEF UsersInv
<1>9. begun' \in 0..MaxCalls /\ tries[u] + 1 \in Nat
  BY <1>2, <1>3 DEF UsersInv, RowsShaped
<1> QED  BY <1>1, <1>3, <1>5, <1>6, <1>7, <1>8, <1>9, RowWritten

LEMMA CompareKeeps ==
  ASSUME UsersInv, NEW c \in calls, Compare(c)
  PROVE  UsersInv'
<1> DEFINE u == c.user
           row == users[u]
           r == [row EXCEPT !.attempts = 0, !.locked = FALSE]
<1>1. CallIs(c) /\ u \in Person /\ row \in Rows
  BY DEF UsersInv, CallsShaped, CallIs, RowsShaped
<1>2. CallsShaped'
  <2> DEFINE more == {}
  <2>1. calls' = (calls \ {c}) \cup more
    BY DEF Compare, Finish
  <2> QED  BY <2>1, CallReplaced DEF UsersInv
<1>3. UNCHANGED <<begun, stale, raced>>
  BY DEF Compare
<1>4. CASE c.to = "right" /\ row.live
  <2>1. users' = [users EXCEPT ![u] = r] /\ tries' = [tries EXCEPT ![u] = 0]
    BY <1>4 DEF Compare
  <2>2. r \in Rows /\ r.attempts = 0 /\ r.locked = FALSE /\ r.role = row.role /\ r.live = row.live
    <3>1. 0 \in 0..MaxPINAttempts /\ FALSE \in BOOLEAN
      BY UsersAssumption
    <3> QED  BY <1>1, <3>1, Zenon DEF Rows
  <2> HIDE DEF r
  <2>3. LockedAtLimit(r) /\ (~stale => 0 <= r.attempts /\ (0 >= MaxPINAttempts => r.locked))
    BY <2>2, UsersAssumption DEF LockedAtLimit
  <2>4. begun' \in 0..MaxCalls /\ 0 \in Nat
    BY <1>3 DEF UsersInv, RowsShaped
  <2> QED  BY <1>1, <1>2, <1>3, <2>1, <2>2, <2>3, <2>4, RowWritten
<1>5. CASE ~(c.to = "right" /\ row.live)
  <2>1. UNCHANGED <<users, tries>>
    BY <1>5 DEF Compare
  <2> QED  BY <1>2, <1>3, <2>1 DEF UsersInv, RowsShaped, TriesCounted, AdminRemains, Admins
<1> QED  BY <1>4, <1>5

LEMMA LapseKeeps ==
  ASSUME UsersInv, NEW u \in Person, Lapse(u)
  PROVE  UsersInv'
<1> DEFINE row == users[u]
           r == [row EXCEPT !.locked = FALSE]
<1>1. row \in Rows
  BY DEF UsersInv, RowsShaped
<1>2. users' = [users EXCEPT ![u] = r] /\ tries' = [tries EXCEPT ![u] = 0] /\ UNCHANGED <<calls, begun, stale, raced>>
  BY DEF Lapse
<1>3. r \in Rows /\ r.attempts = row.attempts /\ r.locked = FALSE /\ r.role = row.role /\ r.live = row.live
  <2>1. FALSE \in BOOLEAN
    OBVIOUS
  <2> QED  BY <1>1, <2>1, Zenon DEF Rows
<1>3a. row.attempts \in Nat
  BY <1>1, UsersAssumption DEF Rows
<1> HIDE DEF r
<1>4. LockedAtLimit(r) /\ (~stale => 0 <= r.attempts /\ (0 >= MaxPINAttempts => r.locked))
  BY <1>3, <1>3a, UsersAssumption DEF LockedAtLimit
<1>5. begun' \in 0..MaxCalls /\ 0 \in Nat /\ CallsShaped'
  BY <1>2 DEF UsersInv, RowsShaped, CallsShaped
<1> QED  BY <1>1, <1>2, <1>3, <1>4, <1>5, RowWritten

LEMMA CountKeeps ==
  ASSUME UsersInv, NEW c \in calls, CountAdmins(c) \/ Refused(c)
  PROVE  UsersInv'
<1>1. CallIs(c) /\ UNCHANGED <<users, begun, tries, stale, raced>>
  BY DEF CountAdmins, Refused, UsersInv, CallsShaped
<1>2. CallsShaped'
  <2>1. CASE Refused(c) \/ ~(Cardinality(Admins) > 1)
    <3> DEFINE more == {}
    <3>1. calls' = (calls \ {c}) \cup more
      BY <2>1 DEF CountAdmins, Refused, Finish
    <3> QED  BY <3>1, CallReplaced DEF UsersInv
  <2>2. CASE CountAdmins(c) /\ Cardinality(Admins) > 1
    <3> DEFINE k == Cardinality(Admins)
               d == [c EXCEPT !.at = "write", !.admins = k]
               more == {d}
    <3>1. calls' = (calls \ {c}) \cup more
      BY <2>2 DEF CountAdmins
    <3>2. k > 1
      BY <2>2
    <3>3. k \in Nat
      <4>1. Admins \subseteq Person
        BY DEF Admins
      <4>2. IsFiniteSet(Admins)
        BY <4>1, UsersAssumption, FS_Subset
      <4> QED  BY <4>2, FS_CardinalityType
    <3> HIDE DEF k
    <3>4. /\ d \in [op : Ops, user : Person, to : Targets, row : Rows, at : {"count", "compare", "write"},
                     admins : Nat, id : Nat]
          /\ d.op = c.op /\ d.row = c.row /\ d.to = c.to /\ d.admins = k
      BY <1>1, <3>3 DEF CallIs
    <3>5. c.op \in {"role", "delete"}
      BY <1>1, <2>2 DEF CountAdmins, CallIs
    <3> HIDE DEF d
    <3>6. CallIs(d)
      BY <1>1, <3>2, <3>4, <3>5 DEF CallIs
    <3> HIDE DEF more
    <3>7. \E e : CallIs(e) /\ more = {e}
      BY <3>6 DEF more
    <3> QED  BY <3>1, <3>7, CallReplaced DEF UsersInv
  <2> QED  BY <2>1, <2>2, <1>1 DEF CountAdmins, Refused
<1> QED  BY <1>1, <1>2 DEF UsersInv, RowsShaped, TriesCounted, AdminRemains, Admins

\* The row an operation writes: the row it read, but for what it changes.
LEMMA ChangedIs ==
  ASSUME NEW c, CallIs(c), c.op \notin {"verify", "delete"}
  PROVE  /\ Changed(c) \in Rows /\ LockedAtLimit(Changed(c))
         /\ Changed(c).live = c.row.live
         /\ c.op # "role" => Changed(c).role = c.row.role
         /\ c.op = "role" => Changed(c).role = c.to
         /\ c.op = "kyc" => Changed(c).kyc = c.to
         /\ c.op # "kyc" => Changed(c).kyc = c.row.kyc
         /\ c.op = "status" => Changed(c).status = c.to
         /\ c.op # "status" => Changed(c).status = c.row.status
         /\ c.op # "reset" => Changed(c).attempts = c.row.attempts /\ Changed(c).locked = c.row.locked
         /\ c.op = "reset" => Changed(c).attempts = 0 /\ Changed(c).locked = FALSE
<1> DEFINE row == c.row
           new == Changed(c)
<1>0. row \in Rows /\ row.pin \in 1..2 /\ 3 - row.pin \in 1..2 /\ 0 \in 0..MaxPINAttempts /\ LockedAtLimit(row)
      /\ c.op \in Ops
  BY UsersAssumption DEF CallIs, Rows
<1>1. CASE c.op = "change"
  <2>1. new = [row EXCEPT !.pin = 3 - row.pin]
    BY <1>1 DEF Changed
  <2>2. /\ [row EXCEPT !.pin = 3 - row.pin] \in Rows
        /\ \A f \in {"attempts", "locked", "kyc", "status", "role", "live"} : [row EXCEPT !.pin = 3 - row.pin][f] = row[f]
    BY <1>0, Zenon DEF Rows
  <2> HIDE DEF new, row
  <2>3. /\ new \in Rows /\ new.live = row.live /\ new.role = row.role /\ new.kyc = row.kyc /\ new.status = row.status
        /\ new.attempts = row.attempts /\ new.locked = row.locked
    BY <2>1, <2>2
  <2> QED  BY <1>0, <1>1, <2>3 DEF LockedAtLimit, new, row
<1>2. CASE c.op = "reset"
  <2> DEFINE p == 3 - row.pin
  <2>1. new = [row EXCEPT !.pin = p, !.attempts = 0, !.locked = FALSE]
    BY <1>2 DEF Changed
  <2>1a. p \in 1..2 /\ FALSE \in BOOLEAN
    BY <1>0
  <2> HIDE DEF p, new, row
  <2>2. /\ new \in Rows /\ new.live = row.live /\ new.role = row.role /\ new.kyc = row.kyc /\ new.status = row.status
        /\ new.attempts = 0 /\ new.locked = FALSE
    BY <1>0, <2>1, <2>1a, Zenon DEF Rows
  <2> QED  BY <1>0, <1>2, <2>2 DEF LockedAtLimit, new, row
<1>3. CASE c.op = "kyc"
  <2>1. new = [row EXCEPT !.kyc = c.to]
    BY <1>3 DEF Changed
  <2>2. c.to \in KYC
    BY <1>0, <1>3 DEF CallIs, Rows, KYC, validKYCTransitions
  <2> HIDE DEF new, row
  <2>3. /\ new \in Rows /\ new.live = row.live /\ new.role = row.role /\ new.kyc = c.to /\ new.status = row.status
        /\ new.attempts = row.attempts /\ new.locked = row.locked
    BY <1>0, <2>1, <2>2, Zenon DEF Rows
  <2> QED  BY <1>0, <1>3, <2>3 DEF LockedAtLimit, new, row
<1>4. CASE c.op = "status"
  <2>1. new = [row EXCEPT !.status = c.to]
    BY <1>4 DEF Changed
  <2>2. c.to \in Statuses
    BY <1>0, <1>4 DEF CallIs, Rows, Statuses, validStatusTransitions
  <2> HIDE DEF new, row
  <2>3. /\ new \in Rows /\ new.live = row.live /\ new.role = row.role /\ new.kyc = row.kyc /\ new.status = c.to
        /\ new.attempts = row.attempts /\ new.locked = row.locked
    BY <1>0, <2>1, <2>2, Zenon DEF Rows
  <2> QED  BY <1>0, <1>4, <2>3 DEF LockedAtLimit, new, row
<1>5. CASE c.op = "role"
  <2>1. new = [row EXCEPT !.role = c.to]
    BY <1>5 DEF Changed
  <2>2. c.to \in Roles
    BY <1>5 DEF CallIs
  <2> HIDE DEF new, row
  <2>3. /\ new \in Rows /\ new.live = row.live /\ new.role = c.to /\ new.kyc = row.kyc /\ new.status = row.status
        /\ new.attempts = row.attempts /\ new.locked = row.locked
    BY <1>0, <2>1, <2>2, Zenon DEF Rows
  <2> QED  BY <1>0, <1>5, <2>3 DEF LockedAtLimit, new, row
<1>6. CASE c.op = "profile"
  <2>1. new = row
    BY <1>6 DEF Changed
  <2> QED  BY <1>0, <1>6, <2>1
<1> QED  BY <1>0, <1>1, <1>2, <1>3, <1>4, <1>5, <1>6 DEF Ops

\* Two admins or more do not become none by one step.
LEMMA OneOfTwoGoes ==
  ASSUME NEW u \in Person, NEW S, Cardinality(Admins) > 1, Admins \ {u} \subseteq S
  PROVE  S # {}
<1>1. SUFFICES ASSUME Admins \subseteq {u} PROVE FALSE
  OBVIOUS
<1>2. Admins = {} \/ Admins = {u}
  BY <1>1
<1>3. Cardinality({u}) = 1 /\ Cardinality({}) = 0
  BY FS_Singleton, FS_EmptySet
<1> QED  BY <1>2, <1>3

LEMMA UpdateKeeps ==
  ASSUME UsersInv, NEW c \in calls, Update(c)
  PROVE  UsersInv'
<1> DEFINE u == c.user
           new == Changed(c)
<1>1. CallIs(c) /\ u \in Person /\ c.op \notin {"verify", "delete"} /\ c.at = "write" /\ UNCHANGED begun
  BY DEF UsersInv, CallsShaped, CallIs, Update
<1>2. CallsShaped'
  <2> DEFINE more == {}
  <2>1. calls' = (calls \ {c}) \cup more
    BY DEF Update, Finish
  <2> QED  BY <2>1, CallReplaced DEF UsersInv
<1>3. CASE ~users[u].live
  <2>1. UNCHANGED <<users, stale, tries, raced>>
    BY <1>3 DEF Update
  <2> QED  BY <1>1, <1>2, <2>1 DEF UsersInv, RowsShaped, TriesCounted, AdminRemains, Admins
<1>4. CASE users[u].live
  <2>0. users' = [users EXCEPT ![u] = new]
    BY <1>4 DEF Update
  <2>0a. tries' = IF c.op = "reset" THEN [tries EXCEPT ![u] = 0] ELSE tries
    BY <1>4 DEF Update
  <2>1. /\ stale' = (stale \/ users[u] # c.row)
        /\ raced' = (raced \/ (c.admins # 0 /\ c.admins # Cardinality(Admins)))
    BY <1>4 DEF Update, Raced
  <2>2. users \in [Person -> Rows] /\ tries \in [Person -> Nat] /\ stale \in BOOLEAN /\ raced \in BOOLEAN
        /\ begun \in 0..MaxCalls /\ \A v \in Person : LockedAtLimit(users[v])
    BY DEF UsersInv, RowsShaped
  <2>3. /\ new \in Rows /\ LockedAtLimit(new)
        /\ new.live = c.row.live
        /\ c.op # "role" => new.role = c.row.role
        /\ c.op = "role" => new.role = c.to
        /\ c.op # "reset" => new.attempts = c.row.attempts /\ new.locked = c.row.locked
        /\ c.op = "reset" => new.attempts = 0 /\ new.locked = FALSE
    BY <1>1, ChangedIs
  <2> HIDE DEF new, u
  <2>4. users' \in [Person -> Rows] /\ \A v \in Person : users'[v] = IF v = u THEN new ELSE users[v]
    BY <1>1, <2>0, <2>2, <2>3
  <2>5. /\ tries' \in [Person -> Nat] 
        /\ \A v \in Person : tries'[v] = IF v = u /\ c.op = "reset" THEN 0 ELSE tries[v]
    BY <1>1, <2>0a, <2>2
  <2>6. RowsShaped'
    <3>1. stale' \in BOOLEAN /\ raced' \in BOOLEAN
      BY <2>1, Zenon
    <3>2. \A v \in Person : LockedAtLimit(users'[v])
      BY <2>2, <2>3, <2>4
    <3>3. begun' \in 0..MaxCalls
      BY <1>1, <2>2
    <3> QED  BY <2>4, <2>5, <3>1, <3>2, <3>3 DEF RowsShaped, LockedAtLimit
  <2>7. ~stale' => ~stale /\ users[u] = c.row
    BY <2>1
  <2>8. TriesCounted'
    <3> SUFFICES ASSUME ~stale', NEW v \in Person
                 PROVE  tries'[v] <= users'[v].attempts /\ (tries'[v] >= MaxPINAttempts => users'[v].locked)
      BY DEF TriesCounted
    <3>1. tries[v] <= users[v].attempts /\ (tries[v] >= MaxPINAttempts => users[v].locked)
      BY <2>7 DEF UsersInv, TriesCounted
    <3>2. CASE v = u /\ c.op = "reset"
      <4>1. tries'[v] = 0 /\ users'[v] = new /\ new.attempts = 0
        BY <2>3, <2>4, <2>5, <3>2
      <4> QED  BY <4>1, UsersAssumption
    <3>3. CASE v = u /\ c.op # "reset"
      <4>1. tries'[v] = tries[v] /\ users'[v] = new /\ new.attempts = users[v].attempts /\ new.locked = users[v].locked
        BY <2>3, <2>4, <2>5, <2>7, <3>3
      <4> QED  BY <3>1, <4>1
    <3>4. CASE v # u
      BY <2>4, <2>5, <3>1, <3>4
    <3> QED  BY <3>2, <3>3, <3>4
  <2>9. AdminRemains'
    <3> SUFFICES ASSUME ~stale', ~raced' PROVE Admins' # {}
      BY DEF AdminRemains
    <3>1. users[u] = c.row /\ ~stale /\ ~raced /\ (c.admins # 0 => c.admins = Cardinality(Admins))
      BY <2>1, <2>7
    <3>2. Admins # {}
      BY <3>1 DEF UsersInv, AdminRemains
    <3>3. Admins \ {u} \subseteq Admins'
      BY <2>4 DEF Admins
    <3>4. CASE c.op = "role" /\ c.to # "admin" /\ c.row.role = "admin"
      <4>1. c.admins > 1 /\ c.admins \in Nat
        BY <1>1, <3>4 DEF CallIs
      <4>2. Cardinality(Admins) > 1
        BY <3>1, <4>1
      <4> QED  BY <1>1, <3>3, <4>2, OneOfTwoGoes
    <3>5. CASE ~(c.op = "role" /\ c.to # "admin" /\ c.row.role = "admin")
      <4>1. u \in Admins => u \in Admins'
        <5>1. SUFFICES ASSUME u \in Admins PROVE u \in Admins'
          OBVIOUS
        <5>2. u \in Person /\ c.row.role = "admin" /\ c.row.live
          BY <3>1, <5>1 DEF Admins
        <5>3. new.live /\ new.role = "admin"
          BY <2>3, <3>5, <5>2
        <5> QED  BY <2>4, <5>2, <5>3 DEF Admins
      <4> QED  BY <3>2, <3>3, <4>1
    <3> QED  BY <3>4, <3>5
  <2> QED  BY <1>2, <2>6, <2>8, <2>9 DEF UsersInv
<1> QED  BY <1>3, <1>4

LEMMA DeleteKeeps ==
  ASSUME UsersInv, NEW u \in Person, NEW alive \in BOOLEAN, users' = [users EXCEPT ![u].live = alive],
         CallsShaped', begun' \in 0..MaxCalls, tries' = tries,
         stale' \in BOOLEAN, raced' \in BOOLEAN, stale => stale', raced => raced',
         (~alive /\ ~stale' /\ ~raced' /\ u \in Admins) => Cardinality(Admins) > 1
  PROVE  UsersInv'
<1> DEFINE row == users[u]
           r == [row EXCEPT !.live = alive]
<1>1. row \in Rows /\ users \in [Person -> Rows] /\ LockedAtLimit(row)
  BY DEF UsersInv, RowsShaped
<1>2. r \in Rows /\ r.attempts = row.attempts /\ r.locked = row.locked /\ r.role = row.role /\ r.live = alive
  BY <1>1, Zenon DEF Rows
<1>2a. users' = [users EXCEPT ![u] = r]
  OBVIOUS
<1> HIDE DEF r
<1>3. users' \in [Person -> Rows] /\ \A v \in Person : users'[v] = IF v = u THEN r ELSE users[v]
  BY <1>1, <1>2, <1>2a
<1>4. LockedAtLimit(r)
  BY <1>1, <1>2 DEF LockedAtLimit
<1>5. RowsShaped'
  BY <1>3, <1>4 DEF UsersInv, RowsShaped
<1>6. TriesCounted'
  <2> SUFFICES ASSUME ~stale', NEW v \in Person
               PROVE  tries[v] <= users'[v].attempts /\ (tries[v] >= MaxPINAttempts => users'[v].locked)
    BY DEF TriesCounted
  <2>1. tries[v] <= users[v].attempts /\ (tries[v] >= MaxPINAttempts => users[v].locked)
    BY DEF UsersInv, TriesCounted
  <2> QED  BY <1>2, <1>3, <2>1
<1>7. AdminRemains'
  <2> SUFFICES ASSUME ~stale', ~raced' PROVE Admins' # {}
    BY DEF AdminRemains
  <2>1. Admins # {} /\ Admins \ {u} \subseteq Admins'
    BY <1>3 DEF UsersInv, AdminRemains, Admins
  <2>2. CASE u \notin Admins
    BY <2>1, <2>2
  <2>3. CASE u \in Admins /\ ~alive
    BY <2>1, <2>3, OneOfTwoGoes
  <2>4. CASE u \in Admins /\ alive
    <3>1. u \in Admins'
      BY <1>2, <1>3, <2>4 DEF Admins
    <3> QED  BY <3>1
  <2> QED  BY <2>2, <2>3, <2>4
<1> QED  BY <1>5, <1>6, <1>7 DEF UsersInv

LEMMA UsersStarts == uInit => UsersInv
<1> SUFFICES ASSUME uInit PROVE UsersInv
  OBVIOUS
<1>1. \A u \in Person : users[u] \in [pin : {1}, attempts : {0}, locked : {FALSE}, kyc : {"pending"},
                           status : {"active"}, role : {"admin"}, live : {TRUE}]
  BY DEF uInit
<1>2. \A u \in Person : users[u] \in Rows /\ ~users[u].locked /\ users[u].attempts = 0 /\ users[u].role = "admin" /\ users[u].live
  <2> TAKE u \in Person
  <2>1. 1 \in 1..2 /\ 0 \in 0..MaxPINAttempts /\ "pending" \in KYC /\ "active" \in Statuses /\ "admin" \in Roles
    BY UsersAssumption DEF KYC, Statuses, Roles
  <2> QED  BY <1>1, <2>1, Zenon DEF Rows
<1>3. users \in [Person -> Rows]
  <2>1. users = [u \in Person |-> users[u]]
    BY DEF uInit
  <2> QED  BY <1>2, <2>1
<1>4. RowsShaped
  <2>1. \A u \in Person : LockedAtLimit(users[u])
    BY <1>2 DEF LockedAtLimit
  <2>2. tries \in [Person -> Nat] /\ 0 \in 0..MaxCalls
    BY UsersAssumption DEF uInit
  <2> QED  BY <1>3, <2>1, <2>2 DEF uInit, RowsShaped
<1>5. TriesCounted
  <2>1. \A u \in Person : tries[u] = 0
    BY DEF uInit
  <2> QED  BY <1>2, <2>1, UsersAssumption DEF TriesCounted
<1>6. AdminRemains
  <2>1. PICK u \in Person : TRUE
    BY UsersAssumption
  <2>2. u \in Admins
    BY <1>2 DEF Admins
  <2> QED  BY <2>2 DEF AdminRemains
<1>7. CallsShaped
  BY FS_EmptySet, UsersAssumption DEF uInit, CallsShaped
<1> QED  BY <1>4, <1>5, <1>6, <1>7 DEF UsersInv

LEMMA UsersSteps == UsersInv /\ [uNext]_uvars => UsersInv'
<1> SUFFICES ASSUME UsersInv, [uNext]_uvars PROVE UsersInv'
  OBVIOUS
<1>1. ASSUME NEW op \in Ops, NEW u \in Person, NEW to \in Targets, Begin(op, u, to) PROVE UsersInv'
  BY <1>1, BeginKeeps
<1>2. ASSUME NEW c \in calls, ClaimPINAttempt(c) \/ Refused(c) \/ Compare(c) \/ CountAdmins(c) \/ Update(c) PROVE UsersInv'
  BY <1>2, ClaimKeeps, CountKeeps, CompareKeeps, UpdateKeeps
<1>3. ASSUME NEW c \in calls, Delete(c) PROVE UsersInv'
  <2> DEFINE u == c.user
  <2>1. CallIs(c) /\ u \in Person
    BY DEF UsersInv, CallsShaped, CallIs
  <2>2. CallsShaped'
    <3> DEFINE more == {}
    <3>1. calls' = (calls \ {c}) \cup more
      BY <1>3 DEF Delete, Finish
    <3> QED  BY <3>1, CallReplaced DEF UsersInv
  <2>3. /\ users' = [users EXCEPT ![u].live = FALSE] /\ UNCHANGED <<begun, tries>>
        /\ stale' = (stale \/ users[u] # c.row)
        /\ raced' = (raced \/ (c.admins # 0 /\ c.admins # Cardinality(Admins)))
        /\ c.op = "delete" /\ c.at = "write"
    BY <1>3 DEF Delete, Raced
  <2>4. stale' \in BOOLEAN /\ raced' \in BOOLEAN
    BY <2>3, Zenon
  <2>5. ~stale' /\ ~raced' /\ u \in Admins => Cardinality(Admins) > 1
    <3> SUFFICES ASSUME ~stale', ~raced', u \in Admins PROVE Cardinality(Admins) > 1
      OBVIOUS
    <3>1. c.row.role = "admin"
      BY <2>3 DEF Admins
    <3>2. c.admins > 1 /\ c.admins \in Nat
      BY <2>1, <2>3, <3>1 DEF CallIs
    <3>3. ~(c.admins # 0 /\ c.admins # Cardinality(Admins))
      BY <2>3
    <3>4. c.admins = Cardinality(Admins)
      BY <3>2, <3>3
    <3> QED  BY <3>2, <3>4
  <2>6. begun' \in 0..MaxCalls
    BY <2>3 DEF UsersInv, RowsShaped
  <2> HIDE DEF u
  <2> QED  BY <2>1, <2>2, <2>3, <2>4, <2>5, <2>6, DeleteKeeps
<1>4. ASSUME NEW u \in Person, Lapse(u) PROVE UsersInv'
  BY <1>4, LapseKeeps
<1>5. ASSUME NEW u \in Person, Restore(u) PROVE UsersInv'
  <2>1. users' = [users EXCEPT ![u].live = TRUE] /\ UNCHANGED <<calls, tries, stale, raced>>
        /\ begun < MaxCalls /\ begun' = begun + 1
    BY <1>5 DEF Restore
  <2>2. begun' \in 0..MaxCalls /\ CallsShaped' /\ stale' \in BOOLEAN /\ raced' \in BOOLEAN
    BY <2>1, UsersAssumption DEF UsersInv, RowsShaped, CallsShaped
  <2> QED  BY <2>1, <2>2, DeleteKeeps
<1>6. CASE UNCHANGED uvars
  BY <1>6 DEF uvars, UsersInv, CallsShaped, RowsShaped, TriesCounted, AdminRemains, Admins
<1> QED  BY <1>1, <1>2, <1>3, <1>4, <1>5, <1>6 DEF uNext

LEMMA UsersShows == UsersInv => UsersTypeOK /\ UsersSound
<1> SUFFICES ASSUME UsersInv PROVE UsersTypeOK /\ UsersSound
  OBVIOUS
<1>1. UsersTypeOK
  BY DEF UsersInv, CallsShaped, RowsShaped, CallIs, LockedAtLimit, UsersTypeOK
<1>2. TriesBounded
  <2> SUFFICES ASSUME NEW u \in Person, ~stale PROVE ~(tries[u] > MaxPINAttempts)
    BY DEF TriesBounded
  <2>1. users[u] \in Rows /\ tries[u] \in Nat /\ tries[u] <= users[u].attempts
    BY DEF UsersInv, RowsShaped, TriesCounted
  <2>2. users[u].attempts \in 0..MaxPINAttempts
    BY <2>1 DEF Rows
  <2> QED  BY <2>1, <2>2, UsersAssumption
<1> QED  BY <1>1, <1>2 DEF UsersInv, UsersSound

\* KYC and status move along the lists, but for a write decided on an older row.
LEMMA MovesListed ==
  ASSUME UsersInv, [uNext]_uvars, NEW u \in Person, ~stale'
  PROVE  /\ users'[u].kyc \in {users[u].kyc} \cup validKYCTransitions[users[u].kyc]
         /\ users'[u].status \in {users[u].status} \cup validStatusTransitions[users[u].status]
<1>0. users \in [Person -> Rows] /\ users[u] \in Rows
  BY DEF UsersInv, RowsShaped
<1>1. SUFFICES ASSUME users'[u].kyc # users[u].kyc \/ users'[u].status # users[u].status
               PROVE  \E c \in calls : Update(c) /\ c.user = u /\ users[u].live
  <2>1. CASE users'[u].kyc = users[u].kyc /\ users'[u].status = users[u].status
    BY <2>1
  <2>2. CASE ~(users'[u].kyc = users[u].kyc /\ users'[u].status = users[u].status)
    <3>1. PICK c \in calls : Update(c) /\ c.user = u /\ users[u].live
      BY <1>1, <2>2
    <3>2. CallIs(c) /\ c.op \notin {"verify", "delete"}
      BY <3>1 DEF UsersInv, CallsShaped, Update
    <3>3. users'[u] = Changed(c) /\ users[u] = c.row
      BY <1>0, <3>1 DEF Update
    <3> DEFINE new == Changed(c)
    <3>4. /\ c.op = "kyc" => new.kyc = c.to
          /\ c.op # "kyc" => new.kyc = c.row.kyc
          /\ c.op = "status" => new.status = c.to
          /\ c.op # "status" => new.status = c.row.status
      BY <3>2, ChangedIs
    <3> HIDE DEF new
    <3>5. users'[u] = new
      BY <3>3 DEF new
    <3>6. /\ c.op = "kyc" => c.to \in {c.row.kyc} \cup validKYCTransitions[c.row.kyc]
          /\ c.op = "status" => c.to \in {c.row.status} \cup validStatusTransitions[c.row.status]
      BY <3>2 DEF CallIs
    <3> QED  BY <3>3, <3>4, <3>5, <3>6
  <2> QED  BY <2>1, <2>2
<1>2. \A c \in calls : CallIs(c) /\ c.user \in Person
  BY DEF UsersInv, CallsShaped, CallIs
<1>3. ASSUME NEW c \in calls, ClaimPINAttempt(c) PROVE users'[u].kyc = users[u].kyc /\ users'[u].status = users[u].status
  <2> DEFINE n == Min2(users[c.user].attempts + 1, MaxPINAttempts)
             l == users[c.user].attempts + 1 >= MaxPINAttempts
  <2>1. users' = [users EXCEPT ![c.user] = [users[c.user] EXCEPT !.attempts = n, !.locked = l]]
    BY <1>3 DEF ClaimPINAttempt
  <2> HIDE DEF n, l
  <2> QED  BY <1>0, <1>2, <2>1 DEF Rows
<1>4. ASSUME NEW c \in calls, Compare(c) PROVE users'[u].kyc = users[u].kyc /\ users'[u].status = users[u].status
  BY <1>0, <1>2, <1>4 DEF Compare, Rows
<1>5. ASSUME NEW c \in calls, Delete(c) PROVE users'[u].kyc = users[u].kyc /\ users'[u].status = users[u].status
  BY <1>0, <1>2, <1>5 DEF Delete, Rows
<1>6. ASSUME NEW v \in Person, Lapse(v) \/ Restore(v) PROVE users'[u].kyc = users[u].kyc /\ users'[u].status = users[u].status
  BY <1>0, <1>6 DEF Lapse, Restore, Rows
<1>7. ASSUME UNCHANGED users PROVE users'[u].kyc = users[u].kyc /\ users'[u].status = users[u].status
  BY <1>7
<1>8. ASSUME NEW c \in calls, Update(c), ~(c.user = u /\ users[u].live) PROVE users'[u].kyc = users[u].kyc /\ users'[u].status = users[u].status
  <2>1. users' = users \/ (users' = [users EXCEPT ![c.user] = Changed(c)] /\ users[c.user].live)
    BY <1>8 DEF Update
  <2>2. users'[u] = users[u]
    BY <1>0, <1>2, <1>8, <2>1
  <2> QED  BY <2>2
<1> QED  BY <1>1, <1>3, <1>4, <1>5, <1>6, <1>7, <1>8 DEF uNext, uvars, Begin, Refused, CountAdmins

-----------------------------------------------------------------------------
(* M-Pesa (Mpesa) *)

MpesaRows ==
  [source : {"none", "stk", "c2b", "status", "pull"}, confirmed : BOOLEAN, loan : BOOLEAN,
   applied : BOOLEAN, poll : BOOLEAN]

\* What the argument needs of the types.
MpesaShaped ==
  /\ settled \in [Receipt -> 0..NotYet] /\ mpesaRow \in [Receipt -> MpesaRows]
  /\ pull = [on |-> pull.on, to |-> pull.to, left |-> pull.left]
  /\ hour \in 0..MpesaTicks /\ pull.to \in 0..hour /\ pullCursor \in 0..hour

\* Only the query and the pull confirm, and each asked M-Pesa.
ConfirmedIsPaid ==
  /\ \A r \in Receipt : mpesaRow[r].applied => mpesaRow[r].confirmed
  /\ \A r \in Receipt : mpesaRow[r].confirmed => Paid(r)
  /\ \A r \in Receipt : mpesaRow[r].confirmed \/ mpesaRow[r].poll => There(mpesaRow[r])
  /\ \A r \in Receipt : r \in pull.left => Paid(r)

\* The window being pulled lacks nothing but what it still has to write.
WindowIsWhole ==
  /\ \A r \in Receipt :
       settled[r] < pullCursor => mpesaRow[r].confirmed \/ r \in unwritten
  /\ pull.on => \A r \in Receipt :
       settled[r] < pull.to => r \in pull.left \/ mpesaRow[r].confirmed \/ r \in unwritten

MpesaInv == MpesaShaped /\ ConfirmedIsPaid /\ WindowIsWhole

\* A row once confirmed stays confirmed, and its receipt stays on file
\* (Record ignores a repeated receipt, UpsertFromPull only confirms).
LEMMA ObservedKeeps ==
  ASSUME NEW row \in MpesaRows, NEW source \in {"stk", "c2b", "status"}, NEW poll \in BOOLEAN
  PROVE  /\ RecordObservation(row, source, poll) \in MpesaRows
         /\ RecordObservation(row, source, poll).confirmed => row.confirmed /\ There(row)
         /\ RecordObservation(row, source, poll).applied => row.applied /\ There(row)
         /\ There(RecordObservation(row, source, poll))
         /\ There(row) => RecordObservation(row, source, poll) = row
BY DEF RecordObservation, MpesaRows, NoMpesaRow, There

LEMMA PulledConfirms ==
  ASSUME NEW row \in MpesaRows, NEW loan \in BOOLEAN
  PROVE  /\ UpsertFromPull(row, loan) \in MpesaRows
         /\ UpsertFromPull(row, loan).confirmed /\ There(UpsertFromPull(row, loan))
BY DEF UpsertFromPull, UpdateFields, MpesaRows, NoMpesaRow, There

LEMMA MpesaInvInit == MpesaInit => MpesaInv
<1> SUFFICES ASSUME MpesaInit PROVE MpesaInv OBVIOUS
<1> USE MpesaAssumption DEF MpesaInit, NoMpesaRow, NoPull
<1>1. MpesaShaped BY DEF MpesaShaped, MpesaRows, NotYet
<1>2. ConfirmedIsPaid BY DEF ConfirmedIsPaid
<1>3. WindowIsWhole BY DEF WindowIsWhole, NotYet
<1> QED BY <1>1, <1>2, <1>3 DEF MpesaInv

\* Callbacks and word of queries stage rows and change none.
LEMMA CallbacksKeep ==
  ASSUME MpesaInv, NEW r \in Receipt, STKCallback(r) \/ C2BConfirmation(r) \/ AsyncResult(r)
  PROVE  MpesaInv'
<1>1. PICK source \in {"stk", "c2b", "status"}, poll \in BOOLEAN : Observed(r, source, poll)
  BY DEF STKCallback, C2BConfirmation, AsyncResult
<1> DEFINE new == RecordObservation(mpesaRow[r], source, poll)
<1>2. mpesaRow \in [Receipt -> MpesaRows] BY DEF MpesaInv, MpesaShaped
<1>3. /\ new \in MpesaRows
      /\ new.confirmed => mpesaRow[r].confirmed /\ There(mpesaRow[r])
      /\ new.applied => mpesaRow[r].applied /\ There(mpesaRow[r])
      /\ There(new) /\ (There(mpesaRow[r]) => new = mpesaRow[r])
  BY <1>2, ObservedKeeps
<1>4. /\ mpesaRow' = [mpesaRow EXCEPT ![r] = new]
      /\ UNCHANGED <<settled, pull, pullCursor, hour, mpesaFaults, unwritten, unresolved>>
  BY <1>1 DEF Observed
<1> HIDE DEF new
<1>5. \A q \in Receipt : mpesaRow'[q] = IF q = r THEN new ELSE mpesaRow[q] BY <1>2, <1>4
<1>6. MpesaShaped' BY <1>2, <1>3, <1>4 DEF MpesaInv, MpesaShaped
<1>7. ConfirmedIsPaid' BY <1>3, <1>4, <1>5 DEF MpesaInv, ConfirmedIsPaid, Paid
<1>8. WindowIsWhole'
  BY <1>3, <1>4, <1>5 DEF MpesaInv, ConfirmedIsPaid, WindowIsWhole
<1> QED BY <1>6, <1>7, <1>8 DEF MpesaInv

\* The borrower, the clock and the lending module.
LEMMA PaymentsKeep ==
  ASSUME MpesaInv,
         MpesaTick \/ \E r \in Receipt : Pay(r) \/ Query(r) \/ ApplyMpesa(r)
  PROVE  MpesaInv'
<1> USE MpesaAssumption DEF MpesaInv
<1>1. CASE MpesaTick
  <2>1. MpesaShaped' BY <1>1 DEF MpesaTick, MpesaShaped
  <2> QED BY <1>1, <2>1 DEF MpesaTick, ConfirmedIsPaid, WindowIsWhole, Paid
<1>2. ASSUME NEW r \in Receipt, Pay(r) PROVE MpesaInv'
  <2>1. /\ settled' = [settled EXCEPT ![r] = hour] /\ settled[r] = NotYet
        /\ UNCHANGED <<mpesaRow, pull, pullCursor, hour, unwritten>>
    BY <1>2 DEF Pay, Paid
  <2>2. \A q \in Receipt : settled'[q] = IF q = r THEN hour ELSE settled[q]
    BY <2>1 DEF MpesaShaped
  <2>3. MpesaShaped' /\ hour # NotYet BY <2>1 DEF MpesaShaped, NotYet
  <2>4. ConfirmedIsPaid' BY <2>1, <2>2, <2>3 DEF ConfirmedIsPaid, Paid
  <2>5. WindowIsWhole' BY <2>1, <2>2 DEF WindowIsWhole, MpesaShaped
  <2> QED BY <2>3, <2>4, <2>5
<1>3. ASSUME NEW r \in Receipt, Query(r) PROVE MpesaInv'
  <2> DEFINE new == IF Paid(r)
                    THEN [mpesaRow[r] EXCEPT !.confirmed = TRUE, !.loan = TRUE, !.poll = FALSE]
                    ELSE [mpesaRow[r] EXCEPT !.poll = FALSE]
  <2>1. /\ mpesaRow' = [mpesaRow EXCEPT ![r] = new] /\ mpesaRow[r].poll /\ ~mpesaRow[r].confirmed
        /\ UNCHANGED <<settled, pull, pullCursor, hour, unwritten>>
    BY <1>3 DEF Query
  <2>2. mpesaRow[r] \in MpesaRows BY DEF MpesaShaped
  <2>3. /\ new \in MpesaRows /\ new.source = mpesaRow[r].source
        /\ new.applied = mpesaRow[r].applied
        /\ new.confirmed => Paid(r) /\ There(mpesaRow[r])
    <3>1. There(mpesaRow[r])
      BY <2>1 DEF ConfirmedIsPaid
    <3> QED BY <2>1, <2>2, <3>1 DEF MpesaRows
  <2> HIDE DEF new
  <2>4. \A q \in Receipt : mpesaRow'[q] = IF q = r THEN new ELSE mpesaRow[q]
    BY <2>1 DEF MpesaShaped
  <2> QED BY <2>1, <2>3, <2>4 DEF MpesaShaped, ConfirmedIsPaid, WindowIsWhole, Paid, There
<1>4. ASSUME NEW r \in Receipt, ApplyMpesa(r) PROVE MpesaInv'
  <2> DEFINE new == [mpesaRow[r] EXCEPT !.applied = TRUE]
  <2>1. /\ mpesaRow' = [mpesaRow EXCEPT ![r] = new] /\ mpesaRow[r].confirmed
        /\ UNCHANGED <<settled, pull, pullCursor, hour, unwritten>>
    BY <1>4 DEF ApplyMpesa, UnappliedMpesa, MpesaShaped
  <2>2. mpesaRow[r] \in MpesaRows BY DEF MpesaShaped
  <2>3. new \in MpesaRows /\ new.source = mpesaRow[r].source /\ new.confirmed
    BY <2>1, <2>2 DEF MpesaRows
  <2> HIDE DEF new
  <2>4. \A q \in Receipt : mpesaRow'[q] = IF q = r THEN new ELSE mpesaRow[q]
    BY <2>1 DEF MpesaShaped
  <2> QED BY <2>1, <2>3, <2>4 DEF MpesaShaped, ConfirmedIsPaid, WindowIsWhole, Paid, There
<1> QED BY <1>1, <1>2, <1>3, <1>4

\* The pull sweep: a window closes only when it is written or logged.
LEMMA PullKeeps ==
  ASSUME MpesaInv,
         StartPull \/ FinishPull \/ AbandonPull \/ \E r \in Receipt : Reconcile(r)
  PROVE  MpesaInv'
<1> USE MpesaAssumption DEF MpesaInv
<1>1. CASE StartPull
  <2>1. PICK unread \in SUBSET InWindow :
          /\ pull' = [on |-> TRUE, to |-> hour, left |-> InWindow \ unread]
          /\ unwritten' = unwritten \cup unread
          /\ UNCHANGED <<settled, mpesaRow, pullCursor, hour>>
    BY <1>1 DEF StartPull, PullAll
  <2>2. MpesaShaped' BY <2>1 DEF MpesaShaped
  <2>3. ConfirmedIsPaid' BY <2>1 DEF ConfirmedIsPaid, Paid, InWindow
  <2>4. ASSUME NEW r \in Receipt, settled[r] < hour
        PROVE  r \in pull'.left \/ mpesaRow[r].confirmed \/ r \in unwritten'
    <3>1. Paid(r) BY <2>4 DEF Paid, NotYet, MpesaShaped
    <3>2. settled[r] < pullCursor \/ settled[r] >= pullCursor BY DEF MpesaShaped, NotYet
    <3> QED BY <2>1, <3>1, <3>2 DEF WindowIsWhole, InWindow
  <2> QED BY <2>1, <2>2, <2>3, <2>4 DEF WindowIsWhole
<1>2. CASE FinishPull
  <2>1. /\ pull.on /\ pull.left = {} /\ pull' = NoPull /\ pullCursor' = pull.to
        /\ UNCHANGED <<settled, mpesaRow, hour, unwritten>>
    BY <1>2 DEF FinishPull, SweptTo
  <2>2. MpesaShaped' BY <2>1 DEF MpesaShaped, NoPull
  <2> QED BY <2>1, <2>2 DEF ConfirmedIsPaid, WindowIsWhole, Paid, NoPull
<1>3. CASE AbandonPull
  <2>1. pull' = NoPull /\ UNCHANGED <<settled, mpesaRow, pullCursor, hour, unwritten>>
    BY <1>3 DEF AbandonPull
  <2>2. MpesaShaped' BY <2>1 DEF MpesaShaped, NoPull
  <2> QED BY <2>1, <2>2 DEF ConfirmedIsPaid, WindowIsWhole, Paid, NoPull
<1>4. ASSUME NEW r \in Receipt, Reconcile(r) PROVE MpesaInv'
  <2>1. /\ r \in pull.left /\ pull' = [pull EXCEPT !.left = @ \ {r}]
        /\ UNCHANGED <<settled, pullCursor, hour>>
    BY <1>4 DEF Reconcile
  <2>2. /\ pull'.on = pull.on /\ pull'.to = pull.to /\ pull'.left = pull.left \ {r}
        /\ pull' = [on |-> pull'.on, to |-> pull'.to, left |-> pull'.left]
    BY <2>1 DEF MpesaShaped
  <2>3. \/ \E loan \in BOOLEAN :
             /\ mpesaRow' = [mpesaRow EXCEPT ![r] = UpsertFromPull(mpesaRow[r], loan)]
             /\ unwritten' = unwritten
        \/ mpesaRow' = mpesaRow /\ unwritten' = unwritten \cup {r}
    BY <1>4 DEF Reconcile
  <2>4. CASE mpesaRow' = mpesaRow /\ unwritten' = unwritten \cup {r}
    <3>1. MpesaShaped' BY <2>1, <2>2, <2>4 DEF MpesaShaped
    <3> QED BY <2>1, <2>2, <2>4, <3>1 DEF ConfirmedIsPaid, WindowIsWhole, Paid
  <2>5. ASSUME NEW loan \in BOOLEAN, unwritten' = unwritten,
               mpesaRow' = [mpesaRow EXCEPT ![r] = UpsertFromPull(mpesaRow[r], loan)]
        PROVE  MpesaInv'
    <3> DEFINE new == UpsertFromPull(mpesaRow[r], loan)
    <3>1. mpesaRow[r] \in MpesaRows BY DEF MpesaShaped
    <3>2. new \in MpesaRows /\ new.confirmed /\ There(new) BY <3>1, PulledConfirms
    <3>3. Paid(r) BY <2>1 DEF ConfirmedIsPaid
    <3> HIDE DEF new
    <3>4. \A q \in Receipt : mpesaRow'[q] = IF q = r THEN new ELSE mpesaRow[q]
      BY <2>5 DEF MpesaShaped, new
    <3>5. MpesaShaped' BY <2>1, <2>2, <2>5, <3>2 DEF MpesaShaped, new
    <3>6. ConfirmedIsPaid' BY <2>1, <2>2, <3>2, <3>3, <3>4 DEF ConfirmedIsPaid, Paid
    <3>7. WindowIsWhole' BY <2>1, <2>2, <2>5, <3>2, <3>4 DEF WindowIsWhole
    <3> QED BY <3>5, <3>6, <3>7
  <2> QED BY <2>3, <2>4, <2>5
<1> QED BY <1>1, <1>2, <1>3, <1>4

LEMMA MpesaKeeps == MpesaInv /\ [MpesaNext]_mpesaVars => MpesaInv'
<1> SUFFICES ASSUME MpesaInv, [MpesaNext]_mpesaVars PROVE MpesaInv' OBVIOUS
<1>1. CASE UNCHANGED mpesaVars
  BY <1>1 DEF mpesaVars, MpesaInv, MpesaShaped, ConfirmedIsPaid, WindowIsWhole, Paid
<1>2. CASE MpesaNext BY <1>2, CallbacksKeep, PaymentsKeep, PullKeeps DEF MpesaNext
<1> QED BY <1>1, <1>2

\* The rest of the types: the sweep's window, and what is counted.
MpesaCounts ==
  /\ pull \in [on : BOOLEAN, to : 0..MpesaTicks, left : SUBSET Receipt]
  /\ pull.on => pullCursor < pull.to
  /\ mpesaFaults \in 0..MpesaFaults
  /\ unwritten \in SUBSET Receipt /\ unresolved \in 0..mpesaFaults

LEMMA MpesaCounted ==
  ASSUME MpesaInv, MpesaCounts, [MpesaNext]_mpesaVars
  PROVE  MpesaCounts'
<1> USE MpesaAssumption
<1>0. hour \in 0..MpesaTicks /\ pullCursor \in 0..hour /\ mpesaFaults \in Nat /\ unresolved \in Nat
  BY DEF MpesaInv, MpesaShaped, MpesaCounts
<1>1. CASE UNCHANGED <<pull, pullCursor, mpesaFaults, unwritten, unresolved>>
  BY <1>1 DEF MpesaCounts
<1>2. CASE StartPull
  <2>1. PICK unread \in SUBSET InWindow :
          /\ pull' = [on |-> TRUE, to |-> hour, left |-> InWindow \ unread]
          /\ unwritten' = unwritten \cup unread
          /\ \/ mpesaFaults' = mpesaFaults
             \/ mpesaFaults < MpesaFaults /\ mpesaFaults' = mpesaFaults + 1
          /\ pullCursor < hour /\ UNCHANGED <<pullCursor, unresolved>>
    BY <1>2 DEF StartPull, PullDue, PullAll
  <2> DEFINE left == InWindow \ unread
  <2>2. left \in SUBSET Receipt /\ unread \in SUBSET Receipt
    BY DEF InWindow
  <2>4. pull' = [on |-> TRUE, to |-> hour, left |-> left]
    BY <2>1
  <2> HIDE DEF left
  <2>3. pull' \in [on : BOOLEAN, to : 0..MpesaTicks, left : SUBSET Receipt] /\ pull'.to = hour
    BY <1>0, <2>4, <2>2
  <2>5. mpesaFaults' \in 0..MpesaFaults /\ unresolved' \in 0..mpesaFaults'
    BY <1>0, <2>1 DEF MpesaCounts
  <2>6. unwritten' \in SUBSET Receipt
    BY <2>1, <2>2 DEF MpesaCounts
  <2> QED BY <2>1, <2>3, <2>5, <2>6 DEF MpesaCounts
<1>3. CASE FinishPull \/ AbandonPull
  <2>1. NoPull \in [on : BOOLEAN, to : 0..MpesaTicks, left : SUBSET Receipt] /\ ~NoPull.on
    BY DEF NoPull
  <2>2. pull' = NoPull /\ UNCHANGED <<unwritten, unresolved>>
        /\ (mpesaFaults' = mpesaFaults \/ (mpesaFaults < MpesaFaults /\ mpesaFaults' = mpesaFaults + 1))
    BY <1>3 DEF FinishPull, AbandonPull
  <2>3. mpesaFaults' \in 0..MpesaFaults /\ unresolved' \in 0..mpesaFaults'
    BY <1>0, <2>2 DEF MpesaCounts
  <2> HIDE DEF NoPull
  <2> QED BY <2>1, <2>2, <2>3 DEF MpesaCounts
<1>4. ASSUME NEW r \in Receipt, Reconcile(r) PROVE MpesaCounts'
  <2>1. pull' = [pull EXCEPT !.left = @ \ {r}] /\ pullCursor' = pullCursor
    BY <1>4 DEF Reconcile
  <2>2. pull' \in [on : BOOLEAN, to : 0..MpesaTicks, left : SUBSET Receipt] /\ pull'.to = pull.to /\ pull'.on = pull.on
    BY <2>1 DEF MpesaCounts
  <2>3. mpesaFaults' \in 0..MpesaFaults /\ unresolved' \in 0..mpesaFaults' /\ unwritten' \in SUBSET Receipt
    <3>1. \/ UNCHANGED <<mpesaFaults, unwritten, unresolved>>
          \/ /\ mpesaFaults < MpesaFaults /\ mpesaFaults' = mpesaFaults + 1
             /\ unresolved' = unresolved + 1 /\ unwritten' = unwritten
          \/ /\ mpesaFaults < MpesaFaults /\ mpesaFaults' = mpesaFaults + 1
             /\ unresolved' = unresolved /\ unwritten' = unwritten \cup {r}
      BY <1>4 DEF Reconcile
    <3>2. mpesaFaults \in 0..MpesaFaults /\ unwritten \in SUBSET Receipt /\ unresolved \in 0..mpesaFaults
      BY DEF MpesaCounts
    <3>3. unwritten' \in SUBSET Receipt
      BY <3>1, <3>2
    <3>4. mpesaFaults' \in 0..MpesaFaults /\ unresolved' \in 0..mpesaFaults'
      BY <1>0, <3>1, <3>2
    <3> QED BY <3>3, <3>4
  <2> QED BY <2>1, <2>2, <2>3 DEF MpesaCounts
<1>5. ASSUME NEW r \in Receipt, STKCallback(r) \/ C2BConfirmation(r) \/ AsyncResult(r) \/ Pay(r) \/ Query(r) \/ ApplyMpesa(r)
      PROVE  MpesaCounts'
  BY <1>1, <1>5 DEF STKCallback, C2BConfirmation, AsyncResult, Observed, Pay, Query, ApplyMpesa
<1>6. CASE MpesaTick \/ UNCHANGED mpesaVars
  BY <1>1, <1>6 DEF MpesaTick, mpesaVars
<1> QED BY <1>2, <1>3, <1>4, <1>5, <1>6 DEF MpesaNext

LEMMA MpesaStarts == MpesaInit => MpesaInv /\ MpesaCounts
<1> SUFFICES ASSUME MpesaInit PROVE MpesaCounts BY MpesaInvInit
<1>1. NoPull \in [on : BOOLEAN, to : 0..MpesaTicks, left : SUBSET Receipt] /\ ~NoPull.on
  BY MpesaAssumption DEF NoPull
<1>2. 0 \in 0..MpesaFaults /\ 0 \in 0..0
  BY MpesaAssumption
<1> HIDE DEF NoPull
<1> QED BY <1>1, <1>2 DEF MpesaInit, MpesaCounts

LEMMA MpesaShows == MpesaInv /\ MpesaCounts => MpesaTypeOK /\ MpesaSound
<1>1. MpesaInv /\ MpesaCounts => MpesaTypeOK
  BY DEF MpesaInv, MpesaShaped, MpesaCounts, MpesaTypeOK, MpesaRows
<1> QED BY <1>1 DEF MpesaInv, ConfirmedIsPaid, WindowIsWhole, MpesaSound, CreditedOnlyIfPaid, PulledIsConfirmed

\* What a loan has received only grows, but for a repeated pull that could not
\* resolve the loan.
LEMMA ReceivedKept ==
  ASSUME MpesaInv, MpesaCounts, [MpesaNext]_mpesaVars, unresolved' = unresolved
  PROVE  SumAppliedStroopsByLoan' >= SumAppliedStroopsByLoan
<1> DEFINE S == {r \in Receipt : mpesaRow[r].applied /\ mpesaRow[r].loan}
<1>0. mpesaRow \in [Receipt -> MpesaRows]
  BY DEF MpesaInv, MpesaShaped
<1> SUFFICES ASSUME NEW q \in Receipt, mpesaRow[q].applied, mpesaRow[q].loan
               PROVE  mpesaRow'[q].applied /\ mpesaRow'[q].loan
  <2>1. S \subseteq S' /\ S' \subseteq Receipt
    OBVIOUS
  <2>2. IsFiniteSet(S')
    BY <2>1, MpesaAssumption, FS_Subset
  <2>3. Cardinality(S) <= Cardinality(S') /\ Cardinality(S) \in Nat /\ Cardinality(S') \in Nat
    BY <2>1, <2>2, FS_Subset, FS_CardinalityType
  <2>4. SumAppliedStroopsByLoan = Cardinality(S) /\ SumAppliedStroopsByLoan' = Cardinality(S')
    BY DEF SumAppliedStroopsByLoan
  <2> HIDE DEF S
  <2> QED BY <2>3, <2>4
<1>2. There(mpesaRow[q]) /\ mpesaRow[q].confirmed
  BY DEF MpesaInv, ConfirmedIsPaid
<1>3. CASE UNCHANGED mpesaRow
  BY <1>3
<1>4. ASSUME NEW r \in Receipt, STKCallback(r) \/ C2BConfirmation(r) \/ AsyncResult(r)
      PROVE  mpesaRow'[q].applied /\ mpesaRow'[q].loan
  <2>1. \E source, poll : mpesaRow' = [mpesaRow EXCEPT ![r] = RecordObservation(mpesaRow[r], source, poll)]
    BY <1>4 DEF STKCallback, C2BConfirmation, AsyncResult, Observed
  <2>2. r = q => \A source, poll : RecordObservation(mpesaRow[r], source, poll) = mpesaRow[r]
    BY <1>2 DEF RecordObservation
  <2>3. mpesaRow'[q] = mpesaRow[q]
    BY <1>0, <2>1, <2>2
  <2> QED BY <2>3
<1>5. ASSUME NEW r \in Receipt, Query(r)
      PROVE  mpesaRow'[q].applied /\ mpesaRow'[q].loan
  <2>1. r # q
    BY <1>2, <1>5 DEF Query
  <2>2. mpesaRow'[q] = mpesaRow[q]
    BY <1>0, <1>5, <2>1 DEF Query
  <2> QED BY <2>2
<1>6. ASSUME NEW r \in Receipt, ApplyMpesa(r)
      PROVE  mpesaRow'[q].applied /\ mpesaRow'[q].loan
  BY <1>0, <1>6 DEF ApplyMpesa, MpesaRows
<1>7. ASSUME NEW r \in Receipt, Reconcile(r)
      PROVE  mpesaRow'[q].applied /\ mpesaRow'[q].loan
  <2> DEFINE new == UpsertFromPull(mpesaRow[r], TRUE)
  <2>0. unresolved + 1 # unresolved
    BY MpesaAssumption DEF MpesaCounts
  <2>1. mpesaRow' = mpesaRow \/ mpesaRow' = [mpesaRow EXCEPT ![r] = new]
    BY <1>7, <2>0 DEF Reconcile
  <2>2. r = q => new.applied /\ new.loan
    BY <1>0, <1>2 DEF UpsertFromPull, UpdateFields, MpesaRows
  <2> HIDE DEF new
  <2>3. mpesaRow'[q] = mpesaRow[q] \/ (r = q /\ mpesaRow'[q] = new)
    BY <1>0, <2>1
  <2> QED BY <2>2, <2>3
<1> QED BY <1>3, <1>4, <1>5, <1>6, <1>7 DEF MpesaNext, mpesaVars, MpesaTick, Pay, StartPull, FinishPull, AbandonPull

-----------------------------------------------------------------------------
(* Airtel (Airtel) *)

AirtelRows ==
  [there : BOOLEAN, confirmed : BOOLEAN, status : {"none", "TIP", "TS", "TF"},
   receipt : BOOLEAN, loan : BOOLEAN, applied : BOOLEAN, poll : BOOLEAN]

\* A confirmed row says what Airtel's record says of a finished payment; only one
\* that succeeded names a loan or is converted.
RowAgrees(row, st) ==
  /\ row.confirmed => row.there /\ st \in {"TS", "TF"} /\ row.status = st
  /\ row.loan \/ row.applied => st = "TS"
  /\ row.receipt => row.there

AirtelInv ==
  /\ airtelRow \in [Push -> AirtelRows]
  /\ DOMAIN collection = Push
  /\ \A p \in Push : RowAgrees(airtelRow[p], collection[p].st)

\* Each write of a row keeps it in agreement, and keeps its receipt.
LEMMA RowWritesAgree ==
  ASSUME NEW row \in AirtelRows, NEW st, RowAgrees(row, st)
  PROVE  /\ \A said \in {"TIP", "TF", "TS"} :
              /\ RecordAirtelCallback(row, said) \in AirtelRows
              /\ RowAgrees(RecordAirtelCallback(row, said), st)
              /\ row.receipt => RecordAirtelCallback(row, said).receipt
              /\ RecordAirtelCallback(row, said).there
         /\ st \in {"TS", "TF"} =>
              /\ ConfirmAirtel(row, st, st = "TS") \in AirtelRows
              /\ row.there => RowAgrees(ConfirmAirtel(row, st, st = "TS"), st)
              /\ row.receipt => ConfirmAirtel(row, st, st = "TS").receipt
              /\ ConfirmAirtel(row, st, st = "TS").there = row.there
         /\ st = "TS" => /\ UpsertFromSummary(row) \in AirtelRows
                         /\ RowAgrees(UpsertFromSummary(row), st)
                         /\ UpsertFromSummary(row).receipt /\ UpsertFromSummary(row).there
<1> USE DEF AirtelRows, RowAgrees
<1>1. ASSUME NEW said \in {"TIP", "TF", "TS"}
      PROVE  /\ RecordAirtelCallback(row, said) \in AirtelRows
             /\ RowAgrees(RecordAirtelCallback(row, said), st)
             /\ row.receipt => RecordAirtelCallback(row, said).receipt
             /\ RecordAirtelCallback(row, said).there
  BY DEF RecordAirtelCallback, updateFromCallback, NoAirtelRow, Discloses
<1>2. ASSUME st \in {"TS", "TF"}
      PROVE  /\ ConfirmAirtel(row, st, st = "TS") \in AirtelRows
             /\ row.there => RowAgrees(ConfirmAirtel(row, st, st = "TS"), st)
             /\ row.receipt => ConfirmAirtel(row, st, st = "TS").receipt
             /\ ConfirmAirtel(row, st, st = "TS").there = row.there
  BY <1>2 DEF ConfirmAirtel, Discloses
<1>3. ASSUME st = "TS"
      PROVE  /\ UpsertFromSummary(row) \in AirtelRows
             /\ RowAgrees(UpsertFromSummary(row), st)
             /\ UpsertFromSummary(row).receipt /\ UpsertFromSummary(row).there
  BY <1>3 DEF UpsertFromSummary
<1> QED BY <1>1, <1>2, <1>3

\* What a step does to one row and to Airtel's record of it, as RowWritesAgree
\* tells it: the row agrees, and keeps its receipt.
Stays(p) ==
  /\ airtelRow'[p] \in AirtelRows /\ RowAgrees(airtelRow'[p], collection'[p].st)
  /\ airtelRow[p].receipt => airtelRow'[p].receipt

LEMMA AirtelStepKeeps ==
  ASSUME AirtelInv, [AirtelNext]_airtelVars
  PROVE  AirtelInv' /\ \A p \in Push : airtelRow[p].receipt => airtelRow'[p].receipt
<1>1. \A p \in Push : airtelRow[p] \in AirtelRows /\ RowAgrees(airtelRow[p], collection[p].st)
  BY DEF AirtelInv
<1>2. SUFFICES /\ airtelRow' = [p \in Push |-> airtelRow'[p]] /\ DOMAIN collection' = Push
               /\ \A p \in Push : Stays(p)
  BY DEF AirtelInv, Stays
<1>3. ASSUME UNCHANGED <<airtelRow, collection>>
      PROVE  /\ airtelRow' = [p \in Push |-> airtelRow'[p]] /\ DOMAIN collection' = Push
             /\ \A p \in Push : Stays(p)
  BY <1>1, <1>3 DEF AirtelInv, Stays
<1>4. ASSUME NEW p \in Push, NEW new \in AirtelRows, RowAgrees(new, collection[p].st),
             airtelRow[p].receipt => new.receipt,
             airtelRow' = [airtelRow EXCEPT ![p] = new], UNCHANGED collection
      PROVE  /\ airtelRow' = [q \in Push |-> airtelRow'[q]] /\ DOMAIN collection' = Push
             /\ \A q \in Push : Stays(q)
  <2>1. \A q \in Push : airtelRow'[q] = IF q = p THEN new ELSE airtelRow[q]
    BY <1>4 DEF AirtelInv
  <2> QED BY <1>1, <1>4, <2>1 DEF AirtelInv, Stays
<1>5. ASSUME NEW p \in Push, SettleCollection(p)
      PROVE  /\ airtelRow' = [q \in Push |-> airtelRow'[q]] /\ DOMAIN collection' = Push
             /\ \A q \in Push : Stays(q)
  <2>1. PICK new : collection' = [collection EXCEPT ![p] = new]
    BY <1>5 DEF SettleCollection
  <2>2. ~Finished(p) /\ UNCHANGED airtelRow BY <1>5 DEF SettleCollection
  <2>3. DOMAIN collection' = Push /\ \A q \in Push : q # p => collection'[q] = collection[q]
    BY <2>1 DEF AirtelInv
  <2>4. ~airtelRow[p].confirmed /\ ~airtelRow[p].loan /\ ~airtelRow[p].applied
    BY <1>1, <2>2 DEF RowAgrees, Finished
  <2>5. Stays(p) BY <1>1, <2>2, <2>4 DEF Stays, RowAgrees
  <2>6. \A q \in Push : q # p => Stays(q) BY <1>1, <2>2, <2>3 DEF Stays
  <2> QED BY <2>2, <2>3, <2>5, <2>6 DEF AirtelInv
<1>6. ASSUME NEW p \in Push, CollectionCallback(p)
      PROVE  /\ airtelRow' = [q \in Push |-> airtelRow'[q]] /\ DOMAIN collection' = Push
             /\ \A q \in Push : Stays(q)
  <2>1. PICK st \in {"TIP", "TF", "TS"} :
          airtelRow' = [airtelRow EXCEPT ![p] = RecordAirtelCallback(airtelRow[p], st)]
    BY <1>6 DEF CollectionCallback
  <2>2. UNCHANGED collection BY <1>6 DEF CollectionCallback
  <2>3. /\ RecordAirtelCallback(airtelRow[p], st) \in AirtelRows
        /\ RowAgrees(RecordAirtelCallback(airtelRow[p], st), collection[p].st)
        /\ airtelRow[p].receipt => RecordAirtelCallback(airtelRow[p], st).receipt
    BY <1>1, RowWritesAgree
  <2> QED BY <1>4, <2>1, <2>2, <2>3
<1>7. ASSUME NEW p \in Push, Enquire(p)
      PROVE  /\ airtelRow' = [q \in Push |-> airtelRow'[q]] /\ DOMAIN collection' = Push
             /\ \A q \in Push : Stays(q)
  <2>1. airtelRow[p].there /\ UNCHANGED collection BY <1>7 DEF Enquire
  <2>2. CASE Finished(p)
    <3> DEFINE st  == collection[p].st
               new == ConfirmAirtel(airtelRow[p], st, st = "TS")
    <3>1. airtelRow' = [airtelRow EXCEPT ![p] = new] BY <1>7, <2>2 DEF Enquire
    <3>2. /\ new \in AirtelRows /\ RowAgrees(new, st)
          /\ airtelRow[p].receipt => new.receipt
      BY <1>1, <2>1, <2>2, RowWritesAgree DEF Finished
    <3> HIDE DEF new
    <3> QED BY <1>4, <2>1, <3>1, <3>2
  <2>3. CASE ~Finished(p)
    <3> DEFINE new == [airtelRow[p] EXCEPT !.poll = FALSE]
    <3>1. airtelRow' = [airtelRow EXCEPT ![p] = new] BY <1>7, <2>3 DEF Enquire, AirtelInv
    <3>2. /\ new \in AirtelRows /\ RowAgrees(new, collection[p].st)
          /\ airtelRow[p].receipt => new.receipt
      BY <1>1 DEF AirtelRows, RowAgrees
    <3> HIDE DEF new
    <3> QED BY <1>4, <2>1, <3>1, <3>2
  <2> QED BY <2>2, <2>3
<1>8. ASSUME NEW p \in Push, ApplyAirtel(p)
      PROVE  /\ airtelRow' = [q \in Push |-> airtelRow'[q]] /\ DOMAIN collection' = Push
             /\ \A q \in Push : Stays(q)
  <2> DEFINE new == [airtelRow[p] EXCEPT !.applied = TRUE]
  <2>1. airtelRow' = [airtelRow EXCEPT ![p] = new] /\ airtelRow[p].loan /\ UNCHANGED collection
    BY <1>8 DEF ApplyAirtel, UnappliedAirtel, AirtelInv
  <2>2. /\ new \in AirtelRows /\ RowAgrees(new, collection[p].st)
        /\ airtelRow[p].receipt => new.receipt
    BY <1>1, <2>1 DEF AirtelRows, RowAgrees
  <2> HIDE DEF new
  <2> QED BY <1>4, <2>1, <2>2
<1>9. ASSUME NEW ps, airtelRow' = Recorded(ps), UNCHANGED collection
      PROVE  /\ airtelRow' = [q \in Push |-> airtelRow'[q]] /\ DOMAIN collection' = Push
             /\ \A q \in Push : Stays(q)
  <2>1. ASSUME NEW q \in Push PROVE Stays(q)
    <3>1. CASE q \in ps /\ Recordable(q)
      <4>1. airtelRow'[q] = UpsertFromSummary(airtelRow[q]) /\ collection[q].st = "TS"
        BY <1>9, <3>1 DEF Recorded, Recordable
      <4>2. /\ UpsertFromSummary(airtelRow[q]) \in AirtelRows
            /\ RowAgrees(UpsertFromSummary(airtelRow[q]), "TS")
            /\ UpsertFromSummary(airtelRow[q]).receipt
        BY <1>1, <4>1, RowWritesAgree
      <4> QED BY <1>9, <4>1, <4>2 DEF Stays
    <3>2. CASE ~(q \in ps /\ Recordable(q))
      <4>1. airtelRow'[q] = airtelRow[q] BY <1>9, <3>2 DEF Recorded
      <4> QED BY <1>1, <1>9, <4>1 DEF Stays
    <3> QED BY <3>1, <3>2
  <2> QED BY <1>9, <2>1 DEF AirtelInv, Recorded
<1>10. CASE ReadPage BY <1>9, <1>10 DEF ReadPage
<1>11. CASE FailPage BY <1>9, <1>11 DEF FailPage
<1>12. CASE AirtelTick \/ StartSummary \/ UNCHANGED airtelVars
  BY <1>3, <1>12 DEF AirtelTick, StartSummary, airtelVars
<1> QED BY <1>5, <1>6, <1>7, <1>8, <1>10, <1>11, <1>12 DEF AirtelNext

\* The rank of an entry among those of a window is a numbering of them.
LEMMA RanksNumber ==
  ASSUME NEW L, IsFiniteSet(L), NEW f \in [L -> Int], \A p, q \in L : f[p] = f[q] => p = q,
         NEW rank, rank = [p \in L |-> Cardinality({q \in L : f[q] <= f[p]})]
  PROVE  rank \in Injection(L, 1..Cardinality(L)) /\ rank \in Surjection(L, 1..Cardinality(L))
<1> DEFINE upTo(p) == {q \in L : f[q] <= f[p]}
           N == Cardinality(L)
<1>1. N \in Nat
  BY FS_CardinalityType
<1>2. ASSUME NEW p \in L PROVE Cardinality(upTo(p)) \in 1..N /\ IsFiniteSet(upTo(p))
  <2>1. upTo(p) \in SUBSET L /\ p \in upTo(p)
    OBVIOUS
  <2>2. IsFiniteSet(upTo(p)) /\ Cardinality(upTo(p)) <= N
    BY <2>1, FS_Subset
  <2>3. Cardinality(upTo(p)) \in Nat /\ Cardinality(upTo(p)) # 0
    BY <2>1, <2>2, FS_CardinalityType, FS_EmptySet
  <2> QED  BY <1>1, <2>2, <2>3
<1>3. ASSUME NEW p \in L, NEW q \in L, f[p] < f[q] PROVE Cardinality(upTo(p)) < Cardinality(upTo(q))
  <2>1. upTo(p) \in SUBSET upTo(q) /\ q \in upTo(q) /\ q \notin upTo(p)
    BY <1>3
  <2>2. Cardinality(upTo(p)) <= Cardinality(upTo(q)) /\ Cardinality(upTo(p)) # Cardinality(upTo(q))
    BY <1>2, <2>1, FS_Subset
  <2>3. Cardinality(upTo(p)) \in Nat /\ Cardinality(upTo(q)) \in Nat
    BY <1>1, <1>2
  <2> HIDE DEF upTo
  <2> QED  BY <2>2, <2>3
<1>4. rank = [p \in L |-> Cardinality(upTo(p))]
  OBVIOUS
<1> HIDE DEF upTo, N
<1>5. rank \in [L -> 1..N]
  BY <1>2, <1>4
<1>6. \A p, q \in L : rank[p] = rank[q] => p = q
  <2> SUFFICES ASSUME NEW p \in L, NEW q \in L, p # q PROVE rank[p] # rank[q]
    OBVIOUS
  <2>1. f[p] < f[q] \/ f[q] < f[p]
    OBVIOUS
  <2>2. Cardinality(upTo(p)) \in 1..N /\ Cardinality(upTo(q)) \in 1..N
    BY <1>2
  <2>3. Cardinality(upTo(p)) < Cardinality(upTo(q)) \/ Cardinality(upTo(q)) < Cardinality(upTo(p))
    BY <1>3, <2>1
  <2> QED  BY <1>1, <1>4, <2>2, <2>3
<1>7. rank \in Injection(L, 1..N)
  BY <1>5, <1>6 DEF Injection, IsInjective
<1>8. IsFiniteSet(1..N) /\ Cardinality(1..N) = N
  <2>1. 1 \in Int /\ N \in Int /\ N \in Nat
    BY <1>1
  <2>2. IsFiniteSet(1..N) /\ Cardinality(1..N) = IF 1 > N THEN 0 ELSE N - 1 + 1
    BY <2>1, FS_Interval
  <2> QED  BY <2>1, <2>2
<1>9. rank \in Surjection(L, 1..N)
  BY <1>7, <1>8, FS_Injection DEF N
<1> QED  BY <1>7, <1>9 DEF N

\* A page of s entries after the first a: it is short exactly when the window ends
\* in it.
LEMMA PageEnds ==
  ASSUME NEW L, IsFiniteSet(L), NEW rank, rank \in Injection(L, 1..Cardinality(L)), rank \in Surjection(L, 1..Cardinality(L)),
         NEW a \in Nat, NEW s \in Nat \ {0}, NEW E, E \in SUBSET L,
         \A p \in L : p \in E <=> rank[p] \in (a + 1)..(a + s)
  PROVE  Cardinality(E) < s <=> Cardinality(L) < a + s
<1> DEFINE N == Cardinality(L)
<1>1. N \in Nat
  BY FS_CardinalityType
<1>2. rank \in [L -> 1..N] /\ (\A p, q \in L : rank[p] = rank[q] => p = q)
      /\ \A k \in 1..N : \E p \in L : rank[p] = k
  BY DEF Injection, IsInjective, Surjection
<1>3. IsFiniteSet(E) /\ Cardinality(E) \in Nat
  <2>1. E \in SUBSET L
    OBVIOUS
  <2>2. IsFiniteSet(E)
    BY <2>1, FS_Subset
  <2> QED  BY <2>2, FS_CardinalityType
<1> DEFINE g == [p \in E |-> rank[p]]
<1> HIDE DEF N
<1>4. ASSUME N < a + s PROVE Cardinality(E) < s
  <2> DEFINE T == (a + 1)..N
  <2>1. g \in Injection(E, T)
    <3>1. \A p \in E : p \in L /\ rank[p] \in 1..N /\ rank[p] \in (a + 1)..(a + s)
      BY <1>2
    <3>2. \A p \in E : rank[p] \in T
      BY <1>1, <3>1
    <3>3. g \in [E -> T]
      BY <3>2
    <3>4. \A p, q \in E : g[p] = g[q] => p = q
      BY <1>2, <3>1
    <3> QED  BY <3>3, <3>4 DEF Injection, IsInjective
  <2>2. IsFiniteSet(T) /\ Cardinality(T) = IF a + 1 > N THEN 0 ELSE N - (a + 1) + 1
    <3>1. a + 1 \in Int /\ N \in Int
      BY <1>1
    <3> QED  BY <3>1, FS_Interval
  <2>3. Cardinality(E) <= Cardinality(T)
    BY <2>1, <2>2, FS_Injection
  <2> QED  BY <1>1, <1>3, <1>4, <2>2, <2>3
<1>5. ASSUME ~(N < a + s) PROVE Cardinality(E) >= s
  <2> DEFINE T == (a + 1)..(a + s)
  <2>1. g \in Surjection(E, T)
    <3>1. \A p \in E : rank[p] \in T
      OBVIOUS
    <3>2. g \in [E -> T]
      BY <3>1
    <3>3. ASSUME NEW k \in T PROVE \E p \in E : g[p] = k
      <4>1. k \in 1..N
        BY <1>1, <1>5
      <4>2. PICK p \in L : rank[p] = k
        BY <1>2, <4>1
      <4>3. p \in E
        BY <4>2
      <4> QED  BY <4>2, <4>3
    <3> HIDE DEF g, T
    <3> QED  BY <3>2, <3>3 DEF Surjection
  <2>2. IsFiniteSet(T) /\ Cardinality(T) = s
    <3>1. a + 1 \in Int /\ a + s \in Int
      OBVIOUS
    <3>3. Cardinality((a + 1)..(a + s)) = IF a + 1 > a + s THEN 0 ELSE (a + s) - (a + 1) + 1
      BY <3>1, FS_Interval
    <3>4. IsFiniteSet((a + 1)..(a + s))
      BY <3>1, FS_Interval
    <3> QED  BY <3>3, <3>4
  <2>3. Cardinality(T) <= Cardinality(E)
    BY <1>3, <2>1, FS_Surjection
  <2> QED  BY <1>3, <2>2, <2>3
<1> QED  BY <1>1, <1>3, <1>4, <1>5 DEF N

Collections ==
  [st : {"TIP", "TS", "TF"}, at : 0..AirtelTicks, place : 0..Cardinality(Push), legible : BOOLEAN]
Settled == {q \in Push : Finished(q)}

\* Airtel's own records: each payment settled has a place of its own.
PlacesAreOwn ==
  /\ collection \in [Push -> Collections] /\ tick \in 0..AirtelTicks
  /\ \A p \in Settled : collection[p].at <= tick /\ collection[p].place \in 1..Cardinality(Settled)
  /\ \A p, q \in Settled : collection[p].place = collection[q].place => p = q

\* What the sweep has read of its window is confirmed, and it read full pages.
Walked == Listed(walk.from, walk.to)
WindowRead ==
  walk.on =>
    /\ walk.page * PageSize <= Cardinality(Walked)
    /\ \A p \in Walked :
         Recordable(p) /\ Rank(p, Walked) <= walk.page * PageSize => airtelRow[p].confirmed

SweepShaped ==
  /\ walk \in [on : BOOLEAN, from : 0..AirtelTicks, to : 0..AirtelTicks, page : 0..(MaxPages - 1)]
  /\ walk.on => walk.from = summaryCursor /\ walk.to <= tick
  /\ summaryCursor \in 0..tick /\ airtelFaults \in 0..AirtelFaults /\ pastCeiling \in SUBSET Push

SweepInv == AirtelInv /\ PlacesAreOwn /\ SweepShaped /\ WindowRead /\ SweptIsConfirmed

\* A confirmed row stays confirmed.
LEMMA ConfirmedStays ==
  ASSUME AirtelInv, [AirtelNext]_airtelVars, NEW p \in Push, airtelRow[p].confirmed
  PROVE  airtelRow'[p].confirmed
<1>0. airtelRow \in [Push -> AirtelRows] /\ airtelRow[p].there
  BY DEF AirtelInv, RowAgrees
<1>1. CASE UNCHANGED airtelRow
  BY <1>1
<1>2. ASSUME NEW q \in Push, NEW new, airtelRow' = [airtelRow EXCEPT ![q] = new], q = p => new.confirmed
      PROVE  airtelRow'[p].confirmed
  BY <1>0, <1>2
<1>3. ASSUME NEW q \in Push, CollectionCallback(q) PROVE airtelRow'[p].confirmed
  <2>1. PICK st : airtelRow' = [airtelRow EXCEPT ![q] = RecordAirtelCallback(airtelRow[q], st)]
    BY <1>3 DEF CollectionCallback
  <2>2. q = p => RecordAirtelCallback(airtelRow[q], st).confirmed
    BY <1>0 DEF RecordAirtelCallback, updateFromCallback
  <2> QED BY <1>2, <2>1, <2>2
<1>4. ASSUME NEW q \in Push, Enquire(q) PROVE airtelRow'[p].confirmed
  <2>1. CASE Finished(q)
    <3> DEFINE new == ConfirmAirtel(airtelRow[q], collection[q].st, collection[q].st = "TS")
    <3>1. airtelRow' = [airtelRow EXCEPT ![q] = new]
      BY <1>4, <2>1 DEF Enquire
    <3>2. q = p => new.confirmed
      BY <1>0 DEF ConfirmAirtel, AirtelRows
    <3> HIDE DEF new
    <3> QED BY <1>2, <3>1, <3>2
  <2>2. CASE ~Finished(q)
    <3> DEFINE new == [airtelRow[q] EXCEPT !.poll = FALSE]
    <3>1. airtelRow' = [airtelRow EXCEPT ![q] = new]
      BY <1>4, <2>2 DEF Enquire
    <3>2. q = p => new.confirmed
      BY <1>0 DEF AirtelRows
    <3> HIDE DEF new
    <3> QED BY <1>2, <3>1, <3>2
  <2> QED BY <2>1, <2>2
<1>5. ASSUME NEW q \in Push, ApplyAirtel(q) PROVE airtelRow'[p].confirmed
  <2> DEFINE new == [airtelRow[q] EXCEPT !.applied = TRUE]
  <2>1. airtelRow' = [airtelRow EXCEPT ![q] = new]
    BY <1>5 DEF ApplyAirtel
  <2>2. q = p => new.confirmed
    BY <1>0 DEF AirtelRows
  <2> HIDE DEF new
  <2> QED BY <1>2, <2>1, <2>2
<1>6. ASSUME NEW ps, airtelRow' = Recorded(ps) PROVE airtelRow'[p].confirmed
  <2>1. UpsertFromSummary(airtelRow[p]).confirmed
    BY <1>0 DEF UpsertFromSummary, AirtelRows
  <2>2. airtelRow'[p] = UpsertFromSummary(airtelRow[p]) \/ airtelRow'[p] = airtelRow[p]
    BY <1>6 DEF Recorded
  <2> QED BY <2>1, <2>2
<1>7. CASE ReadPage \/ FailPage
  BY <1>6, <1>7 DEF ReadPage, FailPage
<1> QED BY <1>1, <1>3, <1>4, <1>5, <1>7 DEF AirtelNext, airtelVars, AirtelTick, SettleCollection, StartSummary

\* What a page records is confirmed.
LEMMA RecordedConfirms ==
  ASSUME AirtelInv, NEW ps, airtelRow' = Recorded(ps), NEW p \in Push, p \in ps, Recordable(p)
  PROVE  airtelRow'[p].confirmed
<1>0. airtelRow[p] \in AirtelRows
  BY DEF AirtelInv
<1>1. airtelRow'[p] = UpsertFromSummary(airtelRow[p])
  BY DEF Recorded
<1> QED BY <1>0, <1>1 DEF UpsertFromSummary, AirtelRows

\* The ranks of a window number its entries.
LEMMA WindowRanked ==
  ASSUME PlacesAreOwn, NEW from \in Nat, NEW to \in Nat, NEW L, L = Listed(from, to)
  PROVE  /\ IsFiniteSet(L) /\ Cardinality(L) \in Nat /\ L \subseteq Settled /\ L \subseteq Push
         /\ \A p \in L : Rank(p, L) \in 1..Cardinality(L)
         /\ \A n \in Nat : Cardinality(SummaryPage(from, to, n)) < PageSize <=> Cardinality(L) < (n + 1) * PageSize
<1>1. L \subseteq Settled /\ L \subseteq Push /\ Settled \subseteq Push
  BY DEF Listed, Settled
<1>2. IsFiniteSet(L) /\ Cardinality(L) \in Nat
  <2>1. IsFiniteSet(L)
    BY <1>1, AirtelAssumption, FS_Subset
  <2> QED BY <2>1, FS_CardinalityType
<1> DEFINE f == [p \in L |-> collection[p].place]
           rank == [p \in L |-> Cardinality({q \in L : f[q] <= f[p]})]
<1>3. f \in [L -> Int] /\ \A p, q \in L : f[p] = f[q] => p = q
  <2>1. \A p \in L : collection[p].place \in Int
    BY <1>1 DEF PlacesAreOwn, Collections
  <2> QED BY <1>1, <2>1 DEF PlacesAreOwn
<1>4. \A p \in L : rank[p] = Rank(p, L)
  <2> TAKE p \in L
  <2>1. {q \in L : f[q] <= f[p]} = {q \in L : collection[q].place <= collection[p].place}
    OBVIOUS
  <2> QED BY <2>1 DEF Rank
<1> HIDE DEF f
<1>5. rank = [p \in L |-> Cardinality({q \in L : f[q] <= f[p]})]
  OBVIOUS
<1> HIDE DEF rank
<1>6. rank \in Injection(L, 1..Cardinality(L)) /\ rank \in Surjection(L, 1..Cardinality(L))
  BY <1>2, <1>3, <1>5, RanksNumber
<1>7. \A p \in L : Rank(p, L) \in 1..Cardinality(L)
  BY <1>4, <1>6 DEF Injection
<1>8. ASSUME NEW n \in Nat
      PROVE  Cardinality(SummaryPage(from, to, n)) < PageSize <=> Cardinality(L) < (n + 1) * PageSize
  <2> DEFINE a == n * PageSize
             E == SummaryPage(from, to, n)
  <2>1. a \in Nat /\ PageSize \in Nat \ {0} /\ (n + 1) * PageSize = a + PageSize
    BY AirtelAssumption
  <2>2. E = {p \in L : Rank(p, L) \in (n * PageSize + 1)..((n + 1) * PageSize)}
    BY DEF SummaryPage
  <2>3. E = {p \in L : rank[p] \in (a + 1)..(a + PageSize)}
    BY <1>4, <2>1, <2>2
  <2> HIDE DEF a, E
  <2>4. Cardinality(E) < PageSize <=> Cardinality(L) < a + PageSize
    <3>1. IsFiniteSet(L) /\ rank \in Injection(L, 1..Cardinality(L)) /\ rank \in Surjection(L, 1..Cardinality(L))
      BY <1>2, <1>6
    <3>2. a \in Nat /\ PageSize \in Nat \ {0}
      BY <2>1
    <3>3. E \in SUBSET L /\ \A p \in L : p \in E <=> rank[p] \in (a + 1)..(a + PageSize)
      BY <2>3
    <3> QED BY <3>1, <3>2, <3>3, PageEnds, Zenon
  <2> QED BY <2>1, <2>4 DEF E
<1> QED BY <1>1, <1>2, <1>7, <1>8

LEMMA SweepStarts == AirtelInit => SweepInv
<1> SUFFICES ASSUME AirtelInit PROVE SweepInv
  OBVIOUS
<1>1. AirtelInv
  BY DEF AirtelInit, AirtelInv, AirtelRows, RowAgrees, NoAirtelRow
<1>2. Cardinality(Push) \in Nat
  BY AirtelAssumption, FS_CardinalityType
<1>3. Settled = {}
  BY DEF AirtelInit, Settled, Finished
<1>4. collection \in [Push -> Collections]
  BY <1>2, AirtelAssumption DEF AirtelInit, Collections
<1>5. PlacesAreOwn
  BY <1>3, <1>4, AirtelAssumption DEF PlacesAreOwn, AirtelInit
<1>6. SweepShaped /\ WindowRead
  BY AirtelAssumption DEF AirtelInit, SweepShaped, WindowRead, NoWalk
<1>7. SweptIsConfirmed
  BY DEF AirtelInit, SweptIsConfirmed, Recordable
<1> QED BY <1>1, <1>5, <1>6, <1>7 DEF SweepInv

\* Writes of rows, and the passing of time, leave Airtel's records and the sweep as
\* they were.
LEMMA RowsSweep ==
  ASSUME SweepInv, [AirtelNext]_airtelVars, UNCHANGED <<collection, walk, summaryCursor, pastCeiling>>,
         airtelFaults' \in 0..AirtelFaults, tick' \in 0..AirtelTicks, tick' \in {tick, tick + 1}
  PROVE  SweepInv'
<1>0. AirtelInv /\ PlacesAreOwn /\ SweepShaped /\ WindowRead /\ SweptIsConfirmed /\ tick \in Nat
  BY AirtelAssumption DEF SweepInv, PlacesAreOwn
<1>1. AirtelInv'
  BY <1>0, AirtelStepKeeps
<1>2. \A p \in Push : airtelRow[p].confirmed => airtelRow'[p].confirmed
  BY <1>0, ConfirmedStays
<1>3. Settled' = Settled /\ Walked' = Walked
  BY DEF Settled, Walked, Listed, Finished
<1>4. PlacesAreOwn'
  <2>1. \A p \in Settled : collection[p].at <= tick /\ collection[p].at \in Nat
    <3>1. \A p \in Push : collection[p] \in Collections
      BY <1>0 DEF PlacesAreOwn
    <3>2. \A p \in Push : collection[p].at \in Nat
      BY <3>1, AirtelAssumption DEF Collections
    <3>3. \A p \in Settled : p \in Push /\ collection[p].at <= tick
      BY <1>0 DEF PlacesAreOwn, Settled
    <3> QED BY <3>2, <3>3
  <2> QED BY <1>0, <1>3, <2>1 DEF PlacesAreOwn
<1>5. SweepShaped'
  BY <1>0, AirtelAssumption DEF SweepShaped
<1>6. WindowRead'
  <2>1. \A p \in Walked : p \in Push
    BY DEF Walked, Listed
  <2> QED BY <1>0, <1>2, <1>3, <2>1 DEF WindowRead, Rank, Recordable
<1>7. SweptIsConfirmed'
  BY <1>0, <1>2 DEF SweptIsConfirmed, Recordable
<1> QED BY <1>1, <1>4, <1>5, <1>6, <1>7 DEF SweepInv

LEMMA SettleSweep ==
  ASSUME SweepInv, NEW p \in Push, SettleCollection(p) PROVE SweepInv'
<1>0. AirtelInv /\ PlacesAreOwn /\ SweepShaped /\ WindowRead /\ SweptIsConfirmed
  BY DEF SweepInv
<1>1. AirtelInv'
  BY <1>0, AirtelStepKeeps DEF AirtelNext
<1> DEFINE N == Cardinality(Settled)
<1>2. PICK st \in {"TS", "TF"}, legible \in BOOLEAN :
         collection' = [collection EXCEPT ![p] = [st |-> st, at |-> tick, legible |-> legible, place |-> 1 + N]]
  BY DEF SettleCollection, Settled
<1>3. UNCHANGED <<airtelRow, walk, summaryCursor, tick, airtelFaults, pastCeiling>> /\ p \notin Settled
  BY DEF SettleCollection, Settled
<1>4. collection \in [Push -> Collections] /\ tick \in 0..AirtelTicks /\ tick \in Nat
  BY <1>0, AirtelAssumption DEF PlacesAreOwn
<1>5. /\ collection'[p].at = tick /\ collection'[p].place = 1 + N /\ collection'[p].st \in {"TS", "TF"}
      /\ DOMAIN collection' = Push
      /\ \A q \in Push : q # p => collection'[q] = collection[q]
  BY <1>2, <1>4
<1>6. Settled' = Settled \cup {p}
  BY <1>3, <1>5 DEF Settled, Finished
<1>7. N \in Nat /\ Cardinality(Settled') = N + 1 /\ N + 1 <= Cardinality(Push) /\ Cardinality(Push) \in Nat
  <2>1. Settled \in SUBSET Push /\ Settled' \in SUBSET Push
    BY DEF Settled
  <2>2. IsFiniteSet(Settled) /\ IsFiniteSet(Settled') /\ Cardinality(Settled') <= Cardinality(Push)
    BY <2>1, AirtelAssumption, FS_Subset
  <2>3. N \in Nat /\ Cardinality(Push) \in Nat
    BY <2>2, AirtelAssumption, FS_CardinalityType
  <2>4. Cardinality(Settled \cup {p}) = N + 1
    BY <1>3, <2>2, FS_AddElement
  <2> QED BY <1>6, <2>2, <2>3, <2>4
<1>8. \A q \in Settled : q # p /\ q \in Push /\ collection'[q] = collection[q] /\ collection[q].place \in 1..N /\ collection[q].at <= tick
  BY <1>0, <1>3, <1>5 DEF PlacesAreOwn, Settled
<1>9. collection' \in [Push -> Collections]
  <2> DEFINE c == [st |-> st, at |-> tick, legible |-> legible, place |-> 1 + N]
  <2> HIDE DEF N
  <2>1. 1 + N \in 0..Cardinality(Push)
    BY <1>7
  <2>2. c \in Collections
    BY <1>4, <2>1 DEF Collections
  <2> HIDE DEF c
  <2>3. collection' = [collection EXCEPT ![p] = c]
    BY <1>2 DEF c
  <2> QED BY <1>4, <2>2, <2>3
<1> HIDE DEF N
<1>10. PlacesAreOwn'
  <2>1. \A q \in Settled' : collection'[q].at <= tick' /\ collection'[q].place \in 1..Cardinality(Settled')
    <3> SUFFICES ASSUME NEW q \in Settled' PROVE collection'[q].at <= tick' /\ collection'[q].place \in 1..Cardinality(Settled')
      OBVIOUS
    <3>1. CASE q = p
      BY <1>3, <1>4, <1>5, <1>7, <3>1
    <3>2. CASE q \in Settled
      BY <1>3, <1>7, <1>8, <3>2
    <3> QED BY <1>6, <3>1, <3>2
  <2>2. \A q, r \in Settled' : collection'[q].place = collection'[r].place => q = r
    <3> SUFFICES ASSUME NEW q \in Settled', NEW r \in Settled', collection'[q].place = collection'[r].place PROVE q = r
      OBVIOUS
    <3>1. \A q1 \in Settled : collection'[q1].place # 1 + N
      BY <1>7, <1>8
    <3>2. CASE q \in Settled /\ r \in Settled
      BY <1>0, <1>8, <3>2 DEF PlacesAreOwn
    <3> QED BY <1>5, <1>6, <3>1, <3>2
  <2> QED BY <1>3, <1>4, <1>9, <2>1, <2>2 DEF PlacesAreOwn
<1>11. SweepShaped'
  BY <1>0, <1>3 DEF SweepShaped
<1>12. SweptIsConfirmed'
  <2> SUFFICES ASSUME NEW q \in Push, Recordable(q)', collection'[q].at < summaryCursor, q \notin pastCeiling PROVE airtelRow[q].confirmed
    BY <1>3 DEF SweptIsConfirmed
  <2>1. q # p
    BY <1>0, <1>4, <1>5 DEF SweepShaped
  <2>2. collection'[q] = collection[q]
    BY <1>5, <2>1
  <2> QED BY <1>0, <2>2 DEF SweptIsConfirmed, Recordable
<1>13. WindowRead'
  <2> SUFFICES ASSUME walk.on
               PROVE  /\ walk.page * PageSize <= Cardinality(Walked')
                      /\ \A q \in Walked' : Recordable(q)' /\ Rank(q, Walked)' <= walk.page * PageSize => airtelRow[q].confirmed
    BY <1>3 DEF WindowRead
  <2> DEFINE a == walk.page * PageSize
  <2>1. a \in Nat
    BY <1>0, AirtelAssumption DEF SweepShaped
  <2>2. a <= Cardinality(Walked) /\ \A q \in Walked : Recordable(q) /\ Rank(q, Walked) <= a => airtelRow[q].confirmed
    BY <1>0 DEF WindowRead
  <2>3. walk.from \in Nat /\ walk.to \in Nat
    BY <1>0 DEF SweepShaped
  <2>4. IsFiniteSet(Walked) /\ Cardinality(Walked) \in Nat /\ Walked \subseteq Settled
    BY <1>0, <2>3, WindowRanked DEF Walked
  <2>5. Walked' = Walked \/ Walked' = Walked \cup {p}
    <3>1. \A q \in Push : q # p => (q \in Walked' <=> q \in Walked)
      BY <1>3, <1>5 DEF Walked, Listed, Finished
    <3>2. p \notin Walked
      BY <1>3, <2>4
    <3>3. Walked' \subseteq Push /\ Walked \subseteq Push
      BY DEF Walked, Listed
    <3> QED BY <3>1, <3>2, <3>3
  <2>6. \A q \in Walked : Rank(q, Walked)' = Rank(q, Walked)
    <3> SUFFICES ASSUME NEW q \in Walked PROVE Rank(q, Walked)' = Rank(q, Walked)
      OBVIOUS
    <3>1. \A r \in Walked : collection'[r] = collection[r] /\ collection[r].place \in 1..N
      BY <1>8, <2>4
    <3>2. p \in Walked' => ~(collection'[p].place <= collection'[q].place)
      BY <1>5, <1>7, <3>1
    <3>3. {r \in Walked' : collection'[r].place <= collection'[q].place} = {r \in Walked : collection[r].place <= collection[q].place}
      BY <2>5, <3>1, <3>2
    <3> QED BY <3>3 DEF Rank
  <2>7. CASE Walked' = Walked
    <3>1. \A q \in Walked : q \in Push /\ q # p
      BY <1>8, <2>4
    <3>2. \A q \in Walked : Recordable(q)' => Recordable(q)
      BY <1>5, <3>1 DEF Recordable
    <3> QED BY <2>2, <2>6, <2>7, <3>2
  <2>8. CASE Walked' = Walked \cup {p}
    <3>1. p \notin Walked
      BY <1>3, <2>4
    <3>2. Cardinality(Walked') = Cardinality(Walked) + 1
      BY <2>4, <2>8, <3>1, FS_AddElement
    <3>3. Rank(p, Walked)' = Cardinality(Walked')
      <4>1. \A r \in Walked' : collection'[r].place <= collection'[p].place
        BY <1>5, <1>7, <1>8, <2>4, <2>8
      <4>2. {r \in Walked' : collection'[r].place <= collection'[p].place} = Walked'
        BY <4>1
      <4> QED BY <4>2 DEF Rank
    <3>4. ~(Rank(p, Walked)' <= a)
      BY <2>1, <2>2, <2>4, <3>2, <3>3
    <3>5. \A q \in Walked : Recordable(q)' => Recordable(q)
      <4>1. \A q \in Walked : q \in Push /\ q # p
        BY <1>8, <2>4
      <4> QED BY <1>5, <4>1 DEF Recordable
    <3>6. a <= Cardinality(Walked')
      BY <2>1, <2>2, <2>4, <3>2
    <3> HIDE DEF a
    <3>7. \A q \in Walked' : Recordable(q)' /\ Rank(q, Walked)' <= a => airtelRow[q].confirmed
      <4> SUFFICES ASSUME NEW q \in Walked', Recordable(q)', Rank(q, Walked)' <= a PROVE airtelRow[q].confirmed
        OBVIOUS
      <4>1. CASE q = p BY <3>4, <4>1
      <4>2. CASE q \in Walked BY <2>2, <2>6, <3>5, <4>2
      <4> QED BY <2>8, <4>1, <4>2
    <3> QED BY <3>6, <3>7 DEF a
  <2> QED BY <2>5, <2>7, <2>8
<1> QED BY <1>1, <1>10, <1>11, <1>12, <1>13 DEF SweepInv

LEMMA StartSweep ==
  ASSUME SweepInv, StartSummary PROVE SweepInv'
<1>0. AirtelInv /\ PlacesAreOwn /\ SweepShaped /\ WindowRead /\ SweptIsConfirmed
  BY DEF SweepInv
<1>1. AirtelInv'
  BY <1>0, AirtelStepKeeps DEF AirtelNext
<1>2. /\ walk' = [on |-> TRUE, from |-> summaryCursor, to |-> tick, page |-> 0]
      /\ UNCHANGED <<collection, airtelRow, summaryCursor, tick, airtelFaults, pastCeiling>>
  BY DEF StartSummary
<1>3. PlacesAreOwn' /\ SweptIsConfirmed'
  <2>1. Settled' = Settled
    BY <1>2 DEF Settled, Finished
  <2> QED BY <1>0, <1>2, <2>1 DEF PlacesAreOwn, SweptIsConfirmed, Recordable
<1>4. tick \in Nat /\ tick \in 0..AirtelTicks /\ summaryCursor \in Nat /\ summaryCursor \in 0..AirtelTicks
  BY <1>0, AirtelAssumption DEF PlacesAreOwn, SweepShaped
<1>5. SweepShaped'
  BY <1>0, <1>2, <1>4, AirtelAssumption DEF SweepShaped
<1>6. WindowRead'
  <2> DEFINE L == Listed(summaryCursor, tick)
  <2>1. Walked' = L
    BY <1>2 DEF Walked, Listed, Finished
  <2>2. Cardinality(L) \in Nat /\ \A p \in L : Rank(p, L) \in 1..Cardinality(L)
    BY <1>0, <1>4, WindowRanked
  <2>3. 0 * PageSize = 0
    BY AirtelAssumption
  <2> HIDE DEF L
  <2>4. \A p \in L : ~(Rank(p, L) <= 0)
    BY <2>2
  <2>5. \A p \in L : Rank(p, Walked)' = Rank(p, L)
    BY <1>2, <2>1 DEF Rank
  <2> QED BY <1>2, <2>1, <2>2, <2>3, <2>4, <2>5 DEF WindowRead
<1> QED BY <1>1, <1>3, <1>5, <1>6 DEF SweepInv

LEMMA Pages ==
  ASSUME NEW m \in Nat, NEW n \in Nat, NEW s \in Nat, m < n PROVE (m + 1) * s <= n * s
<1>1. PICK d \in Nat : n = m + 1 + d
  <2>1. n - (m + 1) \in Nat /\ n = m + 1 + (n - (m + 1))
    OBVIOUS
  <2> QED BY <2>1
<1>2. n * s = (m + 1) * s + d * s /\ d * s \in Nat /\ (m + 1) * s \in Nat
  BY <1>1
<1> QED BY <1>2

\* A page read to the end confirms its part of the window; the last one leaves
\* nothing behind but what the ceiling cut off.
LEMMA ReadSweep ==
  ASSUME SweepInv, ReadPage PROVE SweepInv'
<1>0. AirtelInv /\ PlacesAreOwn /\ SweepShaped /\ WindowRead /\ SweptIsConfirmed
  BY DEF SweepInv
<1>1. AirtelInv'
  BY <1>0, AirtelStepKeeps DEF AirtelNext
<1> DEFINE E == SummaryPage(walk.from, walk.to, walk.page)
           a == walk.page * PageSize
<1>2. walk.on /\ airtelRow' = Recorded(E) /\ UNCHANGED <<collection, tick, airtelFaults>>
  BY DEF ReadPage
<1>3. /\ walk \in [on : BOOLEAN, from : 0..AirtelTicks, to : 0..AirtelTicks, page : 0..(MaxPages - 1)]
      /\ walk.from \in Nat /\ walk.to \in Nat /\ walk.page \in Nat /\ walk.from = summaryCursor
      /\ walk.to <= tick /\ tick \in Nat
  BY <1>0, <1>2, AirtelAssumption DEF SweepShaped, PlacesAreOwn
<1>4. /\ Cardinality(Walked) \in Nat
      /\ \A p \in Walked : Rank(p, Walked) \in 1..Cardinality(Walked) /\ p \in Push
      /\ Cardinality(E) < PageSize <=> Cardinality(Walked) < (walk.page + 1) * PageSize
  <2>1. \A p \in Walked : Rank(p, Walked) \in 1..Cardinality(Walked)
    BY <1>0, <1>3, WindowRanked DEF Walked
  <2>2. Cardinality(Walked) \in Nat /\ Walked \subseteq Push
    BY <1>0, <1>3, WindowRanked DEF Walked
  <2>3. Cardinality(E) < PageSize <=> Cardinality(Walked) < (walk.page + 1) * PageSize
    BY <1>0, <1>3, WindowRanked DEF Walked
  <2> QED BY <2>1, <2>2, <2>3
<1>5. a \in Nat /\ (walk.page + 1) * PageSize = a + PageSize /\ PageSize \in Nat
  BY <1>3, AirtelAssumption
<1>6. \A p \in Push : airtelRow[p].confirmed => airtelRow'[p].confirmed
  BY <1>0, ConfirmedStays DEF AirtelNext
<1>7. \A p \in Walked : p \in E <=> Rank(p, Walked) \in (a + 1)..(a + PageSize)
  BY <1>5 DEF SummaryPage, Walked
<1>8. \A p \in Walked : Recordable(p) /\ Rank(p, Walked) <= a => airtelRow[p].confirmed
  BY <1>0, <1>2 DEF WindowRead
<1>9. \A p \in Push : p \in E /\ Recordable(p) => airtelRow'[p].confirmed
  <2> HIDE DEF E
  <2> QED BY <1>0, <1>2, RecordedConfirms
<1>10. \A p \in Walked : Recordable(p) /\ Rank(p, Walked) <= a + PageSize => airtelRow'[p].confirmed
  <2> SUFFICES ASSUME NEW p \in Walked, Recordable(p), Rank(p, Walked) <= a + PageSize PROVE airtelRow'[p].confirmed
    OBVIOUS
  <2> HIDE DEF E, a
  <2>1. CASE Rank(p, Walked) <= a
    BY <1>4, <1>6, <1>8, <2>1
  <2>2. CASE ~(Rank(p, Walked) <= a)
    <3>1. Rank(p, Walked) \in (a + 1)..(a + PageSize)
      BY <1>4, <1>5, <2>2
    <3> QED BY <1>4, <1>7, <1>9, <3>1
  <2> QED BY <2>1, <2>2
<1>11. PlacesAreOwn'
  <2>1. Settled' = Settled
    BY <1>2 DEF Settled, Finished
  <2> QED BY <1>0, <1>2, <2>1 DEF PlacesAreOwn
<1>12. ASSUME ~WalkEnds(E), walk' = [walk EXCEPT !.page = walk.page + 1], UNCHANGED <<summaryCursor, pastCeiling>>
       PROVE  SweepInv'
  <2>1. ~(Cardinality(E) < PageSize) /\ walk.page + 1 # MaxPages
    BY <1>12 DEF WalkEnds
  <2>2. /\ walk'.on = walk.on /\ walk'.from = walk.from /\ walk'.to = walk.to /\ walk'.page = walk.page + 1
        /\ walk' \in [on : BOOLEAN, from : 0..AirtelTicks, to : 0..AirtelTicks, page : 0..(MaxPages - 1)]
    BY <1>3, <1>12, <2>1, AirtelAssumption
  <2>3. SweepShaped'
    BY <1>0, <1>2, <1>12, <2>2 DEF SweepShaped
  <2>4. Walked' = Walked
    BY <1>2, <2>2 DEF Walked, Listed, Finished
  <2>5. \A p \in Walked : Rank(p, Walked)' = Rank(p, Walked)
    BY <1>2, <2>4 DEF Rank
  <2>6. WindowRead'
    <3>1. walk'.page * PageSize = a + PageSize
      BY <1>5, <2>2
    <3>2. a + PageSize <= Cardinality(Walked)
      <4> HIDE DEF a, E
      <4> QED BY <1>4, <1>5, <2>1
    <3> HIDE DEF a, E
    <3>3. \A p \in Walked : Recordable(p)' = Recordable(p)
      BY <1>2 DEF Recordable
    <3> QED BY <1>10, <2>4, <2>5, <3>1, <3>2, <3>3 DEF WindowRead
  <2>7. SweptIsConfirmed'
    BY <1>0, <1>2, <1>6, <1>12 DEF SweptIsConfirmed, Recordable
  <2> QED BY <1>1, <1>11, <2>3, <2>6, <2>7 DEF SweepInv
<1>13. ASSUME walk' = NoWalk, summaryCursor' = walk.to, pastCeiling' = pastCeiling \cup Unread
       PROVE  SweepInv'
  <2>1. Unread \subseteq Push
    BY DEF Unread, Listed
  <2>2. SweepShaped'
    BY <1>0, <1>2, <1>3, <1>13, <2>1, AirtelAssumption DEF SweepShaped, NoWalk
  <2>3. WindowRead'
    BY <1>13 DEF WindowRead, NoWalk
  <2>4. SweptIsConfirmed'
    <3> SUFFICES ASSUME NEW p \in Push, Recordable(p), collection[p].at < walk.to, p \notin pastCeiling, p \notin Unread
                 PROVE  airtelRow'[p].confirmed
      BY <1>2, <1>13 DEF SweptIsConfirmed, Recordable
    <3>1. CASE collection[p].at < summaryCursor
      BY <1>0, <1>6, <3>1 DEF SweptIsConfirmed
    <3>2. CASE ~(collection[p].at < summaryCursor)
      <4>1. collection[p].at \in Nat
        <5>1. collection[p] \in Collections
          BY <1>0 DEF PlacesAreOwn
        <5> QED BY <5>1, AirtelAssumption DEF Collections
      <4>2. p \in Walked
        BY <1>3, <3>2, <4>1 DEF Walked, Listed, Recordable, Finished
      <4>3. PICK n \in 0..walk.page : p \in SummaryPage(walk.from, walk.to, n)
        BY <4>2 DEF Unread, Walked
      <4>4. Rank(p, Walked) <= (n + 1) * PageSize
        BY <1>3, <1>5, <4>3 DEF SummaryPage, Walked
      <4>5. Rank(p, Walked) <= a + PageSize
        <5>1. CASE n = walk.page
          BY <1>5, <4>4, <5>1
        <5>2. CASE n # walk.page
          <6>1. n \in Nat /\ n < walk.page
            BY <1>3, <5>2
          <6>2. (n + 1) * PageSize <= a
            BY <1>3, <1>5, <6>1, Pages
          <6>3. (n + 1) * PageSize \in Nat /\ Rank(p, Walked) \in Nat
            BY <1>4, <1>5, <4>2, <6>1
          <6> HIDE DEF a
          <6> QED BY <1>5, <4>4, <6>2, <6>3
        <5> QED BY <5>1, <5>2
      <4> QED BY <1>10, <4>2, <4>5
    <3> QED BY <3>1, <3>2
  <2> QED BY <1>1, <1>11, <2>2, <2>3, <2>4 DEF SweepInv
<1> QED BY <1>12, <1>13 DEF ReadPage, AdvanceSummary

LEMMA FailSweep ==
  ASSUME SweepInv, FailPage PROVE SweepInv'
<1>0. AirtelInv /\ PlacesAreOwn /\ SweepShaped /\ WindowRead /\ SweptIsConfirmed
  BY DEF SweepInv
<1>1. AirtelInv'
  BY <1>0, AirtelStepKeeps DEF AirtelNext
<1>2. /\ walk' = NoWalk /\ UNCHANGED <<collection, tick, pastCeiling, summaryCursor>>
      /\ airtelFaults < AirtelFaults /\ airtelFaults' = airtelFaults + 1
  BY DEF FailPage, AdvanceSummary
<1>3. \A p \in Push : airtelRow[p].confirmed => airtelRow'[p].confirmed
  BY <1>0, ConfirmedStays DEF AirtelNext
<1>4. PlacesAreOwn' /\ SweptIsConfirmed'
  <2>1. Settled' = Settled
    BY <1>2 DEF Settled, Finished
  <2> QED BY <1>0, <1>2, <1>3, <2>1 DEF PlacesAreOwn, SweptIsConfirmed, Recordable
<1>5. SweepShaped' /\ WindowRead'
  BY <1>0, <1>2, AirtelAssumption DEF SweepShaped, WindowRead, NoWalk
<1> QED BY <1>1, <1>4, <1>5 DEF SweepInv

LEMMA SweepSteps == SweepInv /\ [AirtelNext]_airtelVars => SweepInv'
<1> SUFFICES ASSUME SweepInv, [AirtelNext]_airtelVars PROVE SweepInv'
  OBVIOUS
<1>0. airtelFaults \in 0..AirtelFaults /\ tick \in 0..AirtelTicks /\ tick \in Nat
  BY AirtelAssumption DEF SweepInv, SweepShaped, PlacesAreOwn
<1>1. CASE UNCHANGED <<collection, walk, summaryCursor, pastCeiling, airtelFaults, tick>>
  BY <1>0, <1>1, RowsSweep
<1>2. CASE AirtelTick
  <2>1. UNCHANGED <<collection, walk, summaryCursor, pastCeiling, airtelFaults>> /\ tick' = tick + 1 /\ tick' \in 0..AirtelTicks
    BY <1>0, <1>2, AirtelAssumption DEF AirtelTick
  <2> QED BY <1>0, <2>1, RowsSweep
<1>3. CASE \E p \in Push : CollectionCallback(p) \/ Enquire(p) \/ ApplyAirtel(p)
  BY <1>1, <1>3 DEF CollectionCallback, Enquire, ApplyAirtel
<1> QED BY <1>1, <1>2, <1>3, SettleSweep, StartSweep, ReadSweep, FailSweep DEF AirtelNext, airtelVars

LEMMA SweepShows == SweepInv => AirtelTypeOK /\ ConfirmedIsFinal /\ SweptIsConfirmed
<1> SUFFICES ASSUME SweepInv PROVE AirtelTypeOK /\ ConfirmedIsFinal
  BY DEF SweepInv
<1>1. AirtelInv /\ PlacesAreOwn /\ SweepShaped
  BY DEF SweepInv
<1>2. AirtelTypeOK
  BY <1>1 DEF AirtelInv, AirtelRows, PlacesAreOwn, Collections, SweepShaped, AirtelTypeOK
<1>3. ConfirmedIsFinal
  BY <1>1 DEF AirtelInv, RowAgrees, ConfirmedIsFinal
<1> QED BY <1>2, <1>3

-----------------------------------------------------------------------------
(* The vault watcher and screening (VaultWatch) *)

LEMMA NewestIs ==
  ASSUME NEW L \in Nat, NEW ns \in SUBSET (1..L), ns # {}
  PROVE  Newest(ns) \in ns /\ \A m \in ns : m <= Newest(ns)
<1> DEFINE T == {L - n : n \in ns}
<1>1. T \in SUBSET Nat
  <2>1. \A n \in ns : L - n \in Nat
    OBVIOUS
  <2> QED  BY <2>1
<1>2. T # {}
  OBVIOUS
<1>3. \A n \in ns : L - n \in T
  OBVIOUS
<1>4. PICK x \in T : \A y \in T : x <= y
  BY <1>1, <1>2, LeastOf
<1>5. PICK n \in ns : x = L - n
  BY <1>4
<1>6. \A m \in ns : m <= n
  <2> TAKE m \in ns
  <2>1. L - n <= L - m
    BY <1>3, <1>4, <1>5
  <2> QED  BY <2>1
<1> QED BY <1>6 DEF Newest

Mirrors == [deadline : Deadlines, level : 0..2]
ScreeningRows == [st : {"none", "queued", "screened", "failed"}, tries : 0..Tries]

\* Events keep the order of their ledgers, and the cursor is seeded once.
EventsInOrder ==
  /\ events \in Seq([at : Int, what : What]) /\ Len(events) <= MaxEvents
  /\ ledger \in Nat \ {0}
  /\ \A n \in 1..Len(events) : events[n].at \in 2..ledger
  /\ \A m, n \in 1..Len(events) : m <= n => events[m].at <= events[n].at
CursorSeeded ==
  /\ watchCursor \in 0..(ledger + 1) /\ seed \in 0..ledger
  /\ watchCursor = 0 => seed = 0
  /\ cut \subseteq 1..Len(events)

\* A row that waits has a try left.
RowsWait ==
  /\ screening \in [1..MaxEvents -> ScreeningRows]
  /\ \A n \in 1..MaxEvents : screening[n].st \in {"none", "queued"} => screening[n].tries < Tries

WatchShaped ==
  /\ exit \in Mirrors /\ now \in 0..MaxNow /\ held \in {NotHeld} \cup Deadlines
  /\ watchFaults \in 0..WatchFaults /\ warned \in SUBSET {1, 2}
  /\ rewarned \in BOOLEAN /\ unmirrored \in BOOLEAN

\* Without a fault, what was warned of is written on the row.
WarnedIsWritten == watchFaults = 0 => \A w \in warned : w <= exit.level

WatchInv ==
  /\ EventsInOrder /\ CursorSeeded /\ RowsWait /\ WatchShaped
  /\ PassedIsQueued /\ MirrorFollows /\ WarnedIsWritten /\ WarnedOnce

\* The events from the cursor's ledger on follow those before it.
LEMMA FromIs ==
  ASSUME EventsInOrder, CursorSeeded
  PROVE  /\ Before \in 0..Len(events)
         /\ \A n \in 1..Len(events) : n <= Before <=> events[n].at < watchCursor
<1> DEFINE D == {n \in 1..Len(events) : events[n].at < watchCursor}
           U == {k \in 1..(Len(events) + 1) : k \notin D}
<1>0. Len(events) \in Nat /\ watchCursor \in Int /\ \A n \in 1..Len(events) : events[n].at \in Int
  BY DEF EventsInOrder, CursorSeeded
<1>1. Len(events) + 1 \in U /\ U \in SUBSET Nat
  BY <1>0
<1>2. PICK k \in U : \A j \in U : k <= j
  BY <1>1, LeastOf
<1>3. k \in 1..(Len(events) + 1) /\ k \notin D
  OBVIOUS
<1>4. ASSUME NEW n \in 1..Len(events) PROVE n \in D <=> n <= k - 1
  <2>1. CASE n <= k - 1
    <3>1. n \notin U
      BY <1>0, <1>2, <1>3, <2>1
    <3> QED  BY <1>0, <2>1, <3>1
  <2>2. CASE ~(n <= k - 1)
    <3>1. k <= n /\ k \in 1..Len(events)
      BY <1>0, <1>3, <2>2
    <3>2. events[k].at <= events[n].at
      BY <3>1 DEF EventsInOrder
    <3>3. ~(events[k].at < watchCursor)
      BY <1>3, <3>1
    <3>4. ~(events[n].at < watchCursor)
      BY <1>0, <3>1, <3>2, <3>3
    <3> QED  BY <1>0, <2>2, <3>4
  <2> QED  BY <2>1, <2>2
<1>5. D = 1..(k - 1)
  <2>1. \A n \in D : n \in 1..(k - 1)
    BY <1>0, <1>3, <1>4
  <2>2. \A n \in 1..(k - 1) : n \in D
    BY <1>0, <1>3, <1>4
  <2> QED  BY <2>1, <2>2
<1>6. Cardinality(1..(k - 1)) = k - 1
  <2>1. k - 1 \in Int /\ 1 \in Int
    BY <1>0, <1>3
  <2>2. Cardinality(1..(k - 1)) = IF 1 > k - 1 THEN 0 ELSE (k - 1) - 1 + 1
    BY <2>1, FS_Interval
  <2> QED  BY <1>0, <1>3, <2>2
<1>7. Before = k - 1
  BY <1>5, <1>6 DEF Before
<1>8. \A n \in 1..Len(events) : n <= Before <=> events[n].at < watchCursor
  BY <1>4, <1>7
<1> QED  BY <1>0, <1>3, <1>7, <1>8

LEMMA FromLedger ==
  ASSUME EventsInOrder, CursorSeeded, NEW n \in 1..Len(events)
  PROVE  n \in From <=> watchCursor <= events[n].at
<1>1. Len(events) \in Nat /\ watchCursor \in Int /\ events[n].at \in Int
  BY DEF EventsInOrder, CursorSeeded
<1>2. Before \in 0..Len(events) /\ (n <= Before <=> events[n].at < watchCursor)
  BY FromIs
<1> QED  BY <1>1, <1>2 DEF From

LEMMA PagesAre ==
  ASSUME EventsInOrder, CursorSeeded
  PROVE  /\ Page \subseteq From /\ From \subseteq 1..Len(events)
         /\ \A n \in Page, m \in From : m < n => m \in Page
<1>1. Len(events) \in Nat /\ Before \in 0..Len(events)
  BY FromIs DEF EventsInOrder
<1>2. From \subseteq 1..Len(events)
  BY <1>1 DEF From
<1>3. ASSUME NEW n \in Page, NEW m \in From, m < n PROVE m \in Page
  BY <1>1, <1>3, VaultWatchAssumption DEF Page, From
<1> QED  BY <1>2, <1>3 DEF Page

LEMMA EventsAre ==
  ASSUME EventsInOrder
  PROVE  /\ Len(events) \in Nat
         /\ \A n \in 1..Len(events) : events[n] \in [at : Int, what : What] /\ events[n].at \in Int /\ events[n].what \in What
<1> DEFINE E == [at : Int, what : What]
<1>1. events \in Seq(E)
  BY DEF EventsInOrder
<1>2. \A e \in E : e.at \in Int /\ e.what \in What
  OBVIOUS
<1> HIDE DEF E
<1>3. Len(events) \in Nat /\ \A n \in 1..Len(events) : events[n] \in E
  BY <1>1
<1> QED  BY <1>2, <1>3 DEF E

\* The page's deadline, mirrored: what the newest event says.
LEMMA MirrorIs ==
  ASSUME EventsInOrder, exit \in Mirrors, NEW ns \in SUBSET (1..Len(events))
  PROVE  /\ Mirrored(ns) \in Mirrors
         /\ ns \cap DeadlineEvents = {} => Mirrored(ns) = exit
         /\ ns \cap DeadlineEvents # {} => 
              Mirrored(ns).deadline = events[Newest(ns \cap DeadlineEvents)].what
<1> DEFINE ds == ns \cap DeadlineEvents
           newest == Newest(ds)
           says == events[newest].what
           sent == SetExitDeadline(exit, says)
<1>1. CASE ds = {}
  BY <1>1 DEF Mirrored
<1>2. CASE ds # {}
  <2>0. Len(events) \in Nat /\ ds \in SUBSET (1..Len(events))
    BY EventsAre
  <2> HIDE DEF ds
  <2>1. newest \in ds
    BY <1>2, <2>0, NewestIs
  <2>2. says \in Deadlines
    <3> HIDE DEF newest
    <3>1. newest \in 1..Len(events) /\ events[newest].what # Funds
      BY <2>1 DEF ds, DeadlineEvents
    <3>3. events[newest].what \in What
      BY <3>1, EventsAre
    <3> QED  BY <3>1, <3>3 DEF What, newest
  <2> HIDE DEF newest, says
  <2>3. sent \in Mirrors /\ sent.deadline = says
    BY <2>2 DEF SetExitDeadline, Mirrors
  <2> HIDE DEF sent
  <2>4. \E changed \in BOOLEAN : Mirrored(ns) = [sent EXCEPT !.level = IF changed THEN 0 ELSE @]
    BY <1>2 DEF Mirrored, sent, says, newest, ds
  <2>5. \A changed \in BOOLEAN :
          /\ [sent EXCEPT !.level = IF changed THEN 0 ELSE @] \in Mirrors
          /\ [sent EXCEPT !.level = IF changed THEN 0 ELSE @].deadline = sent.deadline
    BY <2>3 DEF Mirrors
  <2> HIDE DEF ds
  <2>6. Mirrored(ns) \in Mirrors /\ Mirrored(ns).deadline = says
    BY <2>3, <2>4, <2>5
  <2> QED  BY <1>2, <2>6 DEF ds, says, newest
<1> QED  BY <1>1, <1>2

\* The levels a tick warns of are above what the row says, and both only when the
\* nearer could not be written.
LEMMA LevelsAre ==
  ASSUME NEW mirror \in Mirrors, NEW failing
  PROVE  /\ Levels(mirror, failing) \in {{}, {1}, {2}, {1, 2}}
         /\ Levels(mirror, failing) = {1, 2} => 2 \in failing
         /\ \A l \in Levels(mirror, failing) : mirror.level < l
<1>1. mirror.level \in 0..2
  BY DEF Mirrors
<1>2. CASE Closing(2, mirror) /\ 2 \in failing /\ Closing(1, mirror)
  <2>1. Levels(mirror, failing) = {1, 2}
    BY <1>2 DEF Levels
  <2> QED  BY <1>2, <2>1 DEF Closing
<1>3. CASE Closing(2, mirror) /\ ~(2 \in failing /\ Closing(1, mirror))
  <2>1. Levels(mirror, failing) = {2}
    BY <1>3 DEF Levels
  <2> QED  BY <1>3, <2>1 DEF Closing
<1>4. CASE ~Closing(2, mirror) /\ Closing(1, mirror)
  <2>1. Levels(mirror, failing) = {1}
    BY <1>4 DEF Levels
  <2> QED  BY <1>4, <2>1 DEF Closing
<1>5. CASE ~Closing(2, mirror) /\ ~Closing(1, mirror)
  <2>1. Levels(mirror, failing) = {}
    BY <1>5 DEF Levels
  <2> QED  BY <2>1
<1> QED  BY <1>2, <1>3, <1>4, <1>5

LEMMA WrittenIs ==
  ASSUME NEW mirror \in Mirrors, NEW levels \in SUBSET {1, 2}
  PROVE  /\ Written(mirror, levels) \in Mirrors
         /\ Written(mirror, levels).deadline = mirror.deadline
         /\ levels = {} => Written(mirror, levels) = mirror
         /\ \A l \in {1, 2} : levels = {l} => Written(mirror, levels).level = l
<1>1. CASE levels = {}
  BY <1>1 DEF Written
<1>2. CASE levels # {}
  <2> DEFINE least == CHOOSE l \in levels : \A k \in levels : l <= k
  <2>1. \E l \in levels : \A k \in levels : l <= k
    <3>1. CASE 1 \in levels
      BY <3>1
    <3>2. CASE 1 \notin levels
      <4>1. levels = {2}
        BY <1>2, <3>2
      <4>2. 2 \in levels /\ \A k \in levels : 2 <= k
        BY <4>1
      <4> QED  BY <4>2
    <3> QED  BY <3>1, <3>2
  <2>2. least \in levels
    BY <2>1
  <2>3. \A l \in {1, 2} : levels = {l} => least = l
    BY <2>2
  <2>4. Written(mirror, levels) = [mirror EXCEPT !.level = least]
    BY <1>2 DEF Written
  <2> HIDE DEF least
  <2>5. least \in 0..2
    BY <2>2
  <2>6. /\ [mirror EXCEPT !.level = least] \in Mirrors
        /\ [mirror EXCEPT !.level = least].deadline = mirror.deadline
        /\ [mirror EXCEPT !.level = least].level = least
    BY <2>5 DEF Mirrors
  <2> QED  BY <1>2, <2>3, <2>4, <2>6
<1> QED  BY <1>1, <1>2

\* A tick's warnings: the row keeps its deadline, and without a fault each level
\* is told once and written.
LEMMA WarnKeeps ==
  ASSUME WatchShaped, WarnedIsWritten, WarnedOnce, NEW mirror \in Mirrors, NEW failing,
         NEW levels, levels = Levels(mirror, failing), failing \subseteq levels, Warn(mirror, levels, failing),
         NEW more \in Nat, watchFaults' = watchFaults + more, more = 0 => failing = {},
         watchFaults' <= WatchFaults
  PROVE  /\ exit' \in Mirrors /\ exit'.deadline = mirror.deadline
         /\ watchFaults' \in 0..WatchFaults /\ warned' \in SUBSET {1, 2} /\ rewarned' \in BOOLEAN
         /\ WarnedIsWritten' /\ WarnedOnce'
<1>1. levels \in {{}, {1}, {2}, {1, 2}} /\ (levels = {1, 2} => 2 \in failing)
      /\ \A l \in levels : mirror.level < l
  BY LevelsAre
<1>2. levels \ failing \in SUBSET {1, 2}
  BY <1>1
<1>3. exit' = Written(mirror, levels \ failing)
  BY DEF Warn
<1>4. exit' \in Mirrors /\ exit'.deadline = mirror.deadline
  BY <1>2, <1>3, WrittenIs
<1>5. warned' = levels \cup (IF mirror = exit THEN warned ELSE {})
      /\ (rewarned' <=> (rewarned \/ levels = {1, 2}
                        \/ (mirror = exit /\ \E l \in levels, w \in warned : l <= w)))
  BY DEF Warn
<1>6. warned' \in SUBSET {1, 2} /\ rewarned' \in BOOLEAN
  <2>1. rewarned' \in BOOLEAN
    BY Zenon DEF Warn, WatchShaped
  <2> QED  BY <1>1, <1>5, <2>1 DEF WatchShaped
<1>7. watchFaults \in Nat /\ watchFaults' \in 0..WatchFaults /\ (watchFaults' = 0 => watchFaults = 0 /\ more = 0)
  BY VaultWatchAssumption DEF WatchShaped
<1>8. ASSUME watchFaults' = 0
      PROVE  (\A w \in warned' : w <= exit'.level) /\ ~rewarned'
  <2>1. watchFaults = 0 /\ failing = {} /\ levels \in {{}, {1}, {2}}
    BY <1>1, <1>7, <1>8
  <2>2. levels \ failing = levels /\ ~rewarned /\ \A w \in warned : w <= exit.level
    BY <2>1 DEF WarnedIsWritten, WarnedOnce
  <2>3. exit \in Mirrors /\ exit.level \in 0..2 /\ mirror.level \in 0..2 /\ warned \subseteq {1, 2}
    BY DEF WatchShaped, Mirrors
  <2>4. CASE levels = {}
    <3>1. exit' = mirror
      BY <1>3, <2>2, <2>4, WrittenIs
    <3> QED  BY <1>5, <2>2, <2>4, <3>1
  <2>5. ASSUME NEW l \in {1, 2}, levels = {l}
        PROVE  (\A w \in warned' : w <= exit'.level) /\ ~rewarned'
    <3>1. exit'.level = l /\ mirror.level < l
      BY <1>1, <1>2, <1>3, <2>2, <2>5, WrittenIs
    <3>2. mirror = exit => \A w \in warned : w < l
      BY <2>2, <2>3, <3>1
    <3>3. ~rewarned'
      BY <1>5, <2>2, <2>3, <2>5, <3>2
    <3>4. \A w \in warned' : w <= l
      BY <1>5, <2>3, <2>5, <3>2
    <3> QED  BY <3>1, <3>3, <3>4
  <2> QED  BY <2>1, <2>4, <2>5
<1>9. WarnedIsWritten'
  BY <1>8 DEF WarnedIsWritten
<1>10. WarnedOnce'
  BY <1>7, <1>8 DEF WarnedOnce
<1> QED  BY <1>4, <1>6, <1>7, <1>9, <1>10
\* Queueing touches only deposits not yet known.
LEMMA EnqueueIs ==
  ASSUME NEW s \in ScreeningRows, s.st \in {"none", "queued"} => s.tries < Tries
  PROVE  /\ Enqueue(s) \in ScreeningRows /\ Enqueue(s).st # "none"
         /\ Enqueue(s).st \in {"none", "queued"} => Enqueue(s).tries < Tries
         /\ s.st # "none" => Enqueue(s) = s
<1>1. CASE s.st = "none"
  <2>1. Enqueue(s) = [s EXCEPT !.st = "queued"]
    BY <1>1 DEF Enqueue
  <2>2. Enqueue(s) \in ScreeningRows /\ Enqueue(s).st = "queued" /\ Enqueue(s).tries = s.tries
    BY <2>1 DEF ScreeningRows
  <2> QED  BY <1>1, <2>2
<1>2. CASE s.st # "none"
  BY <1>2 DEF Enqueue
<1> QED  BY <1>1, <1>2

LEMMA QueuedIs ==
  ASSUME RowsWait, EventsInOrder, NEW ns, screening' = Queued(ns)
  PROVE  /\ RowsWait'
         /\ \A n \in 1..MaxEvents : screening[n].st # "none" => screening'[n] = screening[n]
         /\ \A n \in 1..MaxEvents : n \in ns /\ n \in Deposits => screening'[n].st # "none"
<1>1. screening' = [n \in 1..MaxEvents |->
          IF n \in ns /\ n \in Deposits THEN Enqueue(screening[n]) ELSE screening[n]]
  BY DEF Queued
<1>2. ASSUME NEW n \in 1..MaxEvents
      PROVE  /\ screening'[n] \in ScreeningRows
             /\ screening'[n].st \in {"none", "queued"} => screening'[n].tries < Tries
             /\ screening[n].st # "none" => screening'[n] = screening[n]
             /\ n \in ns /\ n \in Deposits => screening'[n].st # "none"
  <2>1. screening[n] \in ScreeningRows /\ (screening[n].st \in {"none", "queued"} => screening[n].tries < Tries)
    BY DEF RowsWait
  <2>2. CASE n \in ns /\ n \in Deposits
    <3>1. screening'[n] = Enqueue(screening[n])
      BY <1>1, <2>2
    <3> QED  BY <2>1, <3>1, EnqueueIs, Zenon
  <2>3. CASE ~(n \in ns /\ n \in Deposits)
    <3>1. screening'[n] = screening[n]
      BY <1>1, <2>3
    <3> QED  BY <2>1, <2>3, <3>1, Zenon
  <2> QED  BY <2>2, <2>3
<1>3. screening' \in [1..MaxEvents -> ScreeningRows]
  BY <1>1, <1>2
<1>4. RowsWait'
  BY <1>2, <1>3 DEF RowsWait
<1> QED  BY <1>2, <1>4

\* The newest of a set of positions is its upper bound.
LEMMA NewestOf ==
  ASSUME NEW L \in Nat, NEW ns \in SUBSET (1..L), NEW top \in ns, \A m \in ns : m <= top
  PROVE  Newest(ns) = top
<1> DEFINE n == Newest(ns)
<1>1. n \in ns /\ \A m \in ns : m <= n
  <2>1. ns # {}
    OBVIOUS
  <2> QED  BY <2>1, NewestIs
<1> HIDE DEF n
<1>2. top <= n /\ n <= top /\ top \in 1..L /\ n \in 1..L
  BY <1>1
<1> QED  BY <1>2 DEF n

\* A tick that inspected what the cursor moves over: the deposits among it are
\* queued, and the mirror says what the newest event it passed says.
LEMMA TickQueues ==
  ASSUME WatchInv, NEW seen \in SUBSET Page, NEW kept \in SUBSET seen, screening' = Queued(kept),
         UNCHANGED <<events, ledger, seed>>, NEW c \in Int, watchCursor' = c, 
         cut \subseteq cut',
         \A n \in From : events[n].at < c => n \in seen \/ n \in cut',
         \A n \in seen : n \in Deposits => n \in kept \/ n \in cut'
  PROVE  PassedIsQueued' /\ \A n \in Passed' : n \in seen \/ (n \in Passed /\ n \notin From)
<1>0. EventsInOrder /\ CursorSeeded /\ RowsWait /\ PassedIsQueued
  BY DEF WatchInv
<1>1. \A n \in Passed' : n \in seen \/ (n \in Passed /\ n \notin From)
  <2> TAKE n \in Passed'
  <2>1. n \in 1..Len(events) /\ seed # 0 /\ events[n].at \in seed..(c - 1) /\ n \notin cut'
    BY DEF Passed
  <2>2. watchCursor \in Int /\ seed \in Int /\ events[n].at \in Int
    BY <1>0, <2>1, EventsAre DEF CursorSeeded
  <2>2a. EventsInOrder /\ CursorSeeded => ledger \in Nat /\ watchCursor \in 0..(ledger + 1) /\ seed \in 0..ledger
    BY DEF EventsInOrder, CursorSeeded
  <2>3. CASE n \in From
    BY <2>1, <2>2, <2>3
  <2>4. CASE n \notin From
    <3>1. events[n].at < watchCursor
      BY <1>0, <2>1, <2>2, <2>4, FromLedger
    <3> QED  BY <2>1, <2>2, <2>4, <3>1 DEF Passed
  <2> QED  BY <2>3, <2>4
<1>2. PassedIsQueued'
  <2> SUFFICES ASSUME NEW n \in Passed', n \in Deposits' PROVE screening'[n].st # "none"
    BY DEF PassedIsQueued
  <2>1. n \in Deposits /\ n \in 1..MaxEvents
    <3>1. n \in Deposits /\ n \in 1..Len(events) /\ Len(events) \in Nat /\ Len(events) <= MaxEvents
      BY <1>0, EventsAre DEF Deposits, EventsInOrder
    <3> QED  BY <3>1, VaultWatchAssumption
  <2>2. CASE n \in seen
    <3>1. n \notin cut' BY DEF Passed
    <3>2. n \in kept BY <2>1, <2>2, <3>1
    <3> QED  BY <1>0, <2>1, <3>2, QueuedIs
  <2>3. CASE n \notin seen
    <3>1. n \in Passed
      BY <1>1, <2>3
    <3>2. screening[n].st # "none"
      BY <1>0, <2>1, <3>1 DEF PassedIsQueued
    <3>3. screening'[n] = screening[n]
      BY <1>0, <2>1, <3>2, QueuedIs
    <3> QED  BY <3>2, <3>3
  <2> QED  BY <2>2, <2>3
<1> QED  BY <1>1, <1>2
\* ... so the mirror of a watcher that has caught up is the contract's deadline.
LEMMA TickMirrors ==
  ASSUME WatchInv, NEW seen \in SUBSET Page, NEW dropped,
         (~unmirrored') => dropped \cap DeadlineEvents = {} /\ ~unmirrored,
         exit'.deadline = Mirrored(seen \ dropped).deadline, events' = events,
         \A n \in Passed' : n \in seen \/ (n \in Passed /\ n \notin From)
  PROVE  MirrorFollows'
<1>0. EventsInOrder /\ CursorSeeded /\ MirrorFollows /\ exit \in Mirrors /\ Len(events) \in Nat
  BY EventsAre DEF WatchInv, WatchShaped
<1> DEFINE D == DeadlineEvents
           top == Newest(D)
<1>1. D \in SUBSET (1..Len(events)) /\ D' = D /\ top' = top
  BY DEF DeadlineEvents, Newest
<1>2. ChainDeadline' = ChainDeadline /\ (D # {} => ChainDeadline = events[top].what)
  BY <1>1 DEF ChainDeadline, DeadlineEvents, Newest
<1> SUFFICES ASSUME D # {}, top \in Passed', ~unmirrored' PROVE exit'.deadline = ChainDeadline
  BY <1>1, <1>2 DEF MirrorFollows
<1>3. ~unmirrored /\ (seen \ dropped) \cap DeadlineEvents = seen \cap DeadlineEvents
  OBVIOUS
<1>4. top \in D /\ \A m \in D : m <= top
  BY <1>0, <1>1, NewestIs
<1>5. seen \in SUBSET (1..Len(events)) /\ seen \subseteq From
  BY <1>0, PagesAre
<1>6. exit'.deadline = Mirrored(seen).deadline
  <2>1. Mirrored(seen \ dropped) = Mirrored(seen)
    BY <1>3 DEF Mirrored
  <2> QED  BY <2>1
<1> HIDE DEF top
<1>7. CASE top \in seen
  <2>1. top \in seen \cap D /\ seen \cap D \in SUBSET (1..Len(events)) /\ \A m \in seen \cap D : m <= top
    BY <1>1, <1>4, <1>7
  <2>2. Newest(seen \cap D) = top
    BY <1>0, <2>1, NewestOf
  <2>3. seen \cap D # {} 
    BY <2>1
  <2> HIDE DEF D
  <2>4. Mirrored(seen).deadline = events[top].what
    BY <1>0, <1>5, <2>2, <2>3, MirrorIs DEF D
  <2> QED  BY <1>2, <1>6, <2>4
<1>8. CASE top \notin seen
  <2>1. top \in Passed /\ top \notin From
    BY <1>8
  <2>2. exit.deadline = ChainDeadline
    BY <1>0, <1>3, <2>1 DEF MirrorFollows, top
  <2>3. ASSUME NEW m \in seen \cap D PROVE FALSE
    <3>1. m \in From /\ m \in 1..Len(events) /\ top \in 1..Len(events) /\ m <= top
      BY <1>1, <1>4, <1>5
    <3>2. watchCursor <= events[m].at /\ ~(watchCursor <= events[top].at)
      BY <1>0, <2>1, <3>1, FromLedger
    <3>3. events[m].at <= events[top].at
      BY <1>0, <3>1 DEF EventsInOrder
    <3>4. events[m].at \in Int /\ events[top].at \in Int /\ watchCursor \in Int
      <4>1. ledger \in Nat /\ watchCursor \in 0..(ledger + 1)
        BY <1>0 DEF EventsInOrder, CursorSeeded
      <4> QED  BY <1>0, <3>1, <4>1, EventsAre
    <3> QED  BY <3>2, <3>3, <3>4
  <2>4. seen \cap D = {}
    BY <2>3
  <2>5. Mirrored(seen) = exit
    BY <1>0, <1>5, <2>4, MirrorIs
  <2> QED  BY <1>6, <2>2, <2>5
<1> QED  BY <1>7, <1>8

\* A tick keeps the invariant, wherever it leaves the cursor.
LEMMA TickKeeps ==
  ASSUME WatchInv, watchCursor # 0, NEW seen \in SUBSET Page, NEW own \in 0..1, NEW left,
         Inspect(seen, own, left), left \subseteq 1..Len(events),
         UNCHANGED <<events, ledger, now, held, seed>>,
         NEW c \in watchCursor..(ledger + 1), watchCursor' = c,
         \A n \in From : events[n].at < c => n \in seen \/ n \in left
  PROVE  WatchInv'
<1>0. EventsInOrder /\ CursorSeeded /\ RowsWait /\ WatchShaped /\ WarnedIsWritten /\ WarnedOnce
  BY DEF WatchInv
<1>1. PICK dropped \in SUBSET seen, failing \in SUBSET {1, 2} :
       \E mirror \in {Mirrored(seen \ dropped)} : \E levels \in {Levels(mirror, failing)} :
        /\ failing \subseteq levels
        /\ watchFaults' = watchFaults + Cardinality(dropped) + Cardinality(failing) + own
        /\ watchFaults' <= WatchFaults
        /\ screening' = Queued(seen \ dropped)
        /\ Warn(mirror, levels, failing)
        /\ unmirrored' = (unmirrored \/ dropped \cap DeadlineEvents # {})
        /\ cut' = cut \cup left \cup (dropped \cap Deposits)
  BY DEF Inspect
<1> DEFINE mirror == Mirrored(seen \ dropped)
           levels == Levels(mirror, failing)
<1>2. /\ failing \subseteq levels
      /\ watchFaults' = watchFaults + Cardinality(dropped) + Cardinality(failing) + own
      /\ watchFaults' <= WatchFaults
      /\ screening' = Queued(seen \ dropped)
      /\ Warn(mirror, levels, failing)
      /\ unmirrored' = (unmirrored \/ dropped \cap DeadlineEvents # {})
      /\ cut' = cut \cup left \cup (dropped \cap Deposits)
  BY <1>1
<1>3. seen \ dropped \in SUBSET (1..Len(events))
  BY <1>0, PagesAre
<1>4. mirror \in Mirrors
  BY <1>0, <1>3, MirrorIs DEF WatchShaped
<1>5. /\ Cardinality(dropped) \in Nat /\ Cardinality(failing) \in Nat
      /\ Cardinality(failing) = 0 => failing = {}
  <2>1. IsFiniteSet(1..Len(events)) /\ IsFiniteSet({1, 2})
    <3>1. Len(events) \in Int /\ 1 \in Int /\ 2 \in Int /\ {1, 2} = 1..2
      BY <1>0, EventsAre
    <3> QED  BY <3>1, FS_Interval
  <2>2. IsFiniteSet(dropped) /\ IsFiniteSet(failing)
    <3>1. dropped \subseteq 1..Len(events)
      BY <1>0, PagesAre
    <3> QED  BY <2>1, <3>1, FS_Subset
  <2> QED  BY <2>2, FS_CardinalityType, FS_EmptySet
<1> DEFINE more == Cardinality(dropped) + Cardinality(failing) + own
<1>6. more \in Nat /\ watchFaults' = watchFaults + more /\ (more = 0 => failing = {})
  <2> HIDE DEF mirror, levels
  <2>1. watchFaults \in Nat
    BY <1>0, VaultWatchAssumption DEF WatchShaped
  <2>2. own \in Nat
    OBVIOUS
  <2>3. watchFaults' = watchFaults + more
    <3>1. watchFaults' = watchFaults + Cardinality(dropped) + Cardinality(failing) + own
      BY <1>2, Zenon
    <3> QED  BY <1>5, <2>1, <2>2, <3>1
  <2>4. Cardinality(dropped) \in Nat /\ Cardinality(failing) \in Nat /\ (Cardinality(failing) = 0 => failing = {})
    BY <1>5
  <2> QED  BY <2>3, <2>4, <2>2
<1> HIDE DEF mirror, levels, more
<1>7. /\ exit' \in Mirrors /\ exit'.deadline = mirror.deadline
      /\ watchFaults' \in 0..WatchFaults /\ warned' \in SUBSET {1, 2} /\ rewarned' \in BOOLEAN
      /\ WarnedIsWritten' /\ WarnedOnce'
  <2>1. levels = Levels(mirror, failing)
    BY DEF levels
  <2> QED  BY <1>0, <1>2, <1>4, <1>6, <2>1, WarnKeeps
<1>8. c \in Int
  <2>1. ledger \in Nat /\ watchCursor \in 0..(ledger + 1)
    BY <1>0 DEF EventsInOrder, CursorSeeded
  <2> QED  BY <2>1
<1>8a. cut \subseteq cut' /\ left \subseteq cut' /\ cut' \subseteq 1..Len(events)
  <2>1. dropped \subseteq 1..Len(events) BY <1>0, PagesAre
  <2> QED  BY <1>0, <1>2, <2>1 DEF WatchShaped, CursorSeeded
<1>9. PassedIsQueued' /\ \A n \in Passed' : n \in seen \/ (n \in Passed /\ n \notin From)
  <2>1. \A n \in From : events[n].at < c => n \in seen \/ n \in cut'
    BY <1>8a
  <2>2. \A n \in seen : n \in Deposits => n \in seen \ dropped \/ n \in cut'
    BY <1>2
  <2>3. seen \ dropped \in SUBSET seen OBVIOUS
  <2> QED  BY <1>2, <1>8, <1>8a, <2>1, <2>2, <2>3, TickQueues
<1>10. MirrorFollows'
  <2>1. (~unmirrored') => dropped \cap DeadlineEvents = {} /\ ~unmirrored
    BY <1>2
  <2> QED  BY <1>7, <1>9, <2>1, TickMirrors DEF mirror
<1>11. EventsInOrder'
  BY <1>0 DEF EventsInOrder
<1>12. CursorSeeded'
  <2>1. ledger \in Nat /\ watchCursor \in 0..(ledger + 1) /\ seed \in 0..ledger
    BY <1>0 DEF EventsInOrder, CursorSeeded
  <2>2. c \in 0..(ledger + 1) /\ c # 0
    BY <2>1
  <2>3. cut' \subseteq 1..Len(events')
    BY <1>8a
  <2> QED  BY <2>1, <2>2, <2>3 DEF CursorSeeded
<1>13. RowsWait'
  BY <1>0, <1>2, QueuedIs
<1>14. WatchShaped'
  <2>1. unmirrored' \in BOOLEAN
    BY <1>0, <1>2, Zenon DEF WatchShaped
  <2> QED  BY <1>0, <1>7, <2>1 DEF WatchShaped
<1> QED  BY <1>7, <1>9, <1>10, <1>11, <1>12, <1>13, <1>14 DEF WatchInv

\* A ledger closes beyond the cursor: what was passed stays what it was.
LEMMA EventsAppended ==
  ASSUME EventsInOrder, NEW k \in 1..2, NEW some \in [1..k -> What], Len(events) + Len(some) <= MaxEvents,
         events' = events \o [i \in 1..Len(some) |-> [at |-> ledger + 1, what |-> some[i]]]
  PROVE  /\ events' \in Seq([at : Int, what : What])
         /\ Len(events') = Len(events) + k /\ Len(events') <= MaxEvents
         /\ \A n \in 1..Len(events) : events'[n] = events[n]
         /\ \A n \in (Len(events) + 1)..(Len(events) + k) : events'[n].at = ledger + 1
<1> DEFINE E == [at : Int, what : What]
           new == [i \in 1..k |-> [at |-> ledger + 1, what |-> some[i]]]
<1>1. events \in Seq(E) /\ ledger \in Nat
  BY DEF EventsInOrder
<1>2. Len(some) = k /\ some \in Seq(What)
  BY SMT
<1>3. \A i \in 1..k : new[i] \in E /\ new[i].at = ledger + 1
  BY <1>1
<1>4. new \in [1..k -> E]
  BY <1>3
<1>5. events' = events \o new
  BY <1>2
<1> HIDE DEF E
<1>6. new \in Seq(E) /\ Len(new) = k
  <2> HIDE DEF new
  <2> QED  BY <1>4
<1> HIDE DEF new
<1>7. /\ events \o new \in Seq(E) /\ Len(events \o new) = Len(events) + k
      /\ \A n \in 1..Len(events) : (events \o new)[n] = events[n]
      /\ \A n \in (Len(events) + 1)..(Len(events) + k) : (events \o new)[n] = new[n - Len(events)]
  BY <1>1, <1>6
<1>8. \A n \in (Len(events) + 1)..(Len(events) + k) : n - Len(events) \in 1..k
  <2>1. Len(events) \in Nat
    BY <1>1
  <2> QED  BY <2>1
<1>9. /\ events' \in Seq(E) /\ Len(events') = Len(events) + k
      /\ \A n \in 1..Len(events) : events'[n] = events[n]
  BY <1>5, <1>7
<1>10. \A n \in (Len(events) + 1)..(Len(events) + k) : events'[n].at = ledger + 1
  <2> SUFFICES ASSUME NEW n \in (Len(events) + 1)..(Len(events) + k) PROVE events'[n].at = ledger + 1
    OBVIOUS
  <2>1. events'[n] = new[n - Len(events)] /\ n - Len(events) \in 1..k
    BY <1>5, <1>7, <1>8
  <2> QED  BY <1>3, <2>1
<1>11. Len(events') <= MaxEvents
  BY <1>2, <1>9
<1> QED  BY <1>9, <1>10, <1>11 DEF E

LEMMA CloseKeeps ==
  ASSUME WatchInv, Close
  PROVE  WatchInv'
<1>0. EventsInOrder /\ CursorSeeded /\ RowsWait /\ WatchShaped /\ PassedIsQueued /\ MirrorFollows /\ WarnedIsWritten /\ WarnedOnce
  BY DEF WatchInv
<1>1. PICK some \in [1..1 -> What] \cup [1..2 -> What] :
        /\ Len(events) + Len(some) <= MaxEvents
        /\ ledger' = ledger + 1
        /\ events' = events \o [i \in 1..Len(some) |-> [at |-> ledger + 1, what |-> some[i]]]
        /\ UNCHANGED <<watchCursor, screening, exit, now, held, watchFaults,
                       seed, cut, warned, rewarned, unmirrored>>
  BY DEF Close
<1>2. PICK k \in 1..2 : some \in [1..k -> What]
  <2>1. 1 \in 1..2 /\ 2 \in 1..2
    OBVIOUS
  <2> QED  BY <1>1, <2>1
<1>3. /\ events' \in Seq([at : Int, what : What])
      /\ Len(events') = Len(events) + k /\ Len(events') <= MaxEvents
      /\ \A n \in 1..Len(events) : events'[n] = events[n]
      /\ \A n \in (Len(events) + 1)..(Len(events) + k) : events'[n].at = ledger + 1
  BY <1>0, <1>1, <1>2, EventsAppended
<1>4. ledger \in Nat /\ ledger' \in Nat /\ ledger' = ledger + 1 /\ Len(events) \in Nat /\ Len(events') \in Nat
      /\ watchCursor \in 0..(ledger + 1) /\ seed \in 0..ledger
  BY <1>0, <1>1, <1>3, EventsAre DEF EventsInOrder, CursorSeeded
<1>5. \A n \in 1..Len(events') : n \in 1..Len(events) \/ n \in (Len(events) + 1)..(Len(events) + k)
  BY <1>3, <1>4
<1>6. \A n \in 1..Len(events) : n \in 1..Len(events') /\ events[n].at \in 2..ledger
  BY <1>0, <1>3, <1>4 DEF EventsInOrder
<1>7. \A n \in 1..Len(events') : events'[n].at \in 2..(ledger + 1) /\ (n \notin 1..Len(events) => events'[n].at = ledger + 1)
  <2> TAKE n \in 1..Len(events')
  <2>0. ledger + 1 \in 2..(ledger + 1) \/ ledger + 1 = 1
    BY <1>4
  <2>1. CASE n \in 1..Len(events)
    BY <1>3, <1>4, <1>6, <2>1
  <2>2. CASE n \notin 1..Len(events)
    <3>1. events'[n].at = ledger + 1
      BY <1>3, <1>5, <2>2
    <3>2. ledger >= 1
      BY <1>0 DEF EventsInOrder
    <3> QED  BY <1>4, <3>1, <3>2
  <2> QED  BY <2>1, <2>2
<1>8. EventsInOrder'
  <2>1. ASSUME NEW m \in 1..Len(events'), NEW n \in 1..Len(events'), m <= n
        PROVE  events'[m].at <= events'[n].at
    <3>1. CASE n \in 1..Len(events)
      <4>1. m \in 1..Len(events)
        BY <1>4, <2>1, <3>1
      <4> QED  BY <1>0, <1>3, <2>1, <3>1, <4>1 DEF EventsInOrder
    <3>2. CASE n \notin 1..Len(events)
      BY <1>4, <1>7, <3>2
    <3> QED  BY <3>1, <3>2
  <2>2. \A n \in 1..Len(events') : events'[n].at \in 2..(ledger')
    BY <1>4, <1>7
  <2> QED  BY <1>3, <1>4, <2>1, <2>2 DEF EventsInOrder
<1>9. CursorSeeded'
  <2>1. watchCursor \in 0..(ledger + 1 + 1) /\ seed \in 0..(ledger + 1) /\ cut \subseteq 1..Len(events')
    BY <1>0, <1>4, <1>6 DEF CursorSeeded
  <2> QED  BY <1>0, <1>1, <2>1 DEF CursorSeeded
<1>10. Passed' \subseteq Passed
  <2> SUFFICES ASSUME NEW n \in Passed' PROVE n \in Passed
    OBVIOUS
  <2>1. n \in 1..Len(events') /\ seed # 0 /\ events'[n].at \in seed..(watchCursor - 1) /\ n \notin cut
    BY <1>1 DEF Passed
  <2>2. n \in 1..Len(events)
    <3>1. events'[n].at < ledger + 1
      BY <1>4, <1>7, <2>1
    <3> QED  BY <1>4, <1>7, <2>1, <3>1
  <2> QED  BY <1>3, <2>1, <2>2 DEF Passed
<1>11. Passed \subseteq 1..Len(events)
  BY DEF Passed
<1>12. PassedIsQueued'
  <2>1. \A n \in Passed' \cap Deposits' : n \in Passed \cap Deposits
    BY <1>3, <1>10, <1>11 DEF Deposits
  <2> QED  BY <1>0, <1>1, <2>1 DEF PassedIsQueued
<1>13. MirrorFollows'
  <2> DEFINE top == Newest(DeadlineEvents)'
  <2> SUFFICES ASSUME DeadlineEvents' # {}, top \in Passed', ~unmirrored'
               PROVE  exit'.deadline = ChainDeadline'
    BY DEF MirrorFollows
  <2>1. top \in DeadlineEvents' /\ \A m \in DeadlineEvents' : m <= top
    <3>1. DeadlineEvents' \in SUBSET (1..Len(events')) /\ top = Newest(DeadlineEvents')
      BY DEF DeadlineEvents, Newest
    <3> QED  BY <1>4, <3>1, NewestIs
  <2>1a. ChainDeadline' = events'[top].what
    BY DEF ChainDeadline
  <2> HIDE DEF top
  <2>2. top \in Passed /\ top \in 1..Len(events)
    BY <1>10, <1>11
  <2>3. top \in DeadlineEvents
    BY <1>3, <2>1, <2>2 DEF DeadlineEvents
  <2>4. \A m \in DeadlineEvents : m \in DeadlineEvents'
    BY <1>3, <1>6 DEF DeadlineEvents
  <2>5. Newest(DeadlineEvents) = top
    <3>1. DeadlineEvents \in SUBSET (1..Len(events)) /\ \A m \in DeadlineEvents : m <= top
      BY <2>1, <2>4 DEF DeadlineEvents
    <3> QED  BY <1>4, <2>3, <3>1, NewestOf
  <2>6. exit.deadline = events[top].what
    <3>1. ChainDeadline = events[top].what
      BY <2>3, <2>5 DEF ChainDeadline
    <3> QED  BY <1>0, <1>1, <2>2, <2>3, <2>5, <3>1 DEF MirrorFollows
  <2> QED  BY <1>1, <1>3, <2>1a, <2>2, <2>6
<1>14. RowsWait' /\ WatchShaped' /\ WarnedIsWritten' /\ WarnedOnce'
  BY <1>0, <1>1 DEF RowsWait, WatchShaped, WarnedIsWritten, WarnedOnce
<1> QED  BY <1>8, <1>9, <1>12, <1>13, <1>14 DEF WatchInv

\* What depends on the events and the cursor alone.
LEMMA SameEvents ==
  ASSUME WatchInv, UNCHANGED <<events, ledger, watchCursor, seed, cut>>
  PROVE  /\ EventsInOrder' /\ CursorSeeded' /\ Passed' = Passed
         /\ Deposits' = Deposits /\ DeadlineEvents' = DeadlineEvents
         /\ Newest(DeadlineEvents)' = Newest(DeadlineEvents) /\ ChainDeadline' = ChainDeadline
<1>1. EventsInOrder' /\ CursorSeeded'
  BY DEF WatchInv, EventsInOrder, CursorSeeded
<1>2. Passed' = Passed /\ Deposits' = Deposits /\ DeadlineEvents' = DeadlineEvents
  BY DEF Passed, Deposits, DeadlineEvents
<1>3. Newest(DeadlineEvents)' = Newest(DeadlineEvents)
  BY <1>2 DEF Newest
<1>4. ChainDeadline' = ChainDeadline
  BY <1>2, <1>3 DEF ChainDeadline
<1> QED  BY <1>1, <1>2, <1>3, <1>4

LEMMA DayKeeps ==
  ASSUME WatchInv, DayPasses \/ ReadBack
  PROVE  WatchInv'
<1>0. UNCHANGED <<events, ledger, watchCursor, screening, exit, watchFaults, seed, cut, warned, rewarned, unmirrored>>
  BY DEF DayPasses, ReadBack
<1>1. /\ EventsInOrder' /\ CursorSeeded' /\ Passed' = Passed
      /\ Deposits' = Deposits /\ DeadlineEvents' = DeadlineEvents
      /\ Newest(DeadlineEvents)' = Newest(DeadlineEvents) /\ ChainDeadline' = ChainDeadline
  BY <1>0, SameEvents
<1>2. now' \in 0..MaxNow
  BY VaultWatchAssumption DEF WatchInv, WatchShaped, DayPasses, ReadBack
<1>3. ChainDeadline \in Deadlines
  <2> DEFINE top == Newest(DeadlineEvents)
  <2>1. CASE DeadlineEvents = {}
    BY <2>1 DEF ChainDeadline, Deadlines
  <2>2. CASE DeadlineEvents # {}
    <3>0. EventsInOrder /\ Len(events) \in Nat
      BY EventsAre DEF WatchInv
    <3>1. top \in DeadlineEvents
      <4>1. DeadlineEvents \in SUBSET (1..Len(events))
        BY DEF DeadlineEvents
      <4> QED  BY <2>2, <3>0, <4>1, NewestIs
    <3>2. ChainDeadline = events[top].what
      BY <2>2 DEF ChainDeadline
    <3> HIDE DEF top
    <3>3. top \in 1..Len(events) /\ events[top].what # Funds
      BY <3>1 DEF DeadlineEvents
    <3>4. events[top].what \in What
      BY <3>0, <3>3, EventsAre
    <3> QED  BY <3>2, <3>3, <3>4 DEF What
  <2> QED  BY <2>1, <2>2
<1>4. held' \in {NotHeld} \cup Deadlines
  BY <1>3 DEF WatchInv, WatchShaped, DayPasses, ReadBack
<1>5. WatchShaped'
  BY <1>0, <1>2, <1>4 DEF WatchInv, WatchShaped
<1> QED  BY <1>0, <1>1, <1>5 DEF WatchInv, RowsWait, PassedIsQueued, MirrorFollows, WarnedIsWritten, WarnedOnce

LEMMA SeedKeeps ==
  ASSUME WatchInv, Seed
  PROVE  WatchInv'
<1>0. /\ watchCursor' = ledger /\ seed' = ledger /\ ledger \in Nat \ {0}
      /\ UNCHANGED <<events, ledger, screening, exit, now, held, watchFaults, cut, warned, rewarned, unmirrored>>
  BY DEF Seed, WatchInv, EventsInOrder
<1>1. Passed' = {}
  <2>1. ASSUME NEW n \in Passed' PROVE FALSE
    <3>1. events[n].at \in ledger..(ledger - 1)
      BY <1>0, <2>1 DEF Passed
    <3> QED  BY <1>0, <3>1
  <2> QED  BY <2>1
<1>2. EventsInOrder' /\ CursorSeeded'
  BY <1>0 DEF WatchInv, EventsInOrder, CursorSeeded
<1>3. PassedIsQueued' /\ MirrorFollows'
  BY <1>1 DEF PassedIsQueued, MirrorFollows
<1> QED  BY <1>0, <1>2, <1>3 DEF WatchInv, RowsWait, WatchShaped, WarnedIsWritten, WarnedOnce

LEMMA RecordKeeps ==
  ASSUME WatchInv, RecordExitDeadline
  PROVE  WatchInv'
<1>0. /\ held \in Deadlines /\ held' = NotHeld /\ exit \in Mirrors
      /\ exit' = SetExitDeadline(exit, held)
      /\ warned' = IF held = exit.deadline THEN warned ELSE {}
      /\ unmirrored' = (unmirrored \/ held # ChainDeadline)
      /\ UNCHANGED <<events, ledger, watchCursor, screening, now, watchFaults, seed, cut, rewarned>>
  BY DEF RecordExitDeadline, WatchInv, WatchShaped
<1>1. /\ EventsInOrder' /\ CursorSeeded' /\ Passed' = Passed
      /\ Deposits' = Deposits /\ DeadlineEvents' = DeadlineEvents
      /\ Newest(DeadlineEvents)' = Newest(DeadlineEvents) /\ ChainDeadline' = ChainDeadline
  BY <1>0, SameEvents
<1>2. exit' \in Mirrors /\ exit'.deadline = held /\ (held = exit.deadline => exit' = exit)
  BY <1>0 DEF SetExitDeadline, Mirrors
<1>3. MirrorFollows'
  BY <1>0, <1>1, <1>2 DEF MirrorFollows
<1>4. unmirrored' \in BOOLEAN
  BY <1>0, Zenon DEF WatchInv, WatchShaped
<1>5. WatchShaped'
  BY <1>0, <1>2, <1>4 DEF WatchInv, WatchShaped
<1>6. WarnedIsWritten'
  BY <1>0, <1>2 DEF WatchInv, WarnedIsWritten
<1> QED  BY <1>0, <1>1, <1>3, <1>5, <1>6 DEF WatchInv, RowsWait, PassedIsQueued, WarnedOnce

\* A screening counts its try.
LEMMA RowTried ==
  ASSUME NEW s \in ScreeningRows, s.st = "queued", s.tries < Tries,
         NEW f \in {"screened", "failed", "queued"}, f = "queued" => s.tries + 1 < Tries
  PROVE  [st |-> f, tries |-> s.tries + 1] \in ScreeningRows
<1>1. s.tries \in Nat /\ s.tries + 1 \in 0..Tries /\ Tries \in Nat
  BY VaultWatchAssumption DEF ScreeningRows
<1> QED  BY <1>1 DEF ScreeningRows

LEMMA ScreenKeeps ==
  ASSUME WatchInv, NEW n \in 1..MaxEvents, Screened(n) \/ ScreeningRetried(n)
  PROVE  WatchInv'
<1>0. /\ screening[n].st = "queued"
      /\ UNCHANGED <<events, ledger, watchCursor, exit, now, held, watchFaults, seed, cut, warned, rewarned, unmirrored>>
      /\ RowsWait
  BY DEF Screened, ScreeningRetried, WatchInv
<1>1. /\ EventsInOrder' /\ CursorSeeded' /\ Passed' = Passed
      /\ Deposits' = Deposits /\ DeadlineEvents' = DeadlineEvents
      /\ Newest(DeadlineEvents)' = Newest(DeadlineEvents) /\ ChainDeadline' = ChainDeadline
  BY <1>0, SameEvents
<1>2. screening[n] \in ScreeningRows /\ screening[n].tries < Tries
  BY <1>0 DEF RowsWait
<1> DEFINE f == IF Screened(n) THEN "screened"
                ELSE IF LastScreeningTry(screening[n]) THEN "failed" ELSE "queued"
           r == [st |-> f, tries |-> screening[n].tries + 1]
<1>3a. f \in {"screened", "failed", "queued"} /\ (f = "queued" => screening[n].tries + 1 < Tries)
  <2>1. screening[n].tries \in 0..Tries /\ Tries \in Nat
    BY <1>2, VaultWatchAssumption DEF ScreeningRows
  <2> QED  BY <2>1 DEF LastScreeningTry
<1>3b. screening' = [screening EXCEPT ![n] = r]
  BY DEF Screened, ScreeningRetried
<1>3c. r.st = f /\ r.tries = screening[n].tries + 1
  OBVIOUS
<1> HIDE DEF f
<1>3d. r \in ScreeningRows
  BY <1>0, <1>2, <1>3a, RowTried
<1> HIDE DEF r
<1>3. screening' = [screening EXCEPT ![n] = r] /\ r \in ScreeningRows /\ r.st # "none" /\ (r.st \in {"none", "queued"} => r.tries < Tries)
  BY <1>3a, <1>3b, <1>3c, <1>3d
<1>4. screening \in [1..MaxEvents -> ScreeningRows]
  BY <1>0 DEF RowsWait
<1>5. /\ screening' \in [1..MaxEvents -> ScreeningRows]
      /\ \A m \in 1..MaxEvents : screening'[m] = IF m = n THEN r ELSE screening[m]
  BY <1>3, <1>4
<1>6. RowsWait'
  <2> SUFFICES ASSUME NEW m \in 1..MaxEvents, screening'[m].st \in {"none", "queued"}
               PROVE  screening'[m].tries < Tries
    BY <1>5 DEF RowsWait
  <2> QED  BY <1>0, <1>3, <1>5 DEF RowsWait
<1>7. PassedIsQueued'
  <2> SUFFICES ASSUME NEW m \in Passed \cap Deposits PROVE screening'[m].st # "none"
    BY <1>1 DEF PassedIsQueued
  <2>1. screening[m].st # "none" /\ m \in 1..MaxEvents
    <3>1. m \in 1..Len(events) /\ Len(events) \in Nat /\ Len(events) <= MaxEvents
      BY EventsAre DEF WatchInv, EventsInOrder, Passed
    <3> QED  BY <3>1, VaultWatchAssumption DEF WatchInv, PassedIsQueued
  <2> QED  BY <1>3, <1>5, <2>1
<1> QED  BY <1>0, <1>1, <1>6, <1>7 DEF WatchInv, WatchShaped, MirrorFollows, WarnedIsWritten, WarnedOnce

\* The three ways a tick ends.
LEMMA WatchKeeps ==
  ASSUME WatchInv, Watch
  PROVE  WatchInv'
<1>0. EventsInOrder /\ CursorSeeded /\ watchCursor # 0 /\ UNCHANGED <<events, ledger, now, held, seed>>
  BY DEF Watch, WatchInv
<1> DEFINE page == Page
           c == IF page = {} THEN ledger + 1 ELSE events[Newest(page)].at + 1
<1>1. Inspect(page, 0, {n \in From \ page : events[n].at < c}) /\ watchCursor' = c
  BY DEF Watch
<1>2. page \subseteq From /\ From \subseteq 1..Len(events)
  BY <1>0, PagesAre
<1>3. Len(events) \in Nat /\ ledger \in Nat /\ watchCursor \in 0..(ledger + 1) /\ cut \subseteq 1..Len(events)
  BY <1>0, EventsAre DEF EventsInOrder, CursorSeeded
<1>4. c \in watchCursor..(ledger + 1)
  <2>1. CASE page = {}
    BY <1>3, <2>1
  <2>2. CASE page # {}
    <3> DEFINE last == Newest(page)
    <3>1. last \in page
      <4>1. page \in SUBSET (1..Len(events))
        BY <1>2
      <4> HIDE DEF page
      <4> QED  BY <1>3, <2>2, <4>1, NewestIs
    <3>2. c = events[last].at + 1
      BY <2>2
    <3> HIDE DEF last, c
    <3>3. events[last].at \in 2..ledger /\ watchCursor <= events[last].at
      BY <1>0, <1>2, <3>1, FromLedger DEF EventsInOrder
    <3> QED  BY <1>3, <3>2, <3>3
  <2> QED  BY <2>1, <2>2
<1> HIDE DEF c
<1> DEFINE left == {n \in From \ page : events[n].at < c}
<1>5. left \subseteq 1..Len(events)
  BY <1>2
<1>6. \A n \in From : events[n].at < c => n \in page \/ n \in left
  OBVIOUS
<1>7. Inspect(page, 0, left) BY <1>1
<1> HIDE DEF left
<1>8. page \in SUBSET Page /\ 0 \in 0..1 OBVIOUS
<1> HIDE DEF page
<1> QED  BY <1>0, <1>1, <1>4, <1>5, <1>6, <1>7, <1>8, TickKeeps

LEMMA StopKeeps ==
  ASSUME WatchInv, WatchStops
  PROVE  WatchInv'
<1>0. /\ EventsInOrder /\ CursorSeeded /\ watchCursor # 0
      /\ UNCHANGED <<events, ledger, now, held, seed>>
  BY DEF WatchStops, WatchInv
<1>1. PICK n \in Page \cap Deposits : Inspect({m \in Page : m < n}, 1, {}) /\ watchCursor' = events[n].at
  BY DEF WatchStops, StopAt
<1>2. Page \subseteq From /\ From \subseteq 1..Len(events) /\ n \in From /\ n \in 1..Len(events)
  BY <1>0, PagesAre
<1>3. Len(events) \in Nat /\ ledger \in Nat /\ watchCursor \in 0..(ledger + 1) /\ cut \subseteq 1..Len(events)
  BY <1>0, EventsAre DEF EventsInOrder, CursorSeeded
<1> DEFINE c == events[n].at
           seen == {m \in Page : m < n}
<1>4. c \in watchCursor..(ledger + 1)
  <2>1. c \in 2..ledger /\ watchCursor <= c
    BY <1>0, <1>2, FromLedger DEF EventsInOrder
  <2> HIDE DEF c
  <2> QED  BY <1>3, <2>1
<1>5. \A m \in From : events[m].at < c => m \in seen
  <2> SUFFICES ASSUME NEW m \in From, events[m].at < c PROVE m \in seen
    OBVIOUS
  <2>1. m \in 1..Len(events) /\ events[m].at \in Int /\ c \in Int
    BY <1>0, <1>2, EventsAre
  <2>2. m < n
    <3>1. ~(n <= m)
      <4>1. n <= m => c <= events[m].at
        BY <1>0, <1>2, <2>1 DEF EventsInOrder
      <4> HIDE DEF c
      <4> QED  BY <2>1, <4>1
    <3> QED  BY <1>2, <1>3, <2>1, <3>1
  <2>3. m \in Page
    BY <1>0, <2>2, PagesAre
  <2> QED  BY <2>2, <2>3
<1>6. seen \in SUBSET Page /\ Inspect(seen, 1, {}) /\ watchCursor' = c /\ 1 \in 0..1
  BY <1>1
<1> HIDE DEF c, seen
<1>7. {} \subseteq 1..Len(events) /\ \A m \in From : events[m].at < c => m \in seen \/ m \in {}
  BY <1>5
<1> QED  BY <1>0, <1>4, <1>6, <1>7, TickKeeps

LEMMA AgainKeeps ==
  ASSUME WatchInv, WatchAgain
  PROVE  WatchInv'
<1>0. /\ EventsInOrder /\ CursorSeeded /\ watchCursor # 0 /\ Inspect(Page, 1, {})
      /\ UNCHANGED <<events, ledger, watchCursor, now, held, seed>>
  BY DEF WatchAgain, WatchInv
<1>1. ledger \in Nat /\ watchCursor \in 0..(ledger + 1) /\ cut \subseteq 1..Len(events)
  BY <1>0 DEF EventsInOrder, CursorSeeded
<1> DEFINE c == watchCursor
<1>2. c \in watchCursor..(ledger + 1) /\ watchCursor' = c /\ 1 \in 0..1 /\ Page \in SUBSET Page
  BY <1>0, <1>1
<1>3. {} \subseteq 1..Len(events) /\ \A m \in From : events[m].at < c => m \in Page \/ m \in {}
  <2> SUFFICES ASSUME NEW m \in From, events[m].at < watchCursor PROVE FALSE
    OBVIOUS
  <2>1. m \in 1..Len(events) /\ watchCursor <= events[m].at /\ events[m].at \in Int
    BY <1>0, PagesAre, FromLedger, EventsAre
  <2> QED  BY <1>1, <2>1
<1> HIDE DEF c
<1> QED  BY <1>0, <1>1, <1>2, <1>3, TickKeeps

LEMMA WatchStarts == VaultWatchInit => WatchInv
<1> SUFFICES ASSUME VaultWatchInit PROVE WatchInv
  OBVIOUS
<1>1. Len(events) = 0 /\ events \in Seq([at : Int, what : What]) /\ 1..Len(events) = {}
  BY DEF VaultWatchInit
<1>2. EventsInOrder /\ CursorSeeded
  BY <1>1, VaultWatchAssumption DEF VaultWatchInit, EventsInOrder, CursorSeeded
<1>3. Passed = {}
  BY <1>1 DEF Passed
<1>4. RowsWait
  BY VaultWatchAssumption DEF VaultWatchInit, RowsWait, ScreeningRows, NotQueued
<1>5. WatchShaped
  <2>1. NoDeadline \in Deadlines
    BY DEF Deadlines
  <2>2. [deadline |-> NoDeadline, level |-> 0] \in Mirrors
    BY <2>1 DEF Mirrors
  <2>3. 0 \in 0..MaxNow /\ 0 \in 0..WatchFaults
    BY VaultWatchAssumption
  <2> QED  BY <2>2, <2>3 DEF VaultWatchInit, WatchShaped
<1> QED  BY <1>2, <1>3, <1>4, <1>5 DEF WatchInv, PassedIsQueued, MirrorFollows, WarnedIsWritten, WarnedOnce, VaultWatchInit

LEMMA WatchSteps == WatchInv /\ [VaultWatchNext]_watchVars => WatchInv'
<1> SUFFICES ASSUME WatchInv, [VaultWatchNext]_watchVars PROVE WatchInv'
  OBVIOUS
<1>1. CASE Close
  BY <1>1, CloseKeeps
<1>2. CASE DayPasses \/ ReadBack
  BY <1>2, DayKeeps
<1>3. CASE Seed
  BY <1>3, SeedKeeps
<1>4. CASE Watch \/ WatchStops \/ WatchAgain
  BY <1>4, WatchKeeps, StopKeeps, AgainKeeps
<1>5. CASE RecordExitDeadline
  BY <1>5, RecordKeeps
<1>6. CASE \E n \in 1..MaxEvents : Screened(n) \/ ScreeningRetried(n)
  BY <1>6, ScreenKeeps
<1>7. CASE UNCHANGED watchVars
  <2>1. UNCHANGED <<events, ledger, watchCursor, seed, cut>>
    BY <1>7 DEF watchVars
  <2> QED  BY <1>7, <2>1, SameEvents DEF watchVars, WatchInv, RowsWait, WatchShaped, PassedIsQueued, MirrorFollows,
               WarnedIsWritten, WarnedOnce
<1> QED  BY <1>1, <1>2, <1>3, <1>4, <1>5, <1>6, <1>7 DEF VaultWatchNext

LEMMA WatchShows == WatchInv => VaultWatchTypeOK /\ PassedIsQueued /\ ExitTold
<1> SUFFICES ASSUME WatchInv PROVE VaultWatchTypeOK /\ PassedIsQueued /\ ExitTold
  OBVIOUS
<1>1. VaultWatchTypeOK
  <2>1. EventsInOrder /\ CursorSeeded /\ RowsWait /\ WatchShaped
    BY DEF WatchInv
  <2>2. \A n \in 1..Len(events) : events[n].at \in 2..ledger /\ events[n].what \in What
    BY <2>1, EventsAre DEF EventsInOrder
  <2> QED  BY <2>1, <2>2 DEF VaultWatchTypeOK, EventsInOrder, CursorSeeded, RowsWait, WatchShaped, ScreeningRows, Mirrors
<1> QED  BY <1>1 DEF WatchInv, ExitTold

\* A deposit's screening is decided once, whatever is seen again.
LEMMA ScreeningDecided ==
  ASSUME WatchInv, [VaultWatchNext]_watchVars, NEW n \in 1..MaxEvents, screening[n].st \in {"screened", "failed"}
  PROVE  screening'[n] = screening[n]
<1>1. CASE UNCHANGED screening
  BY <1>1
<1>2. CASE Watch \/ WatchStops \/ WatchAgain
  <2>1. \E ns : screening' = Queued(ns)
    BY <1>2 DEF Watch, WatchStops, WatchAgain, Inspect
  <2> QED  BY <2>1, QueuedIs DEF WatchInv
<1>3. ASSUME NEW m \in 1..MaxEvents, Screened(m) \/ ScreeningRetried(m)
      PROVE  screening'[n] = screening[n]
  <2>1. m # n /\ \E r : screening' = [screening EXCEPT ![m] = r]
    BY <1>3 DEF Screened, ScreeningRetried
  <2> QED  BY <2>1 DEF WatchInv, RowsWait
<1> QED  BY <1>1, <1>2, <1>3 DEF VaultWatchNext, watchVars, Close, DayPasses, Seed, ReadBack, RecordExitDeadline

-----------------------------------------------------------------------------
(* Registrations (Registrations) *)

Sessions ==
  [at : {"none", "national_id", "recover_offer", "answers", "pin", "main"},
   nid : NationalID \cup {NoID}, misses : 0..1, user : Nat]
Transactions ==
  [phone : Phone, nid : NationalID \cup {NoID}, at : {"begun", "user", "index", "account"},
   index : 0..MaxIndex, id : Nat]

RowsOf(d) ==
  /\ d = [users |-> d.users, accounts |-> d.accounts, sequence |-> d.sequence]
  /\ DOMAIN d.users = DOMAIN d.accounts
  /\ \A u \in DOMAIN d.users :
       /\ d.users[u] = [phone |-> d.users[u].phone, nid |-> d.users[u].nid, live |-> d.users[u].live]
       /\ d.accounts[u] = [index |-> d.accounts[u].index, chain |-> d.accounts[u].chain]

RegShaped ==
  /\ pilotUsers \in [Phone -> [nid : NationalID, active : BOOLEAN]]
  /\ dialogue \in [Phone -> Sessions] /\ count \in [users : Nat, edits : Nat]
  /\ registering \subseteq Transactions /\ RowsOf(db)
  /\ DOMAIN db.users \subseteq 1..count.users /\ creating \subseteq DOMAIN db.users
  /\ \A p \in Phone : dialogue[p].user <= count.users
  /\ ~serving => registering = {} /\ creating = {}
  /\ DOMAIN onLedger \subseteq 1..MaxIndex

\* The sequence is ahead of every index a row has or a transaction holds, and no two
\* have one between them.
HasIndex(r) == r.at \in {"index", "account"}
SequenceAhead ==
  /\ db.sequence \in [last : 1..MaxIndex, called : BOOLEAN]
  /\ ~db.sequence.called => DOMAIN db.accounts = {}
  /\ \A u \in DOMAIN db.accounts :
       db.accounts[u].index \in 1..MaxIndex /\ db.accounts[u].index < NextIndex(db.sequence)
  /\ \A u, v \in DOMAIN db.accounts : db.accounts[u].index = db.accounts[v].index => u = v
TransactionsAhead ==
  /\ \A r \in registering : HasIndex(r) =>
       /\ db.sequence.called /\ r.index \in 1..MaxIndex /\ r.index < NextIndex(db.sequence)
       /\ \A u \in DOMAIN db.accounts : db.accounts[u].index # r.index
  /\ \A q, r \in registering : HasIndex(q) /\ HasIndex(r) /\ q.index = r.index => q = r

\* While the bases are above it, the ledger has nothing the sequence has yet to give.
LedgerBehind ==
  rearmed =>
    /\ serving => \A i \in DOMAIN onLedger : i < NextIndex(db.sequence)
    /\ \A r \in registering : HasIndex(r) => r.index \notin DOMAIN onLedger

\* Whoever is past the list's question was on the list, and answers for the account
\* they named.
Approved(p, nid) == PilotGate => <<p, nid>> \in approved
SessionOK(p, s) ==
  /\ s.at \in {"recover_offer", "answers", "pin"} => Approved(p, s.nid)
  /\ s.at = "answers" /\ s.user \in DOMAIN db.users => db.users[s.user].nid = s.nid
AllApproved ==
  /\ \A p \in Phone : Approved(p, pilotUsers[p].nid) /\ SessionOK(p, dialogue[p])
  /\ \A r \in registering : Approved(r.phone, r.nid)
  /\ \A u \in DOMAIN db.users : Approved(db.users[u].phone, db.users[u].nid)

RegInv == RegShaped /\ SequenceAhead /\ TransactionsAhead /\ LedgerBehind /\ KeysAreOwn /\ AllApproved

LEMMA RegShows == RegInv => RegistrationsTypeOK /\ RegistrationsSound
<1> SUFFICES ASSUME RegInv PROVE RegistrationsTypeOK /\ RegistrationsSound
  OBVIOUS
<1>1. RegShaped /\ SequenceAhead /\ KeysAreOwn /\ AllApproved
  BY DEF RegInv
<1>2. \A p \in Phone : pilotUsers[p].nid \in NationalID /\ dialogue[p].misses \in 0..1
  <2>1. \A p \in Phone : pilotUsers[p] \in [nid : NationalID, active : BOOLEAN] /\ dialogue[p] \in Sessions
    BY <1>1 DEF RegShaped
  <2> QED BY <2>1 DEF Sessions
<1>3. \A r \in registering : r.at \in {"begun", "user", "index", "account"} /\ r.index \in 0..MaxIndex
  BY <1>1 DEF RegShaped, Transactions
<1>4. RegistrationsTypeOK
  BY <1>1, <1>2, <1>3 DEF RegShaped, RowsOf, SequenceAhead, RegistrationsTypeOK
<1>5. NumbersWereApproved
  BY <1>1 DEF AllApproved, Approved, NumbersWereApproved
<1> QED BY <1>1, <1>4, <1>5 DEF RegistrationsSound

LEMMA RegStarts == RegistrationsInit => RegInv
<1> SUFFICES ASSUME RegistrationsInit PROVE RegInv
  OBVIOUS
<1> USE DEF RegistrationsInit
<1>1. DOMAIN db.users = {} /\ DOMAIN db.accounts = {} /\ DOMAIN onLedger = {}
  OBVIOUS
<1>2. \A p \in Phone : pilotUsers[p] \in [nid : NationalID, active : {TRUE}] /\ dialogue[p] = NoSession
  OBVIOUS
<1>3. RegShaped
  <2>1. pilotUsers \in [Phone -> [nid : NationalID, active : BOOLEAN]]
    OBVIOUS
  <2>2. NoSession \in Sessions
    BY DEF NoSession, Sessions
  <2>3. dialogue \in [Phone -> Sessions]
    BY <2>2
  <2>4. RowsOf(db)
    BY <1>1 DEF RowsOf
  <2> QED BY <1>1, <1>2, <2>1, <2>3, <2>4 DEF RegShaped, NoSession
<1>4. SequenceAhead
  BY <1>1, RegistrationsAssumption DEF SequenceAhead
<1>5. TransactionsAhead /\ LedgerBehind /\ KeysAreOwn
  BY <1>1 DEF TransactionsAhead, LedgerBehind, KeysAreOwn
<1>6. AllApproved
  BY <1>1, <1>2 DEF AllApproved, SessionOK, Approved, NoSession
<1> QED BY <1>3, <1>4, <1>5, <1>6 DEF RegInv

\* A step of one session.
LEMMA SessionKeeps ==
  ASSUME RegInv, NEW p \in Phone, NEW s \in Sessions, s.user <= count.users, SessionOK(p, s), Says(p, s),
         UNCHANGED <<pilotUsers, db, serving, registering, creating, onLedger, count, approved, rearmed>>
  PROVE  RegInv'
<1>1. RegShaped /\ SequenceAhead /\ TransactionsAhead /\ LedgerBehind /\ KeysAreOwn /\ AllApproved
  BY DEF RegInv
<1>2. dialogue' = [dialogue EXCEPT ![p] = s] /\ dialogue \in [Phone -> Sessions]
  BY <1>1 DEF Says, RegShaped
<1>3. dialogue' \in [Phone -> Sessions] /\ dialogue'[p] = s /\ \A q \in Phone : q # p => dialogue'[q] = dialogue[q]
  BY <1>2
<1>4. RegShaped'
  <2>1. \A q \in Phone : dialogue'[q].user <= count.users
    BY <1>1, <1>3 DEF RegShaped
  <2> QED BY <1>1, <1>3, <2>1 DEF RegShaped, RowsOf
<1>5. AllApproved'
  <2>1. \A q \in Phone : SessionOK(q, dialogue[q])
    BY <1>1 DEF AllApproved
  <2>2. \A q \in Phone : SessionOK(q, dialogue'[q])
    BY <1>3, <2>1
  <2> QED BY <1>1, <2>2 DEF AllApproved, SessionOK, Approved
<1>6. SequenceAhead' /\ TransactionsAhead' /\ LedgerBehind' /\ KeysAreOwn'
  BY <1>1 DEF SequenceAhead, TransactionsAhead, LedgerBehind, KeysAreOwn
<1> QED BY <1>4, <1>5, <1>6 DEF RegInv

LEMMA SessionAt ==
  ASSUME NEW s \in Sessions, NEW u \in Nat
  PROVE  LET t == [s EXCEPT !.at = "main", !.user = u] IN t \in Sessions /\ t.at = "main" /\ t.user = u
BY DEF Sessions

\* The dialogue's steps that write no row.
LEMMA DialogueKeeps ==
  ASSUME RegInv, NEW p \in Phone,
         Dial(p) \/ handleRecoverOffer(p) \/ \E nid \in NationalID : handleRegistrationNationalID(p, nid)
  PROVE  RegInv'
<1>1. RegShaped /\ AllApproved /\ dialogue[p] \in Sessions /\ dialogue[p].user <= count.users /\ count.users \in Nat
      /\ SessionOK(p, dialogue[p])
  BY DEF RegInv, RegShaped, AllApproved
<1>2. \A u \in DOMAIN db.users : u \in Nat /\ u <= count.users
  BY <1>1 DEF RegShaped
<1>3. /\ NoSession \in Sessions /\ NoSession.user <= count.users /\ SessionOK(p, NoSession)
      /\ \A u \in DOMAIN db.users :
           LET s == [NoSession EXCEPT !.at = "main", !.user = u] IN s \in Sessions /\ s.user <= count.users /\ SessionOK(p, s)
      /\ LET s == [NoSession EXCEPT !.at = "national_id"] IN s \in Sessions /\ s.user <= count.users /\ SessionOK(p, s)
  <2>1. NoSession \in Sessions /\ NoSession.user <= count.users /\ NoSession.at = "none"
    BY <1>1 DEF NoSession, Sessions
  <2>2. ASSUME NEW u \in DOMAIN db.users
        PROVE  LET s == [NoSession EXCEPT !.at = "main", !.user = u] IN s \in Sessions /\ s.user <= count.users /\ SessionOK(p, s)
    <3>1. u \in Nat /\ u <= count.users
      BY <1>2
    <3> QED BY <2>1, <3>1, SessionAt DEF SessionOK
  <2>3. LET s == [NoSession EXCEPT !.at = "national_id"] IN s \in Sessions /\ s.user <= count.users /\ SessionOK(p, s)
    BY <1>1 DEF NoSession, SessionOK, Sessions
  <2>4. SessionOK(p, NoSession)
    BY <2>1 DEF SessionOK
  <2> QED BY <2>1, <2>2, <2>3, <2>4
<1>4. CASE Dial(p)
  <2>1. ByMobileNumber(p) \subseteq DOMAIN db.users
    BY DEF ByMobileNumber, Known
  <2>2. UNCHANGED <<pilotUsers, db, serving, registering, creating, onLedger, count, approved, rearmed>>
    BY <1>4 DEF Dial
  <2>3. \E s : s \in Sessions /\ s.user <= count.users /\ SessionOK(p, s) /\ Says(p, s)
    <3>1. CASE Says(p, NoSession) \/ Says(p, [NoSession EXCEPT !.at = "national_id"])
      BY <1>3, <3>1
    <3>2. CASE \E u \in DOMAIN db.users : Says(p, [NoSession EXCEPT !.at = "main", !.user = u])
      BY <1>3, <3>2
    <3> QED BY <1>4, <2>1, <3>1, <3>2 DEF Dial
  <2> QED BY <2>2, <2>3, SessionKeeps
<1>5. ASSUME NEW nid \in NationalID, handleRegistrationNationalID(p, nid) PROVE RegInv'
  <2> DEFINE ok == [dialogue[p] EXCEPT !.at = IF ByNationalID(nid) # {} THEN "recover_offer" ELSE "pin",
                                       !.nid = nid, !.misses = 0]
             miss == [dialogue[p] EXCEPT !.misses = dialogue[p].misses + 1]
  <2>1. UNCHANGED <<pilotUsers, db, serving, registering, creating, onLedger, count, approved, rearmed>>
        /\ dialogue[p].at = "national_id"
    BY <1>5 DEF handleRegistrationNationalID
  <2>2. CASE Says(p, NoSession)
    BY <1>3, <2>1, <2>2, SessionKeeps
  <2>3. CASE Says(p, miss) /\ ~(dialogue[p].misses + 1 >= 2)
    <3>1. miss \in Sessions /\ miss.user = dialogue[p].user /\ miss.at = "national_id"
      BY <1>1, <2>1, <2>3 DEF Sessions
    <3>2. SessionOK(p, miss)
      BY <3>1 DEF SessionOK
    <3> HIDE DEF miss
    <3> QED BY <1>1, <2>1, <2>3, <3>1, <3>2, SessionKeeps
  <2>4. CASE Says(p, ok) /\ Matches(p, nid)
    <3> DEFINE to == IF ByNationalID(nid) # {} THEN "recover_offer" ELSE "pin"
    <3>0. to \in {"recover_offer", "pin"}
      OBVIOUS
    <3> HIDE DEF to
    <3>1. ok \in Sessions /\ ok.user = dialogue[p].user /\ ok.at # "answers" /\ ok.nid = nid
      <4>1. ok = [dialogue[p] EXCEPT !.at = to, !.nid = nid, !.misses = 0]
        BY DEF to
      <4> DEFINE old == dialogue[p]
                 zero == 0
      <4>2. old \in Sessions /\ old.user = dialogue[p].user /\ nid \in NationalID /\ zero \in 0..1
        BY <1>1
      <4>3. ok = [old EXCEPT !.at = to, !.nid = nid, !.misses = zero]
        BY <4>1
      <4> HIDE DEF ok, old, zero
      <4>4. ok \in Sessions /\ ok.at = to /\ ok.nid = nid /\ ok.user = old.user
        BY <3>0, <4>2, <4>3 DEF Sessions
      <4> QED BY <3>0, <4>2, <4>4
    <3>2. Approved(p, nid)
      <4>1. PilotGate => pilotUsers[p].nid = nid
        BY <2>4 DEF Matches
      <4> QED BY <1>1, <4>1 DEF AllApproved, Approved
    <3> HIDE DEF ok
    <3>3. SessionOK(p, ok)
      BY <3>1, <3>2 DEF SessionOK
    <3> QED BY <1>1, <2>1, <2>4, <3>1, <3>3, SessionKeeps
  <2> QED BY <1>5, <2>2, <2>3, <2>4 DEF handleRegistrationNationalID
<1>6. CASE handleRecoverOffer(p)
  <2>1. UNCHANGED <<pilotUsers, db, serving, registering, creating, onLedger, count, approved, rearmed>>
        /\ dialogue[p].at = "recover_offer"
    BY <1>6 DEF handleRecoverOffer
  <2>2. CASE Says(p, NoSession)
    BY <1>3, <2>1, <2>2, SessionKeeps
  <2>3. CASE Says(p, [dialogue[p] EXCEPT !.at = "national_id"])
    <3> DEFINE s == [dialogue[p] EXCEPT !.at = "national_id"]
    <3>1. s \in Sessions /\ s.user = dialogue[p].user /\ s.at = "national_id"
      BY <1>1 DEF Sessions
    <3>2. SessionOK(p, s)
      BY <3>1 DEF SessionOK
    <3> HIDE DEF s
    <3>3. Says(p, s)
      BY <2>3 DEF s
    <3> QED BY <1>1, <2>1, <3>1, <3>2, <3>3, SessionKeeps
  <2>4. ASSUME NEW u \in ByNationalID(dialogue[p].nid), Says(p, [dialogue[p] EXCEPT !.at = "answers", !.user = u])
        PROVE  RegInv'
    <3> DEFINE s == [dialogue[p] EXCEPT !.at = "answers", !.user = u]
    <3>1. u \in DOMAIN db.users /\ db.users[u].nid = dialogue[p].nid
      BY DEF ByNationalID, Known
    <3>2. s \in Sessions /\ s.user = u /\ s.at = "answers" /\ s.nid = dialogue[p].nid
      BY <1>1, <1>2, <3>1 DEF Sessions
    <3>3. Approved(p, dialogue[p].nid)
      BY <1>1, <2>1 DEF SessionOK
    <3> HIDE DEF s
    <3>4. SessionOK(p, s)
      BY <3>1, <3>2, <3>3 DEF SessionOK
    <3>5. Says(p, s)
      BY <2>4 DEF s
    <3> QED BY <1>2, <2>1, <3>1, <3>2, <3>4, <3>5, SessionKeeps
  <2> QED BY <1>6, <2>2, <2>3, <2>4 DEF handleRecoverOffer
<1> QED BY <1>4, <1>5, <1>6

\* A step of the transactions in work that gives out no index.
LEMMA TransactionKeeps ==
  ASSUME RegInv, serving, registering' \subseteq Transactions,
         UNCHANGED <<pilotUsers, db, serving, creating, dialogue, onLedger, count, approved, rearmed>>,
         \A r \in registering' : Approved(r.phone, r.nid),
         \A r \in registering' : HasIndex(r) => \E q \in registering : HasIndex(q) /\ q.index = r.index,
         \A q, r \in registering' : HasIndex(q) /\ HasIndex(r) /\ q.index = r.index => q = r
  PROVE  RegInv'
<1>1. RegShaped /\ SequenceAhead /\ TransactionsAhead /\ LedgerBehind /\ KeysAreOwn /\ AllApproved
  BY DEF RegInv
<1>2. RegShaped'
  BY <1>1 DEF RegShaped, RowsOf
<1>3. AllApproved'
  BY <1>1 DEF AllApproved, SessionOK, Approved
<1>4. SequenceAhead' /\ KeysAreOwn'
  BY <1>1 DEF SequenceAhead, KeysAreOwn
<1>5. TransactionsAhead' /\ LedgerBehind'
  BY <1>1 DEF TransactionsAhead, LedgerBehind, HasIndex
<1> QED BY <1>2, <1>3, <1>4, <1>5 DEF RegInv

\* completeRegistration, CreateUser, CreateAccount and Rollback.
LEMMA RegisteringKeeps ==
  ASSUME RegInv,
         \/ \E p \in Phone : completeRegistration(p)
         \/ \E r \in registering : CreateUser(r) \/ CreateAccount(r) \/ Rollback(r)
  PROVE  RegInv'
<1>1. RegShaped /\ TransactionsAhead /\ AllApproved /\ registering \subseteq Transactions
  BY DEF RegInv, RegShaped
<1>2. \A q, r \in registering : HasIndex(q) /\ HasIndex(r) /\ q.index = r.index => q = r
  BY <1>1 DEF TransactionsAhead
<1>3. registering # {} => serving
  BY <1>1 DEF RegShaped
<1>4. \A r \in registering : Approved(r.phone, r.nid)
  BY <1>1 DEF AllApproved
<1>5. ASSUME NEW r \in registering, NEW s \in Transactions, s.phone = r.phone, s.nid = r.nid, s.index = r.index,
             HasIndex(s) => HasIndex(r), Advance(r, s),
             UNCHANGED <<pilotUsers, db, serving, creating, dialogue, onLedger, count, approved, rearmed>>
      PROVE  RegInv'
  <2>1. registering' = (registering \ {r}) \cup {s} /\ serving
    BY <1>3, <1>5 DEF Advance
  <2>2. \A q, t \in registering' : HasIndex(q) /\ HasIndex(t) /\ q.index = t.index => q = t
    <3> SUFFICES ASSUME NEW q \in registering', NEW t \in registering', HasIndex(q), HasIndex(t), q.index = t.index PROVE q = t
      OBVIOUS
    <3>1. CASE q = s /\ t # s
      BY <1>2, <1>5, <2>1, <3>1
    <3>2. CASE t = s /\ q # s
      BY <1>2, <1>5, <2>1, <3>2
    <3>3. CASE q # s /\ t # s
      BY <1>2, <2>1, <3>3
    <3> QED BY <3>1, <3>2, <3>3
  <2>3. registering' \subseteq Transactions /\ \A q \in registering' : Approved(q.phone, q.nid)
    BY <1>1, <1>4, <1>5, <2>1
  <2>4. \A q \in registering' : HasIndex(q) => \E t \in registering : HasIndex(t) /\ t.index = q.index
    BY <1>5, <2>1
  <2> QED BY <1>5, <2>1, <2>2, <2>3, <2>4, TransactionKeeps
<1>6. ASSUME NEW r \in registering, CreateUser(r) PROVE RegInv'
  <2> DEFINE s == [r EXCEPT !.at = "user"]
  <2>1. s \in Transactions /\ s.phone = r.phone /\ s.nid = r.nid /\ s.index = r.index /\ ~HasIndex(s)
    BY <1>1 DEF Transactions, HasIndex
  <2> HIDE DEF s
  <2>2. Advance(r, s) /\ UNCHANGED <<pilotUsers, db, serving, creating, dialogue, onLedger, count, approved, rearmed>>
    BY <1>6 DEF CreateUser, s
  <2> QED BY <1>5, <2>1, <2>2
<1>7. ASSUME NEW r \in registering, CreateAccount(r) PROVE RegInv'
  <2> DEFINE s == [r EXCEPT !.at = "account"]
  <2>1. s \in Transactions /\ s.phone = r.phone /\ s.nid = r.nid /\ s.index = r.index
    BY <1>1 DEF Transactions
  <2>2. HasIndex(r)
    BY <1>7 DEF CreateAccount, HasIndex
  <2> HIDE DEF s
  <2>3. Advance(r, s) /\ UNCHANGED <<pilotUsers, db, serving, creating, dialogue, onLedger, count, approved, rearmed>>
    BY <1>7 DEF CreateAccount, s
  <2> QED BY <1>5, <2>1, <2>2, <2>3
<1>8. ASSUME NEW r \in registering, Rollback(r) PROVE RegInv'
  <2>1. registering' = registering \ {r} /\ serving
        /\ UNCHANGED <<pilotUsers, db, serving, creating, dialogue, onLedger, count, approved, rearmed>>
    BY <1>3, <1>8 DEF Rollback
  <2>2. registering' \subseteq registering
    BY <2>1
  <2> QED BY <1>1, <1>2, <1>4, <2>1, <2>2, TransactionKeeps
<1>9. ASSUME NEW p \in Phone, completeRegistration(p) PROVE RegInv'
  <2>1. /\ serving /\ dialogue[p].at = "pin"
        /\ UNCHANGED <<pilotUsers, db, serving, creating, onLedger, count, approved, rearmed>>
    BY <1>9 DEF completeRegistration
  <2>2. SessionOK(p, dialogue[p]) /\ dialogue[p] \in Sessions /\ count.users \in Nat
    BY <1>1 DEF AllApproved, RegShaped
  <2>3. CASE Says(p, NoSession) /\ UNCHANGED registering
    <3>1. NoSession \in Sessions /\ NoSession.user <= count.users /\ NoSession.at = "none"
      BY <2>2 DEF NoSession, Sessions
    <3>2. SessionOK(p, NoSession)
      BY <3>1 DEF SessionOK
    <3> QED BY <2>1, <2>3, <3>1, <3>2, SessionKeeps
  <2>4. ASSUME NEW id \in 1..MaxOpenRegistrations, UNCHANGED dialogue,
               registering' = registering \cup
                   {[phone |-> p, nid |-> dialogue[p].nid, at |-> "begun", index |-> 0, id |-> id]}
        PROVE  RegInv'
    <3> DEFINE zero == 0
               n == dialogue[p].nid
               s == [phone |-> p, nid |-> n, at |-> "begun", index |-> zero, id |-> id]
    <3>1. registering' = registering \cup {s}
      BY <2>4
    <3>2. n \in NationalID \cup {NoID} /\ zero \in 0..MaxIndex /\ Approved(p, n) /\ id \in Nat
      BY <2>1, <2>2, RegistrationsAssumption DEF Sessions, SessionOK
    <3> HIDE DEF n, zero
    <3>3. s \in Transactions /\ s.phone = p /\ s.nid = n /\ s.at = "begun"
      BY <3>2 DEF Transactions
    <3> HIDE DEF s
    <3>4. ~HasIndex(s) /\ Approved(s.phone, s.nid)
      BY <3>2, <3>3 DEF HasIndex
    <3> QED BY <1>1, <1>2, <1>4, <2>1, <2>4, <3>1, <3>3, <3>4, TransactionKeeps
  <2> QED BY <1>9, <2>3, <2>4 DEF completeRegistration
<1> QED BY <1>6, <1>7, <1>8, <1>9

\* What each write of the database leaves of the rows.
LEMMA SequenceSet ==
  ASSUME NEW d, RowsOf(d), NEW q, NEW e, e = [d EXCEPT !.sequence = q]
  PROVE  e.users = d.users /\ e.accounts = d.accounts /\ e.sequence = q /\ RowsOf(e)
<1>1. e = [users |-> d.users, accounts |-> d.accounts, sequence |-> q]
  BY DEF RowsOf
<1>2. e.users = d.users /\ e.accounts = d.accounts /\ e.sequence = q
  BY <1>1
<1> QED BY <1>1, <1>2 DEF RowsOf

LEMMA UserSet ==
  ASSUME NEW d, RowsOf(d), NEW u \in DOMAIN d.users, NEW p, NEW live, NEW e,
         \/ e = [d EXCEPT !.users[u].phone = p] /\ live = d.users[u].live
         \/ e = [d EXCEPT !.users[u].live = live] /\ p = d.users[u].phone
  PROVE  /\ RowsOf(e) /\ DOMAIN e.users = DOMAIN d.users
         /\ e.accounts = d.accounts /\ e.sequence = d.sequence
         /\ e.users[u].phone = p /\ \A v \in DOMAIN d.users : e.users[v].nid = d.users[v].nid
         /\ \A v \in DOMAIN d.users : v # u => e.users[v] = d.users[v]
<1> DEFINE row == [phone |-> p, nid |-> d.users[u].nid, live |-> live]
           us == [d.users EXCEPT ![u] = row]
<1>1. d = [users |-> d.users, accounts |-> d.accounts, sequence |-> d.sequence]
      /\ d.users[u] = [phone |-> d.users[u].phone, nid |-> d.users[u].nid, live |-> d.users[u].live]
  BY DEF RowsOf
<1>2. e = [users |-> us, accounts |-> d.accounts, sequence |-> d.sequence]
  <2>1. CASE e = [d EXCEPT !.users[u].phone = p] /\ live = d.users[u].live
    <3>1. [d.users[u] EXCEPT !.phone = p] = row
      BY <1>1, <2>1
    <3> HIDE DEF row
    <3>2. [d.users EXCEPT ![u].phone = p] = us
      BY <3>1
    <3> HIDE DEF us
    <3> QED BY <1>1, <2>1, <3>2
  <2>2. CASE e = [d EXCEPT !.users[u].live = live] /\ p = d.users[u].phone
    <3>1. [d.users[u] EXCEPT !.live = live] = row
      BY <1>1, <2>2
    <3> HIDE DEF row
    <3>2. [d.users EXCEPT ![u].live = live] = us
      BY <3>1
    <3> HIDE DEF us
    <3> QED BY <1>1, <2>2, <3>2
  <2> QED BY <2>1, <2>2
<1>3. e.users = us /\ e.accounts = d.accounts /\ e.sequence = d.sequence
  BY <1>2
<1>4. row.phone = p /\ row.nid = d.users[u].nid /\ row = [phone |-> row.phone, nid |-> row.nid, live |-> row.live]
  OBVIOUS
<1> HIDE DEF row
<1>5. DOMAIN us = DOMAIN d.users /\ us[u] = row /\ \A v \in DOMAIN d.users : v # u => us[v] = d.users[v]
  OBVIOUS
<1> HIDE DEF us
<1>6. RowsOf(e)
  <2>1. \A v \in DOMAIN d.users : us[v] = [phone |-> us[v].phone, nid |-> us[v].nid, live |-> us[v].live]
    <3> SUFFICES ASSUME NEW v \in DOMAIN d.users PROVE us[v] = [phone |-> us[v].phone, nid |-> us[v].nid, live |-> us[v].live]
      OBVIOUS
    <3>1. CASE v = u BY <1>4, <1>5, <3>1
    <3>2. CASE v # u
      <4>1. d.users[v] = [phone |-> d.users[v].phone, nid |-> d.users[v].nid, live |-> d.users[v].live]
        BY DEF RowsOf
      <4> QED BY <1>5, <3>2, <4>1
    <3> QED BY <3>1, <3>2
  <2> QED BY <1>2, <1>3, <1>5, <2>1 DEF RowsOf
<1>7. \A v \in DOMAIN d.users : us[v].nid = d.users[v].nid
  BY <1>4, <1>5
<1> QED BY <1>3, <1>4, <1>5, <1>6, <1>7

LEMMA ChainSet ==
  ASSUME NEW d, RowsOf(d), NEW u \in DOMAIN d.users, NEW c, NEW e, e = [d EXCEPT !.accounts[u].chain = c]
  PROVE  /\ RowsOf(e) /\ e.users = d.users /\ e.sequence = d.sequence /\ DOMAIN e.accounts = DOMAIN d.accounts
         /\ \A v \in DOMAIN d.accounts : e.accounts[v].index = d.accounts[v].index
<1> DEFINE row == [index |-> d.accounts[u].index, chain |-> c]
           accs == [d.accounts EXCEPT ![u] = row]
<1>1. /\ d = [users |-> d.users, accounts |-> d.accounts, sequence |-> d.sequence]
      /\ \A v \in DOMAIN d.accounts : d.accounts[v] = [index |-> d.accounts[v].index, chain |-> d.accounts[v].chain]
      /\ DOMAIN d.users = DOMAIN d.accounts
  BY DEF RowsOf
<1>2. e = [users |-> d.users, accounts |-> accs, sequence |-> d.sequence]
  <2>1. [d.accounts[u] EXCEPT !.chain = c] = row
    BY <1>1
  <2> HIDE DEF row
  <2>2. [d.accounts EXCEPT ![u].chain = c] = accs
    BY <2>1
  <2> HIDE DEF accs
  <2> QED BY <1>1, <2>2
<1>3. e.users = d.users /\ e.accounts = accs /\ e.sequence = d.sequence
  BY <1>2
<1>4. row.index = d.accounts[u].index /\ row = [index |-> row.index, chain |-> row.chain]
  OBVIOUS
<1> HIDE DEF row
<1>5. DOMAIN accs = DOMAIN d.accounts /\ accs[u] = row /\ \A v \in DOMAIN d.accounts : v # u => accs[v] = d.accounts[v]
  BY <1>1
<1> HIDE DEF accs
<1>6. \A v \in DOMAIN d.accounts : accs[v].index = d.accounts[v].index /\ accs[v] = [index |-> accs[v].index, chain |-> accs[v].chain]
  <2> SUFFICES ASSUME NEW v \in DOMAIN d.accounts
               PROVE  accs[v].index = d.accounts[v].index /\ accs[v] = [index |-> accs[v].index, chain |-> accs[v].chain]
    OBVIOUS
  <2>1. CASE v = u BY <1>4, <1>5, <2>1
  <2>2. CASE v # u BY <1>1, <1>5, <2>2
  <2> QED BY <2>1, <2>2
<1>7. RowsOf(e)
  BY <1>2, <1>3, <1>5, <1>6 DEF RowsOf
<1> QED BY <1>3, <1>5, <1>6, <1>7

\* An index given out is new to the rows, to the transactions and, with the bases
\* above it, to the ledger.
LEMMA IndexKeeps ==
  ASSUME RegInv, NEW r \in registering, GetNextAccountIndex(r) PROVE RegInv'
<1>1. RegShaped /\ SequenceAhead /\ TransactionsAhead /\ LedgerBehind /\ KeysAreOwn /\ AllApproved
  BY DEF RegInv
<1> DEFINE n == NextIndex(db.sequence)
           q == [last |-> n, called |-> TRUE]
           s == [r EXCEPT !.at = "index", !.index = n]
<1>2. /\ r.at = "user" /\ n <= MaxIndex /\ db' = [db EXCEPT !.sequence = q] /\ Advance(r, s)
      /\ UNCHANGED <<pilotUsers, serving, creating, dialogue, onLedger, count, approved, rearmed>>
  BY DEF GetNextAccountIndex
<1>3. n \in 1..MaxIndex /\ n \in Nat
  BY <1>1, <1>2, RegistrationsAssumption DEF SequenceAhead, NextIndex
<1>4. q.last = n /\ q.called = TRUE
  OBVIOUS
<1>5. NextIndex(q) = n + 1
  BY <1>4 DEF NextIndex
<1>6. q \in [last : 1..MaxIndex, called : BOOLEAN]
  <2> HIDE DEF n
  <2> QED BY <1>3
<1> HIDE DEF q
<1>7. db'.users = db.users /\ db'.accounts = db.accounts /\ db'.sequence = q /\ RowsOf(db')
  <2>1. RowsOf(db) /\ db' = [db EXCEPT !.sequence = q]
    BY <1>1, <1>2 DEF RegShaped
  <2> QED BY <2>1, SequenceSet
<1> HIDE DEF n
<1>8. /\ s \in Transactions /\ s.phone = r.phone /\ s.nid = r.nid /\ s.index = n
      /\ registering' = (registering \ {r}) \cup {s} /\ serving
  <2>1. r \in Transactions /\ serving
    BY <1>1 DEF RegShaped
  <2>2. n \in 0..MaxIndex
    BY <1>3, RegistrationsAssumption
  <2>3. s \in Transactions /\ s.phone = r.phone /\ s.nid = r.nid /\ s.index = n
    BY <2>1, <2>2 DEF Transactions
  <2> QED BY <1>2, <2>1, <2>3 DEF Advance
<1> HIDE DEF s
<1>9. RegShaped'
  <2>1. registering' \subseteq Transactions
    BY <1>1, <1>8 DEF RegShaped
  <2> QED BY <1>1, <1>2, <1>7, <1>8, <2>1 DEF RegShaped
<1>10. NextIndex(db.sequence)' = n + 1
  BY <1>5, <1>7
<1>11. \A u \in DOMAIN db.accounts : db.accounts[u].index \in 1..MaxIndex /\ db.accounts[u].index < n
  BY <1>1 DEF SequenceAhead, n
<1>12. SequenceAhead'
  <2>1. \A u \in DOMAIN db.accounts : db.accounts[u].index < n + 1
    BY <1>3, <1>11
  <2>2. \A u, v \in DOMAIN db.accounts : db.accounts[u].index = db.accounts[v].index => u = v
    BY <1>1 DEF SequenceAhead
  <2> QED BY <1>4, <1>6, <1>7, <1>10, <1>11, <2>1, <2>2 DEF SequenceAhead, q
<1>13. \A t \in registering : HasIndex(t) =>
         /\ t.index \in 1..MaxIndex /\ t.index < n /\ \A u \in DOMAIN db.accounts : db.accounts[u].index # t.index
  BY <1>1 DEF TransactionsAhead, n
<1>14. TransactionsAhead'
  <2>1. ASSUME NEW t \in registering', HasIndex(t)
        PROVE  t.index \in 1..MaxIndex /\ t.index < n + 1 /\ \A u \in DOMAIN db.accounts : db.accounts[u].index # t.index
    <3>1. CASE t = s
      <4>1. \A u \in DOMAIN db.accounts : db.accounts[u].index # n
        BY <1>3, <1>11
      <4> QED BY <1>3, <1>8, <3>1, <4>1
    <3>2. CASE t \in registering
      BY <1>3, <1>13, <2>1, <3>2
    <3> QED BY <1>8, <3>1, <3>2
  <2>2. ASSUME NEW t \in registering', NEW v \in registering', HasIndex(t), HasIndex(v), t.index = v.index PROVE t = v
    <3>1. \A w \in registering : HasIndex(w) => w.index # n
      BY <1>3, <1>13
    <3>2. CASE t \in registering /\ v \in registering
      BY <1>1, <2>2, <3>2 DEF TransactionsAhead
    <3> QED BY <1>8, <2>2, <3>1, <3>2
  <2> QED BY <1>4, <1>7, <1>10, <2>1, <2>2 DEF TransactionsAhead, HasIndex
<1>15. LedgerBehind'
  <2> SUFFICES ASSUME rearmed
               PROVE  /\ \A i \in DOMAIN onLedger : i < n + 1
                      /\ \A t \in registering' : HasIndex(t) => t.index \notin DOMAIN onLedger
    BY <1>2, <1>10 DEF LedgerBehind, HasIndex
  <2>1. /\ \A i \in DOMAIN onLedger : i < n
        /\ \A t \in registering : HasIndex(t) => t.index \notin DOMAIN onLedger
    BY <1>1, <1>8 DEF LedgerBehind, n
  <2>2. \A i \in DOMAIN onLedger : i \in Nat
    BY <1>1, RegistrationsAssumption DEF RegShaped
  <2>3. n \notin DOMAIN onLedger
    BY <1>3, <2>1
  <2> QED BY <1>3, <1>8, <2>1, <2>2, <2>3
<1>16. KeysAreOwn'
  BY <1>1, <1>2, <1>7 DEF KeysAreOwn
<1>17. AllApproved'
  <2>1. \A t \in registering' : Approved(t.phone, t.nid)
    BY <1>1, <1>8 DEF AllApproved
  <2> QED BY <1>1, <1>2, <1>7, <2>1 DEF AllApproved, Approved, SessionOK
<1> QED BY <1>9, <1>12, <1>14, <1>15, <1>16, <1>17 DEF RegInv

\* A committed user's rows appear together, under an index no other row has.
LEMMA CommitKeeps ==
  ASSUME RegInv, NEW r \in registering, Commit(r) PROVE RegInv'
<1>1. RegShaped /\ SequenceAhead /\ TransactionsAhead /\ LedgerBehind /\ KeysAreOwn /\ AllApproved
  BY DEF RegInv
<1> DEFINE u == count.users + 1
           D == DOMAIN db.users
           us == [v \in D \cup {u} |-> IF v = u THEN [phone |-> r.phone, nid |-> r.nid, live |-> TRUE] ELSE db.users[v]]
           accs == [v \in D \cup {u} |-> IF v = u THEN [index |-> r.index, chain |-> "pending"] ELSE db.accounts[v]]
<1>2. /\ r.at = "account" /\ count' = [count EXCEPT !.users = u] /\ registering' = registering \ {r}
      /\ \/ creating' = creating \cup {u} /\ Says(r.phone, [NoSession EXCEPT !.at = "main", !.user = u])
         \/ UNCHANGED <<creating, dialogue>>
      /\ UNCHANGED <<pilotUsers, serving, onLedger, approved, rearmed>>
  BY DEF Commit
<1>3. db = [users |-> db.users, accounts |-> db.accounts, sequence |-> db.sequence] /\ D = DOMAIN db.accounts
  BY <1>1 DEF RegShaped, RowsOf
<1>4. db' = [users |-> us, accounts |-> accs, sequence |-> db.sequence]
  <2>1. db' = [db EXCEPT !.users = us, !.accounts = accs]
    BY <1>3 DEF Commit
  <2> HIDE DEF us, accs
  <2> QED BY <1>3, <2>1
<1>5. db'.users = us /\ db'.accounts = accs /\ db'.sequence = db.sequence
  BY <1>4
<1>6. count.users \in Nat /\ D \subseteq 1..count.users /\ u \in Nat /\ u \notin D /\ D \cup {u} \subseteq 1..u
  BY <1>1 DEF RegShaped
<1>7. count' \in [users : Nat, edits : Nat] /\ count'.users = u
  <2> HIDE DEF u
  <2>1. u \in Nat
    BY <1>6
  <2> QED BY <1>1, <1>2, <2>1 DEF RegShaped
<1>8. r \in Transactions /\ r.phone \in Phone /\ serving /\ Approved(r.phone, r.nid)
  BY <1>1 DEF RegShaped, Transactions, AllApproved
<1> HIDE DEF u
<1>9. /\ DOMAIN us = D \cup {u} /\ DOMAIN accs = D \cup {u}
      /\ us[u] = [phone |-> r.phone, nid |-> r.nid, live |-> TRUE] /\ accs[u] = [index |-> r.index, chain |-> "pending"]
      /\ \A v \in D : us[v] = db.users[v] /\ accs[v] = db.accounts[v]
  BY <1>6
<1> HIDE DEF us, accs, D
<1>10. us[u].phone = r.phone /\ us[u].nid = r.nid /\ accs[u].index = r.index
  BY <1>9
<1>11. RowsOf(db')
  <2>1. \A v \in D : /\ us[v] = [phone |-> us[v].phone, nid |-> us[v].nid, live |-> us[v].live]
                     /\ accs[v] = [index |-> accs[v].index, chain |-> accs[v].chain]
    <3>1. \A v \in D : /\ db.users[v] = [phone |-> db.users[v].phone, nid |-> db.users[v].nid, live |-> db.users[v].live]
                       /\ db.accounts[v] = [index |-> db.accounts[v].index, chain |-> db.accounts[v].chain]
      BY <1>1, <1>3 DEF RegShaped, RowsOf, D
    <3> QED BY <1>9, <3>1
  <2>2. /\ us[u] = [phone |-> us[u].phone, nid |-> us[u].nid, live |-> us[u].live]
        /\ accs[u] = [index |-> accs[u].index, chain |-> accs[u].chain]
    BY <1>9
  <2> QED BY <1>4, <1>5, <1>9, <2>1, <2>2 DEF RowsOf
<1>12. dialogue' \in [Phone -> Sessions] /\ \A p \in Phone : dialogue'[p] = dialogue[p] \/ (dialogue'[p].at = "main" /\ dialogue'[p].user = u)
  <2>1. NoSession \in Sessions
    BY DEF NoSession, Sessions
  <2> DEFINE s == [NoSession EXCEPT !.at = "main", !.user = u]
  <2>2. s \in Sessions /\ s.at = "main" /\ s.user = u
    BY <1>6, <2>1, SessionAt
  <2> HIDE DEF s
  <2>3. dialogue' = dialogue \/ dialogue' = [dialogue EXCEPT ![r.phone] = s]
    BY <1>2 DEF s, Says
  <2>4. dialogue \in [Phone -> Sessions]
    BY <1>1 DEF RegShaped
  <2> QED BY <1>8, <2>2, <2>3, <2>4
<1>13. RegShaped'
  <2>1. \A p \in Phone : dialogue'[p].user <= u
    <3>1. \A p \in Phone : dialogue[p].user <= count.users /\ dialogue[p] \in Sessions
      BY <1>1 DEF RegShaped
    <3>2. \A p \in Phone : dialogue[p].user <= u
      BY <1>6, <3>1 DEF u, Sessions
    <3> QED BY <1>6, <1>12, <3>2
  <2>2. creating' \subseteq D \cup {u}
    BY <1>1, <1>2 DEF RegShaped, D
  <2>3. registering' \subseteq Transactions
    BY <1>1, <1>2 DEF RegShaped
  <2> QED BY <1>1, <1>2, <1>5, <1>6, <1>7, <1>8, <1>9, <1>11, <1>12, <2>1, <2>2, <2>3 DEF RegShaped
<1>14. HasIndex(r)
  BY <1>2 DEF HasIndex
<1>15. /\ r.index \in 1..MaxIndex /\ r.index < NextIndex(db.sequence)
       /\ \A v \in D : db.accounts[v].index # r.index
  BY <1>1, <1>3, <1>14 DEF TransactionsAhead
<1>16. SequenceAhead'
  <2>1. db.sequence.called
    BY <1>1, <1>14 DEF TransactionsAhead
  <2>2. \A v \in D \cup {u} : accs[v].index \in 1..MaxIndex /\ accs[v].index < NextIndex(db.sequence)
    BY <1>1, <1>3, <1>9, <1>10, <1>15 DEF SequenceAhead
  <2>3. \A v, w \in D \cup {u} : accs[v].index = accs[w].index => v = w
    BY <1>1, <1>3, <1>9, <1>10, <1>15 DEF SequenceAhead
  <2> QED BY <1>1, <1>5, <1>9, <2>1, <2>2, <2>3 DEF SequenceAhead
<1>17. TransactionsAhead'
  <2>1. \A t \in registering' : HasIndex(t) => t.index # r.index
    BY <1>1, <1>2, <1>14 DEF TransactionsAhead
  <2>2. \A t \in registering' : HasIndex(t) => \A v \in D \cup {u} : accs[v].index # t.index
    BY <1>1, <1>2, <1>3, <1>9, <1>10, <2>1 DEF TransactionsAhead
  <2> QED BY <1>1, <1>2, <1>5, <1>9, <2>2 DEF TransactionsAhead, HasIndex
<1>18. LedgerBehind'
  BY <1>1, <1>2, <1>5 DEF LedgerBehind, HasIndex
<1>19. KeysAreOwn'
  <2> SUFFICES ASSUME rearmed, NEW v \in D \cup {u}, accs[v].index \in DOMAIN onLedger PROVE onLedger[accs[v].index] = v
    BY <1>2, <1>5, <1>9 DEF KeysAreOwn
  <2>1. v # u
    BY <1>1, <1>10, <1>14 DEF LedgerBehind
  <2> QED BY <1>1, <1>3, <1>9, <2>1 DEF KeysAreOwn
<1>20. AllApproved'
  <2>1. \A v \in D \cup {u} : Approved(us[v].phone, us[v].nid)
    BY <1>1, <1>8, <1>9, <1>10 DEF AllApproved, D
  <2>2. \A p \in Phone : /\ dialogue'[p].at \in {"recover_offer", "answers", "pin"} => Approved(p, dialogue'[p].nid)
                         /\ dialogue'[p].at = "answers" /\ dialogue'[p].user \in D \cup {u} => us[dialogue'[p].user].nid = dialogue'[p].nid
    <3> SUFFICES ASSUME NEW p \in Phone, dialogue'[p] = dialogue[p]
                 PROVE  /\ dialogue[p].at \in {"recover_offer", "answers", "pin"} => Approved(p, dialogue[p].nid)
                        /\ dialogue[p].at = "answers" /\ dialogue[p].user \in D \cup {u} => us[dialogue[p].user].nid = dialogue[p].nid
      BY <1>12
    <3>1. SessionOK(p, dialogue[p])
      BY <1>1 DEF AllApproved
    <3>2. dialogue[p].user # u
      <4>1. dialogue[p].user <= count.users
        BY <1>1 DEF RegShaped
      <4> QED BY <1>6, <4>1 DEF u
    <3> QED BY <1>9, <3>1, <3>2 DEF SessionOK, D
  <2> QED BY <1>1, <1>2, <1>5, <1>9, <2>1, <2>2 DEF AllApproved, Approved, SessionOK
<1> QED BY <1>13, <1>16, <1>17, <1>18, <1>19, <1>20 DEF RegInv

\* A move of an account to a new SIM.
LEMMA RecoverKeeps ==
  ASSUME RegInv, NEW p \in Phone, handleRecoverSimQ2(p) PROVE RegInv'
<1>1. RegShaped /\ SequenceAhead /\ TransactionsAhead /\ LedgerBehind /\ KeysAreOwn /\ AllApproved
  BY DEF RegInv
<1> DEFINE u == dialogue[p].user
           s == [NoSession EXCEPT !.at = "main", !.user = u]
<1>2. /\ dialogue[p].at = "answers"
      /\ UNCHANGED <<pilotUsers, serving, registering, creating, onLedger, count, approved, rearmed>>
  BY DEF handleRecoverSimQ2
<1>3. dialogue \in [Phone -> Sessions] /\ u \in Nat /\ u <= count.users /\ count.users \in Nat /\ SessionOK(p, dialogue[p])
  BY <1>1 DEF RegShaped, Sessions, AllApproved
<1>4. NoSession \in Sessions /\ NoSession.user <= count.users /\ NoSession.at = "none"
  BY <1>3 DEF NoSession, Sessions
<1>5. CASE Says(p, NoSession) /\ UNCHANGED db
  <2>1. SessionOK(p, NoSession)
    BY <1>4 DEF SessionOK
  <2> QED BY <1>2, <1>4, <1>5, <2>1, SessionKeeps
<1>6. ASSUME u \in DOMAIN db.users, db' = [db EXCEPT !.users[u].phone = p], Says(p, s) PROVE RegInv'
  <2>1. s \in Sessions /\ s.at = "main" /\ s.user = u
    <3> HIDE DEF u
    <3> QED BY <1>3, <1>4, SessionAt
  <2> HIDE DEF s, u
  <2>2. /\ dialogue' \in [Phone -> Sessions] /\ dialogue'[p] = s
        /\ \A q \in Phone : q # p => dialogue'[q] = dialogue[q]
    BY <1>3, <1>6, <2>1 DEF Says
  <2>3. /\ RowsOf(db') /\ DOMAIN db'.users = DOMAIN db.users
        /\ db'.accounts = db.accounts /\ db'.sequence = db.sequence
        /\ db'.users[u].phone = p /\ \A v \in DOMAIN db.users : db'.users[v].nid = db.users[v].nid
        /\ \A v \in DOMAIN db.users : v # u => db'.users[v] = db.users[v]
    <3>1. RowsOf(db)
      BY <1>1 DEF RegShaped
    <3> QED BY <1>6, <3>1, UserSet
  <2>4. RegShaped'
    <3>1. \A q \in Phone : dialogue'[q].user <= count.users
      BY <1>1, <1>3, <2>1, <2>2 DEF RegShaped
    <3> QED BY <1>1, <1>2, <2>2, <2>3, <3>1 DEF RegShaped
  <2>5. SequenceAhead' /\ TransactionsAhead' /\ LedgerBehind' /\ KeysAreOwn'
    BY <1>1, <1>2, <2>3 DEF SequenceAhead, TransactionsAhead, LedgerBehind, KeysAreOwn
  <2>6. AllApproved'
    <3>1. Approved(p, db.users[u].nid)
      BY <1>2, <1>3, <1>6 DEF SessionOK, u
    <3>2. \A v \in DOMAIN db.users : Approved(db'.users[v].phone, db'.users[v].nid)
      <4> SUFFICES ASSUME NEW v \in DOMAIN db.users PROVE Approved(db'.users[v].phone, db'.users[v].nid)
        OBVIOUS
      <4>1. CASE v = u BY <2>3, <3>1, <4>1
      <4>2. CASE v # u BY <1>1, <2>3, <4>2 DEF AllApproved
      <4> QED BY <4>1, <4>2
    <3>3. \A q \in Phone : /\ dialogue'[q].at \in {"recover_offer", "answers", "pin"} => Approved(q, dialogue'[q].nid)
                           /\ dialogue'[q].at = "answers" /\ dialogue'[q].user \in DOMAIN db.users
                                => db.users[dialogue'[q].user].nid = dialogue'[q].nid
      <4>1. \A q \in Phone : SessionOK(q, dialogue[q])
        BY <1>1 DEF AllApproved
      <4> QED BY <2>1, <2>2, <4>1 DEF SessionOK
    <3> QED BY <1>1, <1>2, <2>3, <3>2, <3>3 DEF AllApproved, Approved, SessionOK
  <2> QED BY <2>4, <2>5, <2>6 DEF RegInv
<1> QED BY <1>5, <1>6 DEF handleRecoverSimQ2

\* The creation on the ledger: a key that exists is left to whom it belongs.
LEMMA LedgerKeeps ==
  ASSUME RegInv, NEW u, CreateOnLedger(u) PROVE RegInv'
<1>1. RegShaped /\ SequenceAhead /\ TransactionsAhead /\ LedgerBehind /\ KeysAreOwn /\ AllApproved
  BY DEF RegInv
<1> DEFINE i == db.accounts[u].index
           c == IF i \in DOMAIN onLedger THEN "conflict" ELSE "confirmed"
<1>2. /\ u \in creating /\ creating' = creating \ {u} /\ db' = [db EXCEPT !.accounts[u].chain = c]
      /\ onLedger' = IF i \in DOMAIN onLedger THEN onLedger
                     ELSE [j \in DOMAIN onLedger \cup {i} |-> IF j = i THEN u ELSE onLedger[j]]
      /\ UNCHANGED <<pilotUsers, serving, registering, dialogue, count, approved, rearmed>>
  BY DEF CreateOnLedger
<1>3. serving /\ u \in DOMAIN db.users /\ DOMAIN db.users = DOMAIN db.accounts
  BY <1>1, <1>2 DEF RegShaped, RowsOf
<1> HIDE DEF c
<1>4. /\ RowsOf(db') /\ db'.users = db.users /\ db'.sequence = db.sequence /\ DOMAIN db'.accounts = DOMAIN db.accounts
      /\ \A v \in DOMAIN db.accounts : db'.accounts[v].index = db.accounts[v].index
  <2>1. RowsOf(db)
    BY <1>1 DEF RegShaped
  <2> QED BY <1>2, <1>3, <2>1, ChainSet
<1>5. i \in 1..MaxIndex /\ i < NextIndex(db.sequence)
  BY <1>1, <1>3 DEF SequenceAhead
<1> HIDE DEF i
<1>6. /\ DOMAIN onLedger' \subseteq DOMAIN onLedger \cup {i}
      /\ \A j \in DOMAIN onLedger' : (onLedger'[j] = onLedger[j] /\ j \in DOMAIN onLedger) \/ (j = i /\ onLedger'[j] = u)
  BY <1>2
<1>7. RegShaped'
  <2>1. DOMAIN onLedger' \subseteq 1..MaxIndex
    BY <1>1, <1>5, <1>6 DEF RegShaped
  <2>2. creating' \subseteq DOMAIN db.users
    BY <1>1, <1>2 DEF RegShaped
  <2> QED BY <1>1, <1>2, <1>3, <1>4, <2>1, <2>2 DEF RegShaped
<1>8. SequenceAhead'
  BY <1>1, <1>4 DEF SequenceAhead
<1>9. TransactionsAhead'
  BY <1>1, <1>2, <1>4 DEF TransactionsAhead, HasIndex
<1>10. LedgerBehind'
  <2>1. \A r \in registering : HasIndex(r) => r.index # i
    BY <1>1, <1>3 DEF TransactionsAhead, i
  <2>2. rearmed => \A j \in DOMAIN onLedger' : j < NextIndex(db.sequence)
    BY <1>1, <1>3, <1>5, <1>6 DEF LedgerBehind
  <2>3. rearmed => \A r \in registering : HasIndex(r) => r.index \notin DOMAIN onLedger'
    BY <1>1, <1>6, <2>1 DEF LedgerBehind
  <2> QED BY <1>2, <1>4, <2>2, <2>3 DEF LedgerBehind, HasIndex
<1>11. KeysAreOwn'
  <2> SUFFICES ASSUME rearmed, NEW v \in DOMAIN db.accounts, db.accounts[v].index \in DOMAIN onLedger'
               PROVE  onLedger'[db.accounts[v].index] = v
    BY <1>2, <1>4 DEF KeysAreOwn
  <2>1. CASE db.accounts[v].index = i /\ onLedger'[i] = u
    BY <1>1, <1>3, <2>1 DEF SequenceAhead, i
  <2>2. CASE db.accounts[v].index \in DOMAIN onLedger /\ onLedger'[db.accounts[v].index] = onLedger[db.accounts[v].index]
    BY <1>1, <2>2 DEF KeysAreOwn
  <2> QED BY <1>6, <2>1, <2>2
<1>12. AllApproved'
  BY <1>1, <1>2, <1>4 DEF AllApproved, Approved, SessionOK
<1> QED BY <1>7, <1>8, <1>9, <1>10, <1>11, <1>12 DEF RegInv

\* Edits of the list and of user rows, and a stop.
LEMMA EditsKeep ==
  ASSUME RegInv,
         \/ \E p \in Phone, nid \in NationalID : AddPilot(p, nid)
         \/ \E nid \in NationalID : RevokePilot(nid) \/ RestorePilot(nid)
         \/ \E u \in DOMAIN db.users : DeleteUser(u) \/ RestoreUser(u)
         \/ StopServer
  PROVE  RegInv'
<1>1. RegShaped /\ SequenceAhead /\ TransactionsAhead /\ LedgerBehind /\ KeysAreOwn /\ AllApproved
  BY DEF RegInv
<1>2. ASSUME Edit PROVE count' \in [users : Nat, edits : Nat] /\ count'.users = count.users
  <2>1. count \in [users : Nat, edits : Nat] /\ count' = [count EXCEPT !.edits = count.edits + 1]
    BY <1>1, <1>2 DEF RegShaped, Edit
  <2> QED BY <2>1
<1>3. ASSUME Edit, pilotUsers' \in [Phone -> [nid : NationalID, active : BOOLEAN]], approved \subseteq approved',
             \A p \in Phone : PilotGate => <<p, pilotUsers'[p].nid>> \in approved',
             UNCHANGED <<db, serving, registering, creating, dialogue, onLedger, rearmed>>
      PROVE  RegInv'
  <2>1. RegShaped'
    BY <1>1, <1>2, <1>3 DEF RegShaped
  <2>2. SequenceAhead' /\ TransactionsAhead' /\ LedgerBehind' /\ KeysAreOwn'
    BY <1>1, <1>3 DEF SequenceAhead, TransactionsAhead, LedgerBehind, KeysAreOwn
  <2>3. AllApproved'
    BY <1>1, <1>3 DEF AllApproved, Approved, SessionOK
  <2> QED BY <2>1, <2>2, <2>3 DEF RegInv
<1>4. ASSUME NEW p \in Phone, NEW nid \in NationalID, AddPilot(p, nid) PROVE RegInv'
  <2> DEFINE row == [nid |-> nid, active |-> TRUE]
  <2>1. row \in [nid : NationalID, active : BOOLEAN] /\ row.nid = nid
    OBVIOUS
  <2> HIDE DEF row
  <2>2. /\ Edit /\ pilotUsers' = [pilotUsers EXCEPT ![p] = row] /\ approved' = approved \cup {<<p, nid>>}
        /\ UNCHANGED <<db, serving, registering, creating, dialogue, onLedger, rearmed>>
    BY <1>4 DEF AddPilot, row
  <2>3. /\ pilotUsers' \in [Phone -> [nid : NationalID, active : BOOLEAN]]
        /\ \A q \in Phone : q # p => pilotUsers'[q] = pilotUsers[q]
        /\ pilotUsers'[p] = row
    BY <1>1, <2>1, <2>2 DEF RegShaped
  <2>4. \A q \in Phone : PilotGate => <<q, pilotUsers'[q].nid>> \in approved'
    BY <1>1, <2>1, <2>2, <2>3 DEF AllApproved, Approved
  <2> QED BY <1>3, <2>2, <2>3, <2>4
<1>5. ASSUME NEW nid \in NationalID, NEW a \in BOOLEAN, SetActive(nid, a) PROVE RegInv'
  <2>1. /\ Edit /\ UNCHANGED <<db, serving, registering, creating, dialogue, onLedger, approved, rearmed>>
        /\ pilotUsers' = [p \in Phone |-> IF pilotUsers[p].nid = nid THEN [pilotUsers[p] EXCEPT !.active = a] ELSE pilotUsers[p]]
    BY <1>5 DEF SetActive
  <2>2. \A p \in Phone : pilotUsers'[p] \in [nid : NationalID, active : BOOLEAN] /\ pilotUsers'[p].nid = pilotUsers[p].nid
    <3> TAKE p \in Phone
    <3> DEFINE old == pilotUsers[p]
    <3>1. old \in [nid : NationalID, active : BOOLEAN]
      BY <1>1 DEF RegShaped
    <3>2. pilotUsers'[p] = [old EXCEPT !.active = a] \/ pilotUsers'[p] = old
      BY <2>1
    <3>3. [old EXCEPT !.active = a].nid = old.nid
      <4> HIDE DEF old
      <4> QED BY <3>1
    <3>4. [old EXCEPT !.active = a] \in [nid : NationalID, active : BOOLEAN]
      <4> HIDE DEF old
      <4> QED BY <1>5, <3>1, Zenon
    <3> QED BY <3>1, <3>2, <3>3, <3>4
  <2>3. pilotUsers' \in [Phone -> [nid : NationalID, active : BOOLEAN]]
    <3>1. pilotUsers' = [p \in Phone |-> pilotUsers'[p]]
      BY <2>1
    <3> QED BY <2>2, <3>1
  <2>4. \A q \in Phone : PilotGate => <<q, pilotUsers'[q].nid>> \in approved'
    BY <1>1, <2>1, <2>2 DEF AllApproved, Approved
  <2> QED BY <1>3, <2>1, <2>3, <2>4
<1>6. ASSUME NEW u \in DOMAIN db.users, NEW l \in BOOLEAN, Edit, db' = [db EXCEPT !.users[u].live = l],
             UNCHANGED <<pilotUsers, serving, registering, creating, dialogue, onLedger, approved, rearmed>>
      PROVE  RegInv'
  <2>1. /\ RowsOf(db') /\ DOMAIN db'.users = DOMAIN db.users
        /\ db'.accounts = db.accounts /\ db'.sequence = db.sequence
        /\ db'.users[u].phone = db.users[u].phone /\ \A v \in DOMAIN db.users : db'.users[v].nid = db.users[v].nid
        /\ \A v \in DOMAIN db.users : v # u => db'.users[v] = db.users[v]
    <3>1. RowsOf(db)
      BY <1>1 DEF RegShaped
    <3> QED BY <1>6, <3>1, UserSet
  <2>2. RegShaped'
    BY <1>1, <1>2, <1>6, <2>1 DEF RegShaped
  <2>3. SequenceAhead' /\ TransactionsAhead' /\ LedgerBehind' /\ KeysAreOwn'
    BY <1>1, <1>6, <2>1 DEF SequenceAhead, TransactionsAhead, LedgerBehind, KeysAreOwn
  <2>4. \A v \in DOMAIN db.users : db'.users[v].phone = db.users[v].phone
    BY <2>1
  <2>5. AllApproved'
    BY <1>1, <1>6, <2>1, <2>4 DEF AllApproved, Approved, SessionOK
  <2> QED BY <2>2, <2>3, <2>5 DEF RegInv
<1>7. CASE StopServer
  <2>1. /\ registering' = {} /\ creating' = {} /\ serving' = FALSE
        /\ UNCHANGED <<pilotUsers, db, dialogue, onLedger, count, approved, rearmed>>
    BY <1>7 DEF StopServer
  <2>2. RegShaped'
    BY <1>1, <2>1 DEF RegShaped, RowsOf
  <2>3. SequenceAhead' /\ TransactionsAhead' /\ LedgerBehind' /\ KeysAreOwn'
    BY <1>1, <2>1 DEF SequenceAhead, TransactionsAhead, LedgerBehind, KeysAreOwn
  <2>4. AllApproved'
    BY <1>1, <2>1 DEF AllApproved, Approved, SessionOK
  <2> QED BY <2>2, <2>3, <2>4 DEF RegInv
<1> QED BY <1>4, <1>5, <1>6, <1>7 DEF RevokePilot, RestorePilot, DeleteUser, RestoreUser

\* A restored copy keeps rows it had, and a sequence that is ahead of them.
LEMMA RestoreKeeps ==
  ASSUME RegInv, NEW kept, NEW last \in 1..MaxIndex, RestoreDatabase(kept, last) PROVE RegInv'
<1>1. RegShaped /\ SequenceAhead /\ TransactionsAhead /\ LedgerBehind /\ KeysAreOwn /\ AllApproved
  BY DEF RegInv
<1> DEFINE left == DOMAIN db.users \cap 1..kept
           us == [u \in left |-> db.users[u]]
           accs == [u \in left |-> db.accounts[u]]
<1>2. PICK called \in BOOLEAN :
        /\ ~called => left = {}
        /\ db' = [users |-> us, accounts |-> accs, sequence |-> [last |-> last, called |-> called]]
  BY DEF RestoreDatabase
<1>3. /\ ~serving /\ Edit /\ \A u \in left : db.accounts[u].index <= last
      /\ UNCHANGED <<pilotUsers, serving, registering, creating, dialogue, onLedger, approved, rearmed>>
  BY DEF RestoreDatabase
<1>4. registering = {} /\ creating = {} /\ last \in Nat
  BY <1>1, <1>3, RegistrationsAssumption DEF RegShaped
<1>5. count' \in [users : Nat, edits : Nat] /\ count'.users = count.users
  <2>1. count \in [users : Nat, edits : Nat] /\ count' = [count EXCEPT !.edits = count.edits + 1]
    BY <1>1, <1>3 DEF RegShaped, Edit
  <2> QED BY <2>1
<1>6. /\ DOMAIN us = left /\ DOMAIN accs = left /\ left \subseteq DOMAIN db.users /\ DOMAIN db.accounts = DOMAIN db.users
      /\ \A u \in left : us[u] = db.users[u] /\ accs[u] = db.accounts[u]
  BY <1>1 DEF RegShaped, RowsOf
<1> DEFINE q == [last |-> last, called |-> called]
<1>7. db'.users = us /\ db'.accounts = accs /\ db'.sequence = q
  BY <1>2
<1>8. q.last = last /\ q.called = called /\ q \in [last : 1..MaxIndex, called : BOOLEAN] /\ NextIndex(q) = IF called THEN last + 1 ELSE last
  BY DEF NextIndex
<1> HIDE DEF us, accs, left
<1>9. RowsOf(db')
  <2>1. \A u \in left : /\ db.users[u] = [phone |-> db.users[u].phone, nid |-> db.users[u].nid, live |-> db.users[u].live]
                        /\ db.accounts[u] = [index |-> db.accounts[u].index, chain |-> db.accounts[u].chain]
    BY <1>1, <1>6 DEF RegShaped, RowsOf
  <2> QED BY <1>2, <1>6, <1>7, <2>1 DEF RowsOf
<1> HIDE DEF q
<1>10. RegShaped'
  <2>1. \A p \in Phone : dialogue'[p].user <= count'.users
    BY <1>1, <1>3, <1>5 DEF RegShaped
  <2>2. DOMAIN db'.users \subseteq 1..count'.users
    BY <1>1, <1>5, <1>6, <1>7 DEF RegShaped
  <2> QED BY <1>1, <1>3, <1>4, <1>5, <1>9, <2>1, <2>2 DEF RegShaped
<1>11. SequenceAhead'
  <2>1. \A u \in left : accs[u].index \in 1..MaxIndex /\ accs[u].index < NextIndex(q)
    <3> SUFFICES ASSUME NEW u \in left PROVE accs[u].index \in 1..MaxIndex /\ accs[u].index < NextIndex(q)
      OBVIOUS
    <3>1. accs[u].index \in 1..MaxIndex /\ accs[u].index <= last
      BY <1>1, <1>3, <1>6 DEF SequenceAhead
    <3>2. called
      BY <1>2
    <3> QED BY <1>4, <1>8, <3>1, <3>2
  <2>2. \A u, v \in left : accs[u].index = accs[v].index => u = v
    BY <1>1, <1>6 DEF SequenceAhead
  <2>3. ~q.called => left = {}
    BY <1>2, <1>8
  <2> QED BY <1>6, <1>7, <1>8, <2>1, <2>2, <2>3 DEF SequenceAhead
<1>12. TransactionsAhead' /\ LedgerBehind'
  BY <1>1, <1>3, <1>4 DEF TransactionsAhead, LedgerBehind
<1>13. KeysAreOwn'
  BY <1>1, <1>3, <1>6, <1>7 DEF KeysAreOwn
<1>14. AllApproved'
  BY <1>1, <1>3, <1>4, <1>6, <1>7 DEF AllApproved, Approved, SessionOK
<1> QED BY <1>10, <1>11, <1>12, <1>13, <1>14 DEF RegInv

LEMMA LargestIs ==
  ASSUME NEW S \in SUBSET Nat, S # {}, NEW b \in Nat, \A x \in S : x <= b
  PROVE  Largest(S) \in S /\ \A y \in S : y <= Largest(S)
<1> DEFINE T == {b - n : n \in S}
<1>1. T \in SUBSET Nat /\ T # {}
  <2>1. \A n \in S : b - n \in Nat
    OBVIOUS
  <2> QED BY <2>1
<1>2. \A n \in S : b - n \in T
  OBVIOUS
<1>3. PICK x \in T : \A y \in T : x <= y
  BY <1>1, LeastOf
<1>4. PICK n \in S : x = b - n
  BY <1>3
<1>5. \A m \in S : m <= n
  <2> TAKE m \in S
  <2>1. b - n <= b - m
    BY <1>2, <1>3, <1>4
  <2> QED BY <2>1
<1> QED BY <1>5 DEF Largest

LEMMA LargerIs ==
  ASSUME NEW a \in Nat, NEW b \in Nat
  PROVE  LET m == Largest({a, b}) IN m \in {a, b} /\ a <= m /\ b <= m
<1> DEFINE S == {a, b}
<1>1. S \in SUBSET Nat /\ S # {} /\ a + b \in Nat /\ \A x \in S : x <= a + b
  OBVIOUS
<1>2. a \in S /\ b \in S
  OBVIOUS
<1> HIDE DEF S
<1>3. Largest(S) \in S /\ \A y \in S : y <= Largest(S)
  BY <1>1, LargestIs
<1> QED BY <1>2, <1>3 DEF S

\* A boot moves the sequence past the rows and the base.
LEMMA FloorIs ==
  ASSUME RegInv, NEW base \in Bases,
         NEW q, q = EnsureAccountIndexFloor(Largest({base, MaxAccountIndex}))
  PROVE  /\ q \in [last : 1..MaxIndex, called : BOOLEAN] /\ q.called = db.sequence.called
         /\ NextIndex(db.sequence) <= NextIndex(q) /\ base <= NextIndex(q)
<1> DEFINE s == db.sequence
           f == Largest({base, MaxAccountIndex})
<1>1. s \in [last : 1..MaxIndex, called : BOOLEAN] /\ s.last \in Nat /\ base \in 0..MaxIndex /\ MaxIndex \in Nat /\ base \in Nat
  BY RegistrationsAssumption DEF RegInv, SequenceAhead
<1>2. /\ MaxAccountIndex \in Nat
      /\ ~s.called => MaxAccountIndex = 0
      /\ s.called => MaxAccountIndex <= s.last + 1
  <2>1. CASE DOMAIN db.accounts = {}
    BY <1>1, <2>1 DEF MaxAccountIndex
  <2>2. CASE DOMAIN db.accounts # {}
    <3> DEFINE I == {db.accounts[u].index : u \in DOMAIN db.accounts}
    <3>1. s.called
      BY <2>2 DEF RegInv, SequenceAhead
    <3>2. \A u \in DOMAIN db.accounts : db.accounts[u].index \in Nat /\ db.accounts[u].index <= s.last
      BY <1>1, <3>1 DEF RegInv, SequenceAhead, NextIndex
    <3>3. I \in SUBSET Nat /\ I # {} /\ \A x \in I : x <= s.last
      BY <2>2, <3>2
    <3> HIDE DEF I
    <3>4. Largest(I) \in Nat /\ Largest(I) <= s.last
      BY <1>1, <3>3, LargestIs
    <3>5. MaxAccountIndex = Largest(I) + 1
      BY <2>2 DEF MaxAccountIndex, I
    <3> QED BY <1>1, <3>1, <3>4, <3>5
  <2> QED BY <2>1, <2>2
<1>3. f \in {base, MaxAccountIndex} /\ base <= f /\ MaxAccountIndex <= f /\ f \in Nat
  BY <1>1, <1>2, LargerIs
<1> HIDE DEF s, f
<1>4. q = IF f = 0 THEN s
          ELSE IF ~s.called THEN [last |-> Largest({s.last, f}), called |-> FALSE]
          ELSE [last |-> Largest({s.last, f - 1}), called |-> TRUE]
  BY DEF EnsureAccountIndexFloor, s, f
<1>5. CASE f = 0
  <2>1. q = s
    BY <1>4, <1>5
  <2>2. NextIndex(s) \in Nat
    BY <1>1 DEF NextIndex
  <2> QED BY <1>1, <1>3, <1>5, <2>1, <2>2 DEF s
<1>6. CASE f # 0 /\ ~s.called
  <2> DEFINE l == Largest({s.last, f})
  <2>1. l \in {s.last, f} /\ s.last <= l /\ f <= l
    BY <1>1, <1>3, LargerIs
  <2> HIDE DEF l
  <2>2. l \in 1..MaxIndex
    BY <1>1, <1>2, <1>3, <1>6, <2>1
  <2>3. q = [last |-> l, called |-> FALSE]
    BY <1>4, <1>6 DEF l
  <2>4. q.last = l /\ q.called = FALSE /\ q \in [last : 1..MaxIndex, called : BOOLEAN]
    <3> DEFINE t == [last |-> l, called |-> FALSE]
    <3>1. t.last = l /\ t.called = FALSE /\ t \in [last : 1..MaxIndex, called : BOOLEAN]
      BY <2>2
    <3>2. q = t
      BY <2>3
    <3> HIDE DEF t
    <3> QED BY <3>1, <3>2
  <2>5. NextIndex(q) = l /\ NextIndex(s) = s.last
    BY <1>6, <2>4 DEF NextIndex
  <2>6. s.called = FALSE
    BY <1>1, <1>6
  <2> QED BY <1>1, <1>3, <2>1, <2>2, <2>4, <2>5, <2>6 DEF s
<1>7. CASE f # 0 /\ s.called
  <2> DEFINE l == Largest({s.last, f - 1})
  <2>0. f - 1 \in Nat
    BY <1>3, <1>7
  <2>1. l \in {s.last, f - 1} /\ s.last <= l /\ f - 1 <= l
    BY <1>1, <2>0, LargerIs
  <2> HIDE DEF l
  <2>2. l \in 1..MaxIndex
    BY <1>1, <1>2, <1>3, <1>7, <2>1
  <2>3. q = [last |-> l, called |-> TRUE]
    BY <1>4, <1>7 DEF l
  <2>4. q.last = l /\ q.called = TRUE /\ q \in [last : 1..MaxIndex, called : BOOLEAN]
    <3> DEFINE t == [last |-> l, called |-> TRUE]
    <3>1. t.last = l /\ t.called = TRUE /\ t \in [last : 1..MaxIndex, called : BOOLEAN]
      BY <2>2
    <3>2. q = t
      BY <2>3
    <3> HIDE DEF t
    <3> QED BY <3>1, <3>2
  <2>5. NextIndex(q) = l + 1 /\ NextIndex(s) = s.last + 1
    BY <1>7, <2>4 DEF NextIndex
  <2>6. s.called = TRUE
    BY <1>1, <1>7
  <2> QED BY <1>1, <1>3, <2>1, <2>2, <2>4, <2>5, <2>6 DEF s
<1> QED BY <1>5, <1>6, <1>7

LEMMA BootKeeps ==
  ASSUME RegInv, NEW base \in Bases, Boot(base) PROVE RegInv'
<1>1. RegShaped /\ SequenceAhead /\ TransactionsAhead /\ LedgerBehind /\ KeysAreOwn /\ AllApproved
  BY DEF RegInv
<1> DEFINE q == EnsureAccountIndexFloor(Largest({base, MaxAccountIndex}))
<1>2. /\ ~serving /\ db' = [db EXCEPT !.sequence = q] /\ rearmed' = (rearmed /\ \A i \in DOMAIN onLedger : i < base)
      /\ UNCHANGED <<pilotUsers, registering, creating, dialogue, onLedger, count, approved>>
  BY DEF Boot
<1>3. /\ q \in [last : 1..MaxIndex, called : BOOLEAN] /\ q.called = db.sequence.called
      /\ NextIndex(db.sequence) <= NextIndex(q) /\ base <= NextIndex(q)
  BY FloorIs
<1> HIDE DEF q
<1>4. registering = {} /\ creating = {}
  BY <1>1, <1>2 DEF RegShaped
<1>5. db'.users = db.users /\ db'.accounts = db.accounts /\ db'.sequence = q /\ RowsOf(db')
  <2>1. RowsOf(db)
    BY <1>1 DEF RegShaped
  <2> QED BY <1>2, <2>1, SequenceSet
<1>6. RegShaped'
  BY <1>1, <1>2, <1>4, <1>5 DEF RegShaped
<1>7. NextIndex(q) \in Nat /\ NextIndex(db.sequence) \in Nat
  BY <1>1, <1>3, RegistrationsAssumption DEF SequenceAhead, NextIndex
<1>8. SequenceAhead'
  <2>1. \A u \in DOMAIN db.accounts : db.accounts[u].index \in 1..MaxIndex /\ db.accounts[u].index < NextIndex(q)
    <3>1. \A u \in DOMAIN db.accounts : db.accounts[u].index \in 1..MaxIndex /\ db.accounts[u].index < NextIndex(db.sequence)
      BY <1>1 DEF SequenceAhead
    <3>2. \A u \in DOMAIN db.accounts : db.accounts[u].index \in Nat
      BY <3>1, RegistrationsAssumption
    <3> QED BY <1>3, <1>7, <3>1, <3>2
  <2> QED BY <1>1, <1>3, <1>5, <2>1 DEF SequenceAhead
<1>9. TransactionsAhead'
  BY <1>2, <1>4 DEF TransactionsAhead
<1>10. LedgerBehind'
  <2>1. rearmed' => \A i \in DOMAIN onLedger : i < NextIndex(q)
    <3>1. \A i \in DOMAIN onLedger : i \in Nat
      BY <1>1, RegistrationsAssumption DEF RegShaped
    <3>2. base \in Nat
      BY RegistrationsAssumption
    <3>3. rearmed' => \A i \in DOMAIN onLedger : i < base
      BY <1>2, Zenon
    <3> QED BY <1>3, <1>7, <3>1, <3>2, <3>3
  <2> QED BY <1>2, <1>4, <1>5, <2>1 DEF LedgerBehind
<1>11. KeysAreOwn'
  BY <1>1, <1>2, <1>5 DEF KeysAreOwn
<1>12. AllApproved'
  BY <1>1, <1>2, <1>5 DEF AllApproved, Approved, SessionOK
<1> QED BY <1>6, <1>8, <1>9, <1>10, <1>11, <1>12 DEF RegInv

LEMMA RegSteps == RegInv /\ [RegistrationsNext]_regVars => RegInv'
<1> SUFFICES ASSUME RegInv, [RegistrationsNext]_regVars PROVE RegInv'
  OBVIOUS
<1>1. CASE UNCHANGED regVars
  BY <1>1 DEF regVars, RegInv, RegShaped, RowsOf, SequenceAhead, TransactionsAhead, LedgerBehind, KeysAreOwn, AllApproved,
              Approved, SessionOK, HasIndex
<1>2. CASE \E p \in Phone : \/ Dial(p) \/ handleRecoverOffer(p) \/ handleRecoverSimQ2(p) \/ completeRegistration(p)
                            \/ \E nid \in NationalID : handleRegistrationNationalID(p, nid) \/ AddPilot(p, nid)
  <2>1. PICK p \in Phone : \/ Dial(p) \/ handleRecoverOffer(p) \/ handleRecoverSimQ2(p) \/ completeRegistration(p)
                           \/ \E nid \in NationalID : handleRegistrationNationalID(p, nid) \/ AddPilot(p, nid)
    BY <1>2
  <2> QED BY <2>1, DialogueKeeps, RecoverKeeps, RegisteringKeeps, EditsKeep
<1>3. CASE \E r \in registering : CreateUser(r) \/ GetNextAccountIndex(r) \/ CreateAccount(r) \/ Commit(r) \/ Rollback(r)
  BY <1>3, RegisteringKeeps, IndexKeeps, CommitKeeps
<1>4. CASE \E u \in DOMAIN db.users : CreateOnLedger(u) \/ DeleteUser(u) \/ RestoreUser(u)
  BY <1>4, LedgerKeeps, EditsKeep
<1>5. CASE \/ \E nid \in NationalID : RevokePilot(nid) \/ RestorePilot(nid)
           \/ StopServer
  BY <1>5, EditsKeep
<1>6. CASE \/ \E kept \in 0..MaxUsers, last \in 1..MaxIndex : RestoreDatabase(kept, last)
           \/ \E base \in Bases : Boot(base)
  BY <1>6, RestoreKeeps, BootKeeps
<1> QED BY <1>1, <1>2, <1>3, <1>4, <1>5, <1>6 DEF RegistrationsNext

-----------------------------------------------------------------------------
(* Transactions and accounts (Bookkeeping) *)

HashesApart ==
  \A t, u \in TxID : t # u /\ txRows[t].hash # "nil" => txRows[t].hash # txRows[u].hash
WalletKeysApart ==
  \A a, b \in Wallet : a # b /\ wallets[a].key # "nil" => wallets[a].key # wallets[b].key

BookInv == BookTypeOK /\ HashesApart /\ WalletKeysApart

\* No row is on two pages of a listing, at any size asked.
LEMMA PagesStayApart == PagesApart
<1> SUFFICES ASSUME NEW p \in 0..3, NEW q \in 0..3, NEW s \in {0, 2, 101}, PageAsked(p) # PageAsked(q)
             PROVE  PageRows(p, s) \cap PageRows(q, s) = {}
  BY DEF PagesApart
<1>1. \A x \in 0..3 : PageAsked(x) \in Int /\ PageAsked(x) >= 1
  BY DEF PageAsked
<1>2. SizeAsked(s) \in {2, 10, 100}
  BY DEF SizeAsked
<1> DEFINE P == PageAsked(p)
<1> DEFINE Q == PageAsked(q)
<1>3. P \in Int /\ Q \in Int /\ (P < Q \/ Q < P)
  BY <1>1
<1> HIDE DEF P, Q
<1>4. \A n \in {2, 10, 100} : ((P - 1) * n + 1..(P - 1) * n + n) \cap ((Q - 1) * n + 1..(Q - 1) * n + n) = {}
  BY <1>3
<1> QED BY <1>2, <1>4 DEF PageRows, P, Q

LEMMA BookStarts == BookInit => BookInv
BY DEF BookInit, BookInv, BookTypeOK, TxRow, WalletRow, HashesApart, WalletKeysApart

\* A write of a transaction's columns keeps hashes apart.
LEMMA ColumnsStep ==
  ASSUME BookInv, NEW w \in work, w.op \in {"create", "update"}, UpdateColumns(w) \/ UNCHANGED txRows
  PROVE  txRows' \in [TxID -> TxRow] /\ HashesApart'
<1>1. CASE UNCHANGED txRows
  BY <1>1 DEF BookInv, BookTypeOK, HashesApart
<1>2. CASE UpdateColumns(w) /\ HashFree(w.value, w.id)
  <2>1. w \in Work /\ w.id \in TxID /\ w.value \in TxHash \cup {"nil"} /\ w.to \in TxStatus \cup {"keep"}
    <3>1. w \in Work
      BY DEF BookInv, BookTypeOK
    <3> QED BY <3>1 DEF Work
  <2> DEFINE st == IF w.to = "keep" THEN txRows[w.id].status ELSE w.to
  <2> DEFINE hs == IF w.value = "nil" THEN txRows[w.id].hash ELSE w.value
  <2>2. txRows' = [txRows EXCEPT ![w.id] = [status |-> st, hash |-> hs]]
    BY <1>2 DEF UpdateColumns
  <2>3. txRows[w.id] \in TxRow
    BY <2>1 DEF BookInv, BookTypeOK
  <2>4. st \in TxStatus \cup {"none"} /\ hs \in TxHash \cup {"nil"}
    BY <2>1, <2>3 DEF TxRow
  <2>5. hs = txRows[w.id].hash \/ \A u \in TxID \ {w.id} : txRows[u].hash # hs
    BY <1>2 DEF HashFree
  <2> HIDE DEF st, hs
  <2>6. [status |-> st, hash |-> hs] \in TxRow
    BY <2>4 DEF TxRow
  <2>7. txRows' \in [TxID -> TxRow]
    BY <2>2, <2>6 DEF BookInv, BookTypeOK
  <2>8. \A t \in TxID : txRows'[t].hash = IF t = w.id THEN hs ELSE txRows[t].hash
    BY <2>2 DEF BookInv, BookTypeOK
  <2>9. HashesApart'
    BY <2>1, <2>5, <2>8 DEF HashesApart, BookInv
  <2> QED BY <2>7, <2>9
<1> QED BY <1>1, <1>2 DEF UpdateColumns

LEMMA BatchStep ==
  ASSUME BookInv, NEW some \in SUBSET TxID, NEW hashes \in [some -> TxHash \cup {"nil"}], BatchCreate(hashes)
  PROVE  BookInv'
<1>1. /\ \A t \in some : HashFree(hashes[t], t)
      /\ \A t, u \in some : t # u /\ hashes[t] # "nil" => hashes[t] # hashes[u]
      /\ txRows' = [t \in TxID |-> IF t \in some
                               THEN [status |-> "pending", hash |-> hashes[t]] ELSE txRows[t]]
      /\ UNCHANGED <<wallets, work>>
  BY DEF BatchCreate
<1>2. \A t \in some : [status |-> "pending", hash |-> hashes[t]] \in TxRow
  BY DEF TxRow, TxStatus
<1>3. txRows' \in [TxID -> TxRow]
  BY <1>1, <1>2 DEF BookInv, BookTypeOK
<1>4. \A t \in TxID : txRows'[t].hash = IF t \in some THEN hashes[t] ELSE txRows[t].hash
  BY <1>1
<1>5. \A t \in some, u \in TxID \ some : hashes[t] # "nil" => txRows[u].hash # hashes[t]
  BY <1>1 DEF HashFree
<1>6. HashesApart'
  <2> SUFFICES ASSUME NEW t \in TxID, NEW u \in TxID, t # u, txRows'[t].hash # "nil"
               PROVE  txRows'[t].hash # txRows'[u].hash
    BY DEF HashesApart
  <2>1. CASE t \in some /\ u \in some
    BY <1>1, <1>4, <2>1
  <2>2. CASE t \in some /\ u \notin some
    BY <1>4, <1>5, <2>2
  <2>3. CASE t \notin some /\ u \in some
    BY <1>4, <1>5, <2>3
  <2>4. CASE t \notin some /\ u \notin some
    BY <1>4, <2>4 DEF HashesApart, BookInv
  <2> QED BY <2>1, <2>2, <2>3, <2>4
<1> QED BY <1>1, <1>3, <1>6 DEF BookInv, BookTypeOK, WalletKeysApart

\* A call that has read, and one that writes, on either service.
LEMMA WorkStep ==
  ASSUME BookInv
  PROVE  /\ \A w \in Work : Reads(w) => work' \subseteq Work
         /\ \A w \in work : Ends(w) => work' \subseteq Work
BY DEF BookInv, BookTypeOK, Reads, Ends

LEMMA TransactionSteps == BookInv /\ TransactionsNext => BookInv'
<1> SUFFICES ASSUME BookInv, TransactionsNext PROVE BookInv'
  OBVIOUS
<1>1. ASSUME NEW t \in TxID, NEW h \in TxHash \cup {"nil"}, CheckCreate(t, h) PROVE BookInv'
  <2>1. [op |-> "create", id |-> t, read |-> "none", to |-> "pending", value |-> h] \in Work
    BY DEF Work, TxStatus
  <2> QED BY <1>1, <2>1, WorkStep DEF CheckCreate, BookInv, BookTypeOK, HashesApart, WalletKeysApart
<1>2. ASSUME NEW t \in TxID, NEW h \in TxHash \cup {"nil"}, NEW to \in TxStatus \cup {"keep"},
             BeginUpdate(t, to, h)
      PROVE  BookInv'
  <2>1. txRows[t].status \in TxStatus \cup {"none"}
    BY DEF BookInv, BookTypeOK, TxRow
  <2>2. [op |-> "update", id |-> t, read |-> txRows[t].status, to |-> to, value |-> h] \in Work
    BY <2>1 DEF Work
  <2> QED BY <1>2, <2>2, WorkStep DEF BeginUpdate, BookInv, BookTypeOK, HashesApart, WalletKeysApart
<1>3. ASSUME NEW w \in work, CreateRow(w) \/ UpdateTransaction(w) PROVE BookInv'
  <2>1. /\ w.op \in {"create", "update"} /\ Ends(w) /\ UNCHANGED wallets
        /\ UpdateColumns(w) \/ UNCHANGED txRows
    BY <1>3 DEF CreateRow, UpdateTransaction
  <2>2. txRows' \in [TxID -> TxRow] /\ HashesApart' /\ work' \subseteq Work
    BY <2>1, ColumnsStep, WorkStep
  <2> QED BY <2>1, <2>2 DEF BookInv, BookTypeOK, WalletKeysApart
<1> QED BY <1>1, <1>2, <1>3, BatchStep DEF TransactionsNext

LEMMA WalletSteps == BookInv /\ WalletsNext => BookInv'
<1> SUFFICES ASSUME BookInv, WalletsNext PROVE BookInv'
  OBVIOUS
<1>1. ASSUME NEW a \in Wallet, NEW k \in PublicKey, CheckOpen(a, k) PROVE BookInv'
  <2>1. [op |-> "open", id |-> a, read |-> "none", to |-> "active", value |-> k] \in Work
    BY DEF Work, WalletStatus
  <2> QED BY <1>1, <2>1, WorkStep DEF CheckOpen, BookInv, BookTypeOK, HashesApart, WalletKeysApart
<1>2. ASSUME NEW a \in Wallet, NEW to \in WalletStatus, BeginStatus(a, to) PROVE BookInv'
  <2>1. wallets[a].status \in WalletStatus \cup {"none"}
    BY DEF BookInv, BookTypeOK, WalletRow
  <2>2. [op |-> "status", id |-> a, read |-> wallets[a].status, to |-> to, value |-> "nil"] \in Work
    BY <2>1 DEF Work
  <2> QED BY <1>2, <2>2, WorkStep DEF BeginStatus, BookInv, BookTypeOK, HashesApart, WalletKeysApart
<1>3. ASSUME NEW a \in Wallet, NEW row \in WalletRow,
             wallets' = [wallets EXCEPT ![a] = row], row.key = wallets[a].key, UNCHANGED txRows,
             work' \subseteq Work
      PROVE  BookInv'
  <2>1. wallets' \in [Wallet -> WalletRow] /\ \A b \in Wallet : wallets'[b].key = wallets[b].key
    BY <1>3 DEF BookInv, BookTypeOK
  <2> QED BY <1>3, <2>1 DEF BookInv, BookTypeOK, HashesApart, WalletKeysApart
<1>4. ASSUME NEW a \in Wallet, DeleteAccount(a) \/ RestoreAccount(a) PROVE BookInv'
  <2> DEFINE up == RestoreAccount(a)
  <2>1. PICK b \in BOOLEAN : wallets' = [wallets EXCEPT ![a].live = b]
    BY <1>4, Zenon DEF DeleteAccount, RestoreAccount
  <2>2. wallets[a] \in WalletRow
    BY DEF BookInv, BookTypeOK
  <2> DEFINE row == [wallets[a] EXCEPT !.live = b]
  <2>3. row \in WalletRow /\ row.key = wallets[a].key
    BY <2>2, Zenon DEF WalletRow
  <2>4. wallets' = [wallets EXCEPT ![a] = row]
    BY <2>1
  <2>5. UNCHANGED txRows /\ work' \subseteq Work
    BY <1>4 DEF DeleteAccount, RestoreAccount, BookInv, BookTypeOK
  <2> HIDE DEF row
  <2> QED BY <1>3, <2>3, <2>4, <2>5
<1>5. ASSUME NEW w \in work, OpenAccount(w) PROVE BookInv'
  <2>1. w.op = "open" /\ Ends(w) /\ UNCHANGED txRows
    BY <1>5 DEF OpenAccount
  <2>2. w \in Work
    BY DEF BookInv, BookTypeOK
  <2>3. w.id \in Wallet /\ w.value \in PublicKey \cup {"nil"}
    BY <2>1, <2>2 DEF Work
  <2>4. work' \subseteq Work
    BY <2>1, WorkStep
  <2>5. CASE /\ \A b \in Wallet : wallets[b].key # w.value
             /\ wallets' = [wallets EXCEPT ![w.id] = [status |-> "active", key |-> w.value, live |-> TRUE]]
    <3>1. [status |-> "active", key |-> w.value, live |-> TRUE] \in WalletRow
      BY <2>3 DEF WalletRow, WalletStatus
    <3>2. wallets' \in [Wallet -> WalletRow]
      BY <2>5, <3>1 DEF BookInv, BookTypeOK
    <3>3. \A b \in Wallet : wallets'[b].key = IF b = w.id THEN w.value ELSE wallets[b].key
      BY <2>5 DEF BookInv, BookTypeOK
    <3>4. WalletKeysApart'
      BY <2>3, <2>5, <3>3 DEF BookInv, WalletKeysApart
    <3> QED BY <2>1, <2>4, <3>2, <3>4 DEF BookInv, BookTypeOK, HashesApart
  <2>6. CASE UNCHANGED wallets
    BY <2>1, <2>4, <2>6 DEF BookInv, BookTypeOK, HashesApart, WalletKeysApart
  <2> QED BY <1>5, <2>5, <2>6 DEF OpenAccount
<1>6. ASSUME NEW w \in work, UpdateStatus(w) PROVE BookInv'
  <2>1. w.op = "status" /\ Ends(w) /\ UNCHANGED txRows
    BY <1>6 DEF UpdateStatus
  <2>2. w \in Work
    BY DEF BookInv, BookTypeOK
  <2>3. w.id \in Wallet /\ w.to \in WalletStatus
    BY <2>1, <2>2 DEF Work
  <2>4. work' \subseteq Work
    BY <2>1, WorkStep
  <2>5. CASE wallets' = [wallets EXCEPT ![w.id].status = w.to]
    <3> DEFINE row == [wallets[w.id] EXCEPT !.status = w.to]
    <3>1. wallets[w.id] \in WalletRow
      BY <2>3 DEF BookInv, BookTypeOK
    <3>2. row \in WalletRow /\ row.key = wallets[w.id].key
      BY <2>3, <3>1, Zenon DEF WalletRow
    <3>3. wallets' = [wallets EXCEPT ![w.id] = row]
      BY <2>5
    <3> HIDE DEF row
    <3> QED BY <1>3, <2>1, <2>3, <2>4, <3>2, <3>3
  <2>6. CASE UNCHANGED wallets
    BY <2>1, <2>4, <2>6 DEF BookInv, BookTypeOK, HashesApart, WalletKeysApart
  <2> QED BY <1>6, <2>5, <2>6 DEF UpdateStatus
<1> QED BY <1>1, <1>2, <1>4, <1>5, <1>6 DEF WalletsNext

LEMMA BookSteps == BookInv /\ [BookNext]_bookVars => BookInv'
<1> SUFFICES ASSUME BookInv, [BookNext]_bookVars PROVE BookInv'
  OBVIOUS
<1>1. CASE UNCHANGED bookVars
  BY <1>1 DEF bookVars, BookInv, BookTypeOK, HashesApart, WalletKeysApart
<1> QED BY <1>1, TransactionSteps, WalletSteps DEF BookNext

LEMMA BookShows == BookInv => BookTypeOK /\ RowsApart
BY PagesStayApart DEF BookInv, HashesApart, WalletKeysApart, RowsApart

\* What a call in progress read and may write: the row it creates is not there yet and is
\* its own, the row it changes is there, and the change is listed for the status it read.
TxCall(w) ==
  /\ w.op = "create" => /\ txRows[w.id].status = "none" /\ w.to = "pending"
                        /\ \A x \in work : x.op = "create" /\ x.id = w.id => x = w
  /\ w.op = "update" => /\ txRows[w.id].status # "none" /\ w.read \in TxStatus
                        /\ w.to \in {"keep", w.read} \cup txTransitions[w.read]
WalletCall(w) ==
  /\ w.op = "open" => /\ wallets[w.id].status = "none"
                      /\ \A x \in work : x.op = "open" /\ x.id = w.id => x = w
  /\ w.op = "status" => /\ wallets[w.id].status # "none" /\ w.read \in WalletStatus
                        /\ w.to \in {w.read} \cup walletTransitions[w.read]
CallsSound == \A w \in work : TxCall(w) /\ WalletCall(w)

LiveIsOpened == \A a \in Wallet : wallets[a].live => wallets[a].status # "none"

LEMMA LiveStart == BookInit => LiveIsOpened
BY DEF BookInit, LiveIsOpened

LEMMA LiveStep == BookInv /\ LiveIsOpened /\ [BookNext]_bookVars => LiveIsOpened'
<1> SUFFICES ASSUME BookInv, LiveIsOpened, [BookNext]_bookVars PROVE LiveIsOpened'
  OBVIOUS
<1>1. CASE UNCHANGED wallets
  BY <1>1 DEF LiveIsOpened
<1>2. ASSUME NEW a \in Wallet, NEW row, wallets' = [wallets EXCEPT ![a] = row], row.live => row.status # "none"
      PROVE  LiveIsOpened'
  BY <1>2 DEF LiveIsOpened, BookInv, BookTypeOK
<1>3. ASSUME NEW a \in Wallet PROVE wallets[a] \in WalletRow
  BY <1>3 DEF BookInv, BookTypeOK
<1>4. ASSUME NEW a \in Wallet, DeleteAccount(a) \/ RestoreAccount(a) PROVE LiveIsOpened'
  <2>1. PICK b \in BOOLEAN : wallets' = [wallets EXCEPT ![a].live = b] /\ (b => wallets[a].status # "none")
    BY <1>4, Zenon DEF DeleteAccount, RestoreAccount
  <2> DEFINE row == [wallets[a] EXCEPT !.live = b]
  <2>2. row.live = b /\ row.status = wallets[a].status
    BY <1>3, Zenon DEF WalletRow
  <2>3. wallets' = [wallets EXCEPT ![a] = row]
    BY <2>1
  <2> HIDE DEF row
  <2> QED BY <1>2, <2>1, <2>2, <2>3
<1>5. ASSUME NEW w \in work, OpenAccount(w) \/ UpdateStatus(w) PROVE LiveIsOpened'
  <2>1. w \in Work /\ w.op \in {"open", "status"}
    BY <1>5 DEF OpenAccount, UpdateStatus, BookInv, BookTypeOK
  <2>2. w.id \in Wallet /\ w.to \in WalletStatus
    BY <2>1 DEF Work
  <2>3. w.to # "none"
    BY <2>2 DEF WalletStatus
  <2>4. CASE wallets' = [wallets EXCEPT ![w.id] = [status |-> "active", key |-> w.value, live |-> TRUE]]
    BY <1>2, <2>2, <2>4
  <2>5. CASE wallets' = [wallets EXCEPT ![w.id].status = w.to]
    <3> DEFINE row == [wallets[w.id] EXCEPT !.status = w.to]
    <3>1. row.status = w.to
      BY <1>3, <2>2 DEF WalletRow
    <3>2. wallets' = [wallets EXCEPT ![w.id] = row]
      BY <2>5
    <3> HIDE DEF row
    <3> QED BY <1>2, <2>2, <2>3, <3>1, <3>2
  <2> QED BY <1>1, <1>5, <2>4, <2>5 DEF OpenAccount, UpdateStatus
<1>6. CASE TransactionsNext
  BY <1>1, <1>6 DEF TransactionsNext, CheckCreate, BeginUpdate, BatchCreate, CreateRow, UpdateTransaction
<1>7. CASE WalletsNext
  BY <1>1, <1>4, <1>5, <1>7 DEF WalletsNext, CheckOpen, BeginStatus
<1> QED BY <1>1, <1>6, <1>7 DEF BookNext, bookVars

LEMMA CallsStart == BookInit => CallsSound
BY DEF BookInit, CallsSound

\* A transaction's call that ends writes a status to its own row only.
LEMMA ColumnsWrite ==
  ASSUME BookInv, NEW w \in work, w.op \in {"create", "update"}, UpdateColumns(w) \/ UNCHANGED txRows
  PROVE  /\ w.id \in TxID /\ w.to \in TxStatus \cup {"keep"}
         /\ \A t \in TxID : txRows'[t].status # txRows[t].status => t = w.id /\ w.to # "keep" /\ txRows'[t].status = w.to
<1>1. w \in Work
  BY DEF BookInv, BookTypeOK
<1>2. w.id \in TxID /\ w.to \in TxStatus \cup {"keep"}
  BY <1>1 DEF Work
<1>3. CASE UNCHANGED txRows
  BY <1>2, <1>3
<1>4. CASE UpdateColumns(w) /\ ~UNCHANGED txRows
  <2> DEFINE st == IF w.to = "keep" THEN txRows[w.id].status ELSE w.to
  <2> DEFINE hs == IF w.value = "nil" THEN txRows[w.id].hash ELSE w.value
  <2>1. txRows' = [txRows EXCEPT ![w.id] = [status |-> st, hash |-> hs]]
    BY <1>4 DEF UpdateColumns
  <2>2. \A t \in TxID : txRows'[t].status = IF t = w.id THEN st ELSE txRows[t].status
    BY <2>1 DEF BookInv, BookTypeOK
  <2> QED BY <1>2, <2>2
<1> QED BY <1>3, <1>4

LEMMA TxCallsStep == BookInv /\ CallsSound /\ TransactionsNext => CallsSound'
<1> SUFFICES ASSUME BookInv, CallsSound, TransactionsNext PROVE CallsSound'
  OBVIOUS
<1>1. ASSUME NEW t \in TxID, NEW h \in TxHash \cup {"nil"}, CheckCreate(t, h) PROVE CallsSound'
  <2> DEFINE w == [op |-> "create", id |-> t, read |-> "none", to |-> "pending", value |-> h]
  <2>1. /\ work' = work \cup {w} /\ UNCHANGED <<txRows, wallets>>
        /\ txRows[t].status = "none" /\ \A x \in work : x.op = "create" => x.id # t
    BY <1>1 DEF CheckCreate, Reads
  <2>2. w.op = "create" /\ w.id = t /\ w.to = "pending"
    OBVIOUS
  <2> HIDE DEF w
  <2>3. \A x \in work' : x \in work \/ x = w
    BY <2>1
  <2>4. \A x \in work' : TxCall(x)'
    BY <2>1, <2>2, <2>3 DEF CallsSound, TxCall
  <2>5. \A x \in work' : WalletCall(x)'
    BY <2>1, <2>2, <2>3 DEF CallsSound, WalletCall
  <2> QED BY <2>4, <2>5 DEF CallsSound
<1>2. ASSUME NEW t \in TxID, NEW h \in TxHash \cup {"nil"}, NEW to \in TxStatus \cup {"keep"},
             BeginUpdate(t, to, h)
      PROVE  CallsSound'
  <2> DEFINE w == [op |-> "update", id |-> t, read |-> txRows[t].status, to |-> to, value |-> h]
  <2>1. /\ work' = work \cup {w} /\ UNCHANGED <<txRows, wallets>>
        /\ txRows[t].status # "none" /\ to \in {"keep", txRows[t].status} \cup txTransitions[txRows[t].status]
    BY <1>2 DEF BeginUpdate, Reads
  <2>2. txRows[t].status \in TxStatus
    BY <2>1 DEF BookInv, BookTypeOK, TxRow
  <2>3. w.op = "update" /\ w.id = t /\ w.to = to /\ w.read = txRows[t].status
    OBVIOUS
  <2> HIDE DEF w
  <2>4. \A x \in work' : x \in work \/ x = w
    BY <2>1
  <2>5. \A x \in work' : TxCall(x)'
    BY <2>1, <2>2, <2>3, <2>4 DEF CallsSound, TxCall
  <2>6. \A x \in work' : WalletCall(x)'
    BY <2>1, <2>3, <2>4 DEF CallsSound, WalletCall
  <2> QED BY <2>5, <2>6 DEF CallsSound
<1>3. ASSUME NEW w \in work, CreateRow(w) \/ UpdateTransaction(w) PROVE CallsSound'
  <2>1. /\ w.op \in {"create", "update"} /\ work' = work \ {w} /\ UNCHANGED wallets
        /\ UpdateColumns(w) \/ UNCHANGED txRows
    BY <1>3 DEF CreateRow, UpdateTransaction, Ends
  <2>2. /\ w.id \in TxID /\ w.to \in TxStatus \cup {"keep"}
        /\ \A t \in TxID : txRows'[t].status # txRows[t].status => t = w.id /\ w.to # "keep" /\ txRows'[t].status = w.to
    BY <2>1, ColumnsWrite
  <2>3. "none" \notin TxStatus
    BY DEF TxStatus
  <2>4. ASSUME NEW x \in work' PROVE TxCall(x)' /\ WalletCall(x)'
    <3>1. x \in work /\ x # w /\ x \in Work
      BY <2>1, <2>4 DEF BookInv, BookTypeOK
    <3>2. TxCall(x) /\ TxCall(w) /\ WalletCall(x)
      BY <3>1 DEF CallsSound
    <3>3. WalletCall(x)'
      BY <2>1, <3>2 DEF WalletCall
    <3>4. x.op \in {"create", "update"} => x.id \in TxID
      BY <3>1 DEF Work
    <3>5. x.op = "create" => txRows'[x.id].status = "none"
      BY <2>1, <2>2, <3>1, <3>2, <3>4 DEF TxCall
    <3>6. x.op = "update" => txRows'[x.id].status # "none"
      BY <2>1, <2>2, <2>3, <3>1, <3>2, <3>4 DEF TxCall
    <3> QED BY <2>1, <3>2, <3>3, <3>5, <3>6 DEF TxCall
  <2> QED BY <2>4 DEF CallsSound
<1>4. ASSUME NEW some \in SUBSET TxID, NEW hashes \in [some -> TxHash \cup {"nil"}], BatchCreate(hashes)
      PROVE  CallsSound'
  <2>1. /\ \A t \in some : \A w \in work : w.op = "create" => w.id # t
        /\ txRows' = [t \in TxID |-> IF t \in some
                               THEN [status |-> "pending", hash |-> hashes[t]] ELSE txRows[t]]
        /\ UNCHANGED <<wallets, work>>
    BY <1>4 DEF BatchCreate
  <2>2. \A t \in TxID : txRows'[t].status = IF t \in some THEN "pending" ELSE txRows[t].status
    BY <2>1
  <2>3. \A x \in work : x \in Work /\ (x.op \in {"create", "update"} => x.id \in TxID)
    BY DEF BookInv, BookTypeOK, Work
  <2>4. \A x \in work : TxCall(x)'
    BY <2>1, <2>2, <2>3 DEF CallsSound, TxCall
  <2>5. \A x \in work : WalletCall(x)'
    BY <2>1 DEF CallsSound, WalletCall
  <2> QED BY <2>1, <2>4, <2>5 DEF CallsSound
<1> QED BY <1>1, <1>2, <1>3, <1>4 DEF TransactionsNext

LEMMA WalletCallsStep == BookInv /\ CallsSound /\ LiveIsOpened /\ WalletsNext => CallsSound'
<1> SUFFICES ASSUME BookInv, CallsSound, LiveIsOpened, WalletsNext PROVE CallsSound'
  OBVIOUS
<1>1. ASSUME NEW a \in Wallet, NEW k \in PublicKey, CheckOpen(a, k) PROVE CallsSound'
  <2> DEFINE w == [op |-> "open", id |-> a, read |-> "none", to |-> "active", value |-> k]
  <2>1. /\ work' = work \cup {w} /\ UNCHANGED <<txRows, wallets>>
        /\ wallets[a].status = "none" /\ \A x \in work : x.op = "open" => x.id # a
    BY <1>1 DEF CheckOpen, Reads
  <2>2. w.op = "open" /\ w.id = a
    OBVIOUS
  <2> HIDE DEF w
  <2>3. \A x \in work' : x \in work \/ x = w
    BY <2>1
  <2>4. \A x \in work' : TxCall(x)'
    BY <2>1, <2>2, <2>3 DEF CallsSound, TxCall
  <2>5. \A x \in work' : WalletCall(x)'
    BY <2>1, <2>2, <2>3 DEF CallsSound, WalletCall
  <2> QED BY <2>4, <2>5 DEF CallsSound
<1>2. ASSUME NEW a \in Wallet, NEW to \in WalletStatus, BeginStatus(a, to) PROVE CallsSound'
  <2> DEFINE w == [op |-> "status", id |-> a, read |-> wallets[a].status, to |-> to, value |-> "nil"]
  <2>1. /\ work' = work \cup {w} /\ UNCHANGED <<txRows, wallets>>
        /\ to \in {wallets[a].status} \cup walletTransitions[wallets[a].status] /\ wallets[a].live
    BY <1>2 DEF BeginStatus, Reads
  <2>2. wallets[a].status # "none" /\ wallets[a].status \in WalletStatus
    BY <2>1 DEF LiveIsOpened, BookInv, BookTypeOK, WalletRow
  <2>3. w.op = "status" /\ w.id = a /\ w.to = to /\ w.read = wallets[a].status
    OBVIOUS
  <2> HIDE DEF w
  <2>4. \A x \in work' : x \in work \/ x = w
    BY <2>1
  <2>5. \A x \in work' : TxCall(x)'
    BY <2>1, <2>3, <2>4 DEF CallsSound, TxCall
  <2>6. \A x \in work' : WalletCall(x)'
    BY <2>1, <2>2, <2>3, <2>4 DEF CallsSound, WalletCall
  <2> QED BY <2>5, <2>6 DEF CallsSound
<1>3. ASSUME /\ UNCHANGED txRows /\ work' \subseteq work
             /\ \A a \in Wallet : wallets'[a].status # wallets[a].status =>
                   wallets'[a].status # "none" /\ \A x \in work' : x.op = "open" => x.id # a
      PROVE  CallsSound'
  <2> SUFFICES ASSUME NEW x \in work' PROVE TxCall(x)' /\ WalletCall(x)'
    BY DEF CallsSound
  <2>1. x \in work /\ TxCall(x) /\ WalletCall(x)
    BY <1>3 DEF CallsSound
  <2>2. x \in Work
    BY <2>1 DEF BookInv, BookTypeOK
  <2>3. x.op \in {"open", "status"} => x.id \in Wallet
    BY <2>2 DEF Work
  <2>4. TxCall(x)'
    BY <1>3, <2>1 DEF TxCall
  <2>5. WalletCall(x)'
    BY <1>3, <2>1, <2>3 DEF WalletCall
  <2> QED BY <2>4, <2>5
<1>4. ASSUME NEW a \in Wallet, DeleteAccount(a) \/ RestoreAccount(a) PROVE CallsSound'
  <2>1. PICK b \in BOOLEAN : wallets' = [wallets EXCEPT ![a].live = b]
    BY <1>4, Zenon DEF DeleteAccount, RestoreAccount
  <2>2. \A c \in Wallet : wallets'[c].status = wallets[c].status
    BY <2>1 DEF BookInv, BookTypeOK, WalletRow
  <2> QED BY <1>3, <1>4, <2>2 DEF DeleteAccount, RestoreAccount
<1>5. ASSUME NEW w \in work, OpenAccount(w) \/ UpdateStatus(w) PROVE CallsSound'
  <2>1. UNCHANGED txRows /\ work' = work \ {w} /\ w \in Work /\ w.op \in {"open", "status"}
    BY <1>5 DEF OpenAccount, UpdateStatus, Ends, BookInv, BookTypeOK
  <2>2. w.id \in Wallet /\ w.to \in WalletStatus
    BY <2>1 DEF Work
  <2>3. \A a \in Wallet : wallets'[a].status # wallets[a].status => a = w.id /\ wallets'[a].status # "none"
    <3>1. \A a \in Wallet : wallets[a] \in WalletRow
      BY DEF BookInv, BookTypeOK
    <3>2. w.to # "none"
      BY <2>2 DEF WalletStatus
    <3>3. CASE wallets' = [wallets EXCEPT ![w.id] = [status |-> "active", key |-> w.value, live |-> TRUE]]
      BY <2>2, <3>3 DEF BookInv, BookTypeOK
    <3>4. CASE wallets' = [wallets EXCEPT ![w.id].status = w.to]
      BY <2>2, <3>1, <3>2, <3>4 DEF BookInv, BookTypeOK, WalletRow
    <3> QED BY <1>5, <3>3, <3>4 DEF OpenAccount, UpdateStatus
  <2>4. TxCall(w) /\ WalletCall(w)
    BY DEF CallsSound
  <2>5. \A x \in work' : x.op = "open" => x.id # w.id
    BY <2>1, <2>4 DEF CallsSound, WalletCall
  <2> QED BY <1>3, <2>1, <2>3, <2>5
<1> QED BY <1>1, <1>2, <1>4, <1>5 DEF WalletsNext

\* The rows with the calls in progress on them.
BooksInv == BookInv /\ CallsSound /\ LiveIsOpened

LEMMA BooksStart == BookInit => BooksInv
BY BookStarts, CallsStart, LiveStart DEF BooksInv

LEMMA BooksStep == BooksInv /\ [BookNext]_bookVars => BooksInv'
<1> SUFFICES ASSUME BooksInv, [BookNext]_bookVars PROVE BooksInv'
  OBVIOUS
<1>1. CASE UNCHANGED bookVars
  BY <1>1, BookSteps, LiveStep DEF bookVars, BooksInv, CallsSound, TxCall, WalletCall
<1> QED BY <1>1, BookSteps, LiveStep, TxCallsStep, WalletCallsStep DEF BooksInv, BookNext

\* A transaction or an account moves as its service lists, or by a call that had read
\* its row before another changed it.
LEMMA BooksMove == BooksInv /\ [BookNext]_bookVars => [MovesListedTx /\ MovesListedWallet]_bookVars
<1> SUFFICES ASSUME BooksInv, BookNext
             PROVE  /\ \A t \in TxID :
                          txRows'[t].status \notin {"none", txRows[t].status} /\ txRows[t].status # "none" =>
                            \/ txRows'[t].status \in txTransitions[txRows[t].status]
                            \/ Overtaken("update", t, txRows[t].status)
                    /\ \A a \in Wallet :
                          wallets'[a].status # wallets[a].status /\ wallets[a].status # "none" =>
                            \/ wallets'[a].status \in walletTransitions[wallets[a].status]
                            \/ Overtaken("status", a, wallets[a].status)
  BY DEF MovesListedTx, MovesListedWallet
<1>1. BookInv /\ CallsSound
  BY DEF BooksInv
<1>2. ASSUME NEW t \in TxID, txRows'[t].status # txRows[t].status, txRows[t].status # "none"
      PROVE  \/ txRows'[t].status \in txTransitions[txRows[t].status]
             \/ Overtaken("update", t, txRows[t].status)
  <2>1. CASE \E some \in SUBSET TxID : \E hashes \in [some -> TxHash \cup {"nil"}] : BatchCreate(hashes)
    BY <1>2, <2>1 DEF BatchCreate
  <2>2. ASSUME NEW w \in work, CreateRow(w) \/ UpdateTransaction(w)
        PROVE  \/ txRows'[t].status \in txTransitions[txRows[t].status]
               \/ Overtaken("update", t, txRows[t].status)
    <3>1. /\ w.op \in {"create", "update"} /\ work' = work \ {w}
          /\ UpdateColumns(w) \/ UNCHANGED txRows
      BY <2>2 DEF CreateRow, UpdateTransaction, Ends
    <3>2. t = w.id /\ w.to # "keep" /\ txRows'[t].status = w.to
      BY <1>1, <1>2, <3>1, ColumnsWrite
    <3>3. TxCall(w)
      BY <1>1 DEF CallsSound
    <3>4. w.op = "update" /\ (w.read = txRows[t].status => w.to \in txTransitions[txRows[t].status])
      BY <1>2, <3>1, <3>2, <3>3 DEF TxCall
    <3>5. w.read # txRows[t].status => Overtaken("update", t, txRows[t].status)
      BY <3>1, <3>2, <3>4 DEF Overtaken
    <3> QED BY <3>2, <3>4, <3>5
  <2>3. CASE WalletsNext
    BY <1>2, <2>3 DEF WalletsNext, CheckOpen, OpenAccount, BeginStatus, UpdateStatus, DeleteAccount, RestoreAccount
  <2> QED BY <1>2, <2>1, <2>2, <2>3 DEF BookNext, TransactionsNext, CheckCreate, BeginUpdate
<1>3. ASSUME NEW a \in Wallet, wallets'[a].status # wallets[a].status, wallets[a].status # "none"
      PROVE  \/ wallets'[a].status \in walletTransitions[wallets[a].status]
             \/ Overtaken("status", a, wallets[a].status)
  <2>1. ASSUME NEW b \in Wallet, DeleteAccount(b) \/ RestoreAccount(b) PROVE FALSE
    <3>1. PICK live \in BOOLEAN : wallets' = [wallets EXCEPT ![b].live = live]
      BY <2>1, Zenon DEF DeleteAccount, RestoreAccount
    <3> QED BY <1>1, <1>3, <3>1 DEF BookInv, BookTypeOK, WalletRow
  <2>2. ASSUME NEW w \in work, OpenAccount(w) PROVE FALSE
    <3>1. w \in Work /\ w.op = "open" /\ WalletCall(w)
      BY <1>1, <2>2 DEF OpenAccount, CallsSound, BookInv, BookTypeOK
    <3> QED BY <1>1, <1>3, <2>2, <3>1 DEF OpenAccount, WalletCall, BookInv, BookTypeOK
  <2>3. ASSUME NEW w \in work, UpdateStatus(w)
        PROVE  \/ wallets'[a].status \in walletTransitions[wallets[a].status]
               \/ Overtaken("status", a, wallets[a].status)
    <3>1. w.op = "status" /\ work' = work \ {w} /\ wallets' = [wallets EXCEPT ![w.id].status = w.to]
      BY <1>3, <2>3 DEF UpdateStatus, Ends
    <3>2. wallets[a] \in WalletRow
      BY <1>1 DEF BookInv, BookTypeOK
    <3>3. a = w.id /\ wallets'[a].status = w.to
      BY <1>1, <1>3, <3>1, <3>2 DEF BookInv, BookTypeOK, WalletRow
    <3>4. WalletCall(w)
      BY <1>1 DEF CallsSound
    <3>5. w.read = wallets[a].status => w.to \in walletTransitions[wallets[a].status]
      BY <1>3, <3>1, <3>3, <3>4 DEF WalletCall
    <3>6. w.read # wallets[a].status => Overtaken("status", a, wallets[a].status)
      BY <3>1, <3>3 DEF Overtaken
    <3> QED BY <3>3, <3>5, <3>6
  <2>4. CASE TransactionsNext
    BY <1>3, <2>4 DEF TransactionsNext, CheckCreate, BeginUpdate, BatchCreate, CreateRow, UpdateTransaction
  <2> QED BY <1>3, <2>1, <2>2, <2>3, <2>4 DEF BookNext, WalletsNext, CheckOpen, BeginStatus
<1> QED BY <1>2, <1>3

LEMMA BooksShow == BooksInv => BookTypeOK /\ RowsApart
BY BookShows DEF BooksInv

-----------------------------------------------------------------------------
(* The core process: its settings, its pool and its end *)

\* Core runs only with settings New and the Validate functions passed, the URL Safaricom
\* holds was bound with such settings, and the database is open from its opening to its
\* closing.
BootInv ==
  /\ BootTypeOK /\ PaymentsHeard /\ LockStopsNobody /\ RequestsKeepDatabase
  /\ core.at # "down" =>
       ValidateMpesa(core.loaded)
  /\ bound.stage = "production" => bound.slug # "unset"
  /\ pool.open <=> core.at \in {"redis", "indices", "listen", "serving", "deaf", "close database"}
  /\ inWork > 0 => core.at \in {"serving", "deaf", "close database", "close redis"}
  /\ core.at \in {"close database", "close redis"} /\ inWork > 0 => forced

LEMMA BootStarts == BootInit => BootInv
<1> SUFFICES ASSUME BootInit PROVE BootInv
  OBVIOUS
<1>1. NoSettings \in Settings
  BY DEF NoSettings, Settings, Environment, Slug
<1>2. env \in Settings
  <2>1. env \in [stage : Environment, wrong : {{}}, slug : {"unset", "first"},
                 listed : {{}, {"safaricom"}}, trusted : {TRUE}]
    BY DEF BootInit
  <2>2. /\ env.stage \in Environment /\ env.wrong = {} /\ env.slug \in {"unset", "first"}
        /\ env.listed \in {{}, {"safaricom"}} /\ env.trusted = TRUE
    BY <2>1
  <2>3. env = [stage |-> env.stage, wrong |-> env.wrong, slug |-> env.slug,
               listed |-> env.listed, trusted |-> env.trusted]
    BY <2>1
  <2>4. env.slug \in Slug /\ env.wrong \in SUBSET Wrong /\ env.listed \in SUBSET Address /\ env.trusted \in BOOLEAN
    BY <2>2 DEF Slug, Address
  <2> QED BY <2>2, <2>3, <2>4 DEF Settings
<1>3. core = [at |-> "down", loaded |-> NoSettings] /\ pool = [open |-> FALSE, held |-> FALSE]
      /\ bound = [stage |-> "none", slug |-> "unset"]
  BY DEF BootInit
<1>4. core.at = "down" /\ core \in [at : Stage, loaded : Settings]
  BY <1>1, <1>3 DEF Stage
<1>5. pool \in [open : BOOLEAN, held : BOOLEAN] /\ ~pool.open /\ ~pool.held
  BY <1>3
<1>6. bound \in [stage : Environment \cup {"none"}, slug : Slug] /\ bound.stage # "production"
  BY <1>3 DEF Slug
<1>7. inWork = 0 /\ inWork \in 0..MaxInWork /\ ~(inWork > 0) /\ edited \in 0..MaxSettings
  BY BootAssumption DEF BootInit
<1>8. ~forced /\ ~unheard /\ forced \in BOOLEAN /\ unheard \in BOOLEAN
  BY DEF BootInit
<1> QED
  BY <1>2, <1>4, <1>5, <1>6, <1>7, <1>8
     DEF BootInv, BootTypeOK, PaymentsHeard, LockStopsNobody, RequestsKeepDatabase

LEMMA SettingsStay == ASSUME BootInv, EditSettings PROVE env' \in Settings /\ edited' \in 0..MaxSettings
<1>1. /\ env \in Settings /\ edited \in 0..MaxSettings /\ edited < MaxSettings
      /\ edited' = edited + 1
  BY DEF BootInv, BootTypeOK, EditSettings
<1>2. edited' \in 0..MaxSettings
  BY <1>1, BootAssumption
<1>3. ASSUME NEW e \in Environment, env' = [env EXCEPT !.stage = e]
      PROVE  env' \in Settings
  BY <1>1, <1>3 DEF Settings
<1>4. ASSUME NEW w \in Wrong,
             env' = [env EXCEPT !.wrong = IF w \in env.wrong THEN env.wrong \ {w} ELSE env.wrong \cup {w}]
      PROVE  env' \in Settings
  <2> DEFINE ws == IF w \in env.wrong THEN env.wrong \ {w} ELSE env.wrong \cup {w}
  <2>1. ws \in SUBSET Wrong
    BY <1>1 DEF Settings
  <2>2. env' = [env EXCEPT !.wrong = ws]
    BY <1>4
  <2> HIDE DEF ws
  <2> QED BY <1>1, <2>1, <2>2, Zenon DEF Settings
<1>5. ASSUME NEW s \in Slug, env' = [env EXCEPT !.slug = s]
      PROVE  env' \in Settings
  BY <1>1, <1>5 DEF Settings
<1>6. ASSUME NEW l \in SUBSET Address, env' = [env EXCEPT !.listed = l]
      PROVE  env' \in Settings
  BY <1>1, <1>6, Zenon DEF Settings
<1>7. ASSUME NEW t \in BOOLEAN, env' = [env EXCEPT !.trusted = t]
      PROVE  env' \in Settings
  BY <1>1, <1>7, Zenon DEF Settings
<1> QED BY <1>2, <1>3, <1>4, <1>5, <1>6, <1>7 DEF EditSettings

LEMMA BootSteps == BootInv /\ [BootNext]_bootVars => BootInv'
<1> SUFFICES ASSUME BootInv, [BootNext]_bootVars PROVE BootInv'
  OBVIOUS
<1> USE BootAssumption
<1>1. CASE EditSettings
  BY <1>1, SettingsStay DEF EditSettings, BootInv, BootTypeOK, PaymentsHeard, LockStopsNobody, RequestsKeepDatabase
<1>2. CASE LoadSettings
  BY <1>2 DEF LoadSettings, BootInv, BootTypeOK, PaymentsHeard, LockStopsNobody, RequestsKeepDatabase, Stage
<1>3. CASE OpenDatabase
  BY <1>3 DEF OpenDatabase, GetConnection, Reach, BootInv, BootTypeOK, PaymentsHeard, LockStopsNobody, RequestsKeepDatabase, Stage
<1>4. CASE OpenRedis \/ EnsureIndices \/ Listen
  BY <1>4 DEF OpenRedis, EnsureIndices, Listen, Reach, BootInv, BootTypeOK, PaymentsHeard, LockStopsNobody, RequestsKeepDatabase, Stage
<1>5. CASE Die \/ CloseRedis
  <2>1. Exit
    BY <1>5 DEF Die, CloseRedis
  <2>2. pool' = [open |-> FALSE, held |-> FALSE] /\ forced' = FALSE
    BY <2>1 DEF Exit
  <2>3. pool' \in [open : BOOLEAN, held : BOOLEAN] /\ ~pool'.open /\ ~pool'.held /\ forced' \in BOOLEAN
    BY <2>2
  <2>4. core'.at = "down" /\ core' \in [at : Stage, loaded : Settings]
    BY <2>1 DEF Exit, Reach, BootInv, BootTypeOK, Stage
  <2>5. inWork' = 0 /\ inWork' \in 0..MaxInWork /\ ~(inWork' > 0)
    BY <2>1 DEF Exit
  <2>6. UNCHANGED <<env, edited, bound, unheard>>
    BY <2>1 DEF Exit
  <2> QED BY <2>3, <2>4, <2>5, <2>6 DEF BootInv, BootTypeOK, PaymentsHeard, LockStopsNobody, RequestsKeepDatabase
<1>6. CASE Shutdown
  <2>1. /\ core.at \in {"serving", "deaf"} /\ core' = [core EXCEPT !.at = "close database"]
        /\ UNCHANGED <<env, edited, pool, inWork, bound, unheard>>
    BY <1>6 DEF Shutdown, Reach
  <2>2. core'.at = "close database" /\ core'.loaded = core.loaded /\ core' \in [at : Stage, loaded : Settings]
    BY <2>1 DEF BootInv, BootTypeOK, Stage
  <2>3. inWork > 0 => forced'
    <3>1. CASE inWork = 0
      BY <3>1
    <3>2. CASE forced' = TRUE
      BY <3>2
    <3> QED BY <1>6, <3>1, <3>2 DEF Shutdown
  <2>4. forced' \in BOOLEAN /\ pool.open /\ ~pool.held /\ ValidateMpesa(core.loaded)
    BY <1>6, <2>1 DEF Shutdown, BootInv, BootTypeOK, LockStopsNobody
  <2> QED
    BY <2>1, <2>2, <2>3, <2>4 DEF BootInv, BootTypeOK, PaymentsHeard, LockStopsNobody, RequestsKeepDatabase
<1>7. CASE CloseDatabase
  <2>1. pool' \in [open : BOOLEAN, held : BOOLEAN] /\ ~pool'.open /\ ~pool'.held
    BY <1>7 DEF CloseDatabase, CloseAll, BootInv, BootTypeOK
  <2>2. UNCHANGED <<env, edited, inWork, forced, bound, unheard>> /\ core' = [core EXCEPT !.at = "close redis"]
    BY <1>7 DEF CloseDatabase, Reach
  <2>3. core'.at = "close redis" /\ core'.loaded = core.loaded /\ core' \in [at : Stage, loaded : Settings]
    BY <2>2 DEF BootInv, BootTypeOK, Stage
  <2>4. inWork > 0 => forced
    BY <1>7 DEF CloseDatabase, BootInv, BootTypeOK
  <2>5. core'.at # "close database" /\ core'.at # "down"
    BY <2>3
  <2>6. inWork > 0 => core.at \in {"close database"}
    BY <1>7 DEF CloseDatabase
  <2>7. ValidateMpesa(core.loaded)
    BY <1>7 DEF CloseDatabase, BootInv
  <2> QED
    BY <2>1, <2>2, <2>3, <2>4, <2>5, <2>7
       DEF BootInv, BootTypeOK, PaymentsHeard, LockStopsNobody, RequestsKeepDatabase
<1>8. CASE StartRequest \/ EndRequest
  <2>1. UNCHANGED <<env, edited, core, pool, forced, bound, unheard>>
    BY <1>8 DEF StartRequest, EndRequest
  <2>2. /\ inWork \in 0..MaxInWork /\ MaxInWork \in Nat
        /\ \/ inWork < MaxInWork /\ inWork' = inWork + 1
           \/ inWork > 0 /\ inWork' = inWork - 1
    BY <1>8 DEF StartRequest, EndRequest, BootInv, BootTypeOK
  <2>3. inWork' \in 0..MaxInWork /\ (inWork = 0 => inWork' = 0 \/ StartRequest)
    BY <2>2, <1>8 DEF EndRequest
  <2>4. CASE StartRequest
    <3>1. core.at = "serving" \/ (core.at \in {"close database", "close redis"} /\ forced)
      BY <2>4 DEF StartRequest
    <3> QED BY <2>1, <2>3, <3>1, Zenon DEF BootInv, BootTypeOK, PaymentsHeard, LockStopsNobody, RequestsKeepDatabase
  <2>5. CASE EndRequest
    <3>1. inWork > 0
      BY <2>5 DEF EndRequest
    <3>2. inWork # 0
      BY <3>1, <2>2
    <3> QED BY <2>1, <2>3, <3>1, <3>2, Zenon DEF BootInv, BootTypeOK, PaymentsHeard, LockStopsNobody, RequestsKeepDatabase
  <2> QED BY <1>8, <2>4, <2>5
<1>9. CASE ReadinessProbe
  BY <1>9 DEF ReadinessProbe, Ready, BootInv, BootTypeOK, PaymentsHeard, LockStopsNobody, RequestsKeepDatabase
<1>10. CASE RegisterC2B
  BY <1>10 DEF RegisterC2B, ValidateMpesa, Production, BootInv, BootTypeOK, PaymentsHeard, LockStopsNobody, RequestsKeepDatabase, Settings
<1>11. CASE \E peer \in Address : Post(peer)
  <2>1. PICK peer \in Address : Post(peer)
    BY <1>11
  <2>2. Expected(peer) => Heard(peer)
    BY <2>1 DEF Expected, Heard, allowedCIDR, ClientIP, Post, BootInv, Address, Production
  <2> QED
    BY <2>1, <2>2 DEF Post, BootInv, BootTypeOK, PaymentsHeard, LockStopsNobody, RequestsKeepDatabase
<1>12. CASE UNCHANGED bootVars
  BY <1>12 DEF bootVars, BootInv, BootTypeOK, PaymentsHeard, LockStopsNobody, RequestsKeepDatabase
<1> QED
  BY <1>1, <1>2, <1>3, <1>4, <1>5, <1>6, <1>7, <1>8, <1>9, <1>10, <1>11, <1>12 DEF BootNext

LEMMA BootShows == BootInv => BootTypeOK /\ BootSound
  BY DEF BootInv, BootSound

-----------------------------------------------------------------------------
(* Loan references (References) *)

\* What the references and prefixes are made of.
Symbol == Nat \cup {checkChar(s) : s \in Seq(Nat)}

\* A reference as Generate makes it, whatever its prefix.
WellFormed(ref) ==
  /\ Len(ref) = referenceLen
  /\ \A i \in 1..referenceLen - 1 : ref[i] \in Letter
  /\ checkChar(Front(ref)) = Last(ref)

Reading == Seq(Symbol)

RefRow == [status : {"none", "open", "repaid", "deleted"}, ref : Reading, legacy : Reading]
NameAnswer == {"unasked", "found", "not found"}

RefPayment ==
  [at : {"none", "typed", "paid", "pulled", "orphaned"}, meant : Int, typed : Reading,
   name : NameAnswer, answer : {"unasked", "accepted", "C2B00012", "C2B00016"},
   named : Int, credited : Int]

RefsInv ==
  /\ prefix \in [1..PrefixLen -> Letter]
  /\ loans \in [Loan -> RefRow]
  /\ payment \in RefPayment
  /\ \A l \in Loan : loans[l].ref # <<>> => loans[l].status # "none" /\ WellFormed(loans[l].ref)
  /\ payment.at = "typed" => payment.typed # <<>>

\* What Generate makes passes the check of Validate but for its prefix (loanref.go).
LEMMA GeneratedIsFormed ==
  ASSUME NEW p \in [1..PrefixLen -> Letter], NEW random \in Random
  PROVE  Generate(p, random) \in Reading /\ WellFormed(Generate(p, random))
<1> DEFINE b == p \o random
           c == checkChar(b)
           g == Append(b, c)
<1>1. /\ p \in Seq(Letter) /\ Len(p) = PrefixLen
      /\ random \in Seq(Letter) /\ Len(random) = RandomLen
  BY ReferencesAssumption DEF Random
<1>2. b \in Seq(Letter) /\ Len(b) = PrefixLen + RandomLen /\ b \in Seq(Nat)
  <2>1. b \in Seq(Letter) /\ Len(b) = PrefixLen + RandomLen
    BY <1>1
  <2>2. Letter \subseteq Nat
    BY ReferencesAssumption DEF Letter
  <2> HIDE DEF b
  <2> QED BY <2>1, <2>2, SeqMonotonic
<1>3. c \in Symbol
  BY <1>2 DEF Symbol
<1>4. b \in Seq(Symbol)
  <2>1. Nat \subseteq Symbol
    BY DEF Symbol
  <2> HIDE DEF b
  <2> QED BY <1>2, <2>1, SeqMonotonic
<1> HIDE DEF b, c
<1>5. g \in Seq(Symbol) /\ Len(g) = PrefixLen + RandomLen + 1
  BY <1>2, <1>3, <1>4, ReferencesAssumption
<1>6. \A i \in 1..PrefixLen + RandomLen : g[i] \in Letter
  BY <1>2, ReferencesAssumption
<1>7. Front(g) = b
  BY <1>2, <1>5, ReferencesAssumption DEF Front
<1>8. Last(g) = c
  BY <1>2, <1>5, ReferencesAssumption DEF Last
<1>9. referenceLen = PrefixLen + RandomLen + 1 /\ referenceLen - 1 = PrefixLen + RandomLen
  BY ReferencesAssumption DEF referenceLen
<1>10. c = checkChar(b)
  BY DEF c
<1>11. WellFormed(g)
  BY <1>5, <1>6, <1>7, <1>8, <1>9, <1>10 DEF WellFormed
<1>12. g = Generate(p, random)
  BY DEF b, c, Generate
<1> QED BY <1>5, <1>11, <1>12 DEF Reading

LEMMA RefsStart == RefInit => RefsInv
<1> SUFFICES ASSUME RefInit PROVE RefsInv
  OBVIOUS
<1>0. <<>> \in Reading
  BY DEF Reading
<1>1. Unissued \in RefRow
  BY <1>0 DEF Unissued, RefRow
<1>2. \A l \in Loan : LegacyLoan(l) \in RefRow
  <2> TAKE l \in Loan
  <2>1. Other \in Symbol /\ l \in Symbol
    BY ReferencesAssumption DEF Symbol, Other, Loan
  <2>2. LegacyReference(l) \in Reading
    BY <2>1 DEF LegacyReference, Reading
  <2> QED BY <1>0, <2>2 DEF LegacyLoan, RefRow
<1>3. loans \in [Loan -> RefRow] /\ \A l \in Loan : loans[l].ref = <<>>
  BY <1>1, <1>2 DEF RefInit, Unissued, LegacyLoan
<1>4. payment \in RefPayment /\ payment.at = "none"
  <2>1. "unasked" \in NameAnswer
    BY DEF NameAnswer
  <2> QED BY <1>0, <2>1 DEF RefInit, RefPayment, None
<1>5. prefix \in [1..PrefixLen -> Letter]
  BY ReferencesAssumption DEF RefInit, Letter
<1> QED BY <1>3, <1>4, <1>5 DEF RefsInv

\* A row put in keeps the others.
LEMMA RowPutIn ==
  ASSUME RefsInv, NEW l \in Loan, NEW row \in RefRow,
         row.ref # <<>> => row.status # "none" /\ WellFormed(row.ref),
         loans' = [loans EXCEPT ![l] = row], UNCHANGED <<prefix, payment>>
  PROVE  RefsInv'
<1>1. loans' \in [Loan -> RefRow]
  BY DEF RefsInv
<1>2. \A k \in Loan : loans'[k] = IF k = l THEN row ELSE loans[k]
  BY DEF RefsInv
<1>3. \A k \in Loan : loans'[k].ref # <<>> => loans'[k].status # "none" /\ WellFormed(loans'[k].ref)
  BY <1>2 DEF RefsInv
<1> QED BY <1>1, <1>3 DEF RefsInv

LEMMA RefsStep == RefsInv /\ [RefNext]_refVars => RefsInv'
<1> SUFFICES ASSUME RefsInv, [RefNext]_refVars PROVE RefsInv'
  OBVIOUS
<1>1. ASSUME NEW l \in Loan, NEW r \in Random, IssueLoan(l, r) PROVE RefsInv'
  <2> DEFINE g == Generate(prefix, r)
  <2>1. g \in Reading /\ WellFormed(g)
    BY GeneratedIsFormed DEF RefsInv
  <2> HIDE DEF g
  <2>2. [status |-> "open", ref |-> g, legacy |-> <<>>] \in RefRow
    <3>1. <<>> \in Reading
      BY DEF Reading
    <3> QED BY <2>1, <3>1 DEF RefRow
  <2>3. loans' = [loans EXCEPT ![l] = [status |-> "open", ref |-> g, legacy |-> <<>>]] /\ UNCHANGED <<prefix, payment>>
    BY <1>1 DEF IssueLoan, Insert, g
  <2> QED BY <2>1, <2>2, <2>3, RowPutIn
<1>2. ASSUME NEW l \in Loan, NEW r \in Random, BackfillReference(l, r) PROVE RefsInv'
  <2> DEFINE g == Generate(prefix, r)
  <2>1. g \in Reading /\ WellFormed(g)
    BY GeneratedIsFormed DEF RefsInv
  <2> HIDE DEF g
  <2>2. loans[l] \in RefRow
    BY DEF RefsInv
  <2>3. [loans[l] EXCEPT !.ref = g] \in RefRow /\ [loans[l] EXCEPT !.ref = g].ref = g
        /\ [loans[l] EXCEPT !.ref = g].status = loans[l].status
    BY <2>1, <2>2 DEF RefRow
  <2>4. loans' = [loans EXCEPT ![l] = [loans[l] EXCEPT !.ref = g]] /\ UNCHANGED <<prefix, payment>>
        /\ loans[l].status # "none"
    BY <1>2 DEF BackfillReference, Insert, g
  <2> DEFINE row == [loans[l] EXCEPT !.ref = g]
  <2>5. row \in RefRow /\ (row.ref # <<>> => row.status # "none" /\ WellFormed(row.ref))
        /\ loans' = [loans EXCEPT ![l] = row]
    BY <2>1, <2>3, <2>4
  <2> HIDE DEF row
  <2> QED BY <2>4, <2>5, RowPutIn
<1>3. ASSUME NEW l \in Loan, NEW status \in {"repaid", "deleted"}, EndLoan(l, status) PROVE RefsInv'
  <2> DEFINE row == [loans[l] EXCEPT !.status = status]
  <2>1. loans[l] \in RefRow
    BY DEF RefsInv
  <2>2. row \in RefRow /\ row.ref = loans[l].ref /\ row.status = status
    BY <2>1 DEF RefRow
  <2>3. loans' = [loans EXCEPT ![l] = row] /\ UNCHANGED <<prefix, payment>>
    BY <1>3 DEF EndLoan
  <2>4. row.ref # <<>> => row.status # "none" /\ WellFormed(row.ref)
    BY <2>2 DEF RefsInv
  <2> HIDE DEF row
  <2> QED BY <2>2, <2>3, <2>4, RowPutIn
<1>4. ASSUME NEW l \in Loan, NEW typed, Type(l, typed) PROVE RefsInv'
  <2>1. typed \in Reading
    <3>1. loans[l].ref \in Reading /\ loans[l].legacy \in Reading
      BY DEF RefsInv, RefRow
    <3>2. CASE typed \in {loans[l].ref, loans[l].legacy}
      BY <3>1, <3>2
    <3>3. CASE typed \in Slips(loans[l].ref)
      <4> DEFINE ref == loans[l].ref
      <4>1. PICK i \in DOMAIN ref, c \in Letter \cup {Other} : typed = [ref EXCEPT ![i] = c]
        BY <3>3 DEF Slips
      <4>2. c \in Symbol
        BY ReferencesAssumption DEF Letter, Other, Symbol
      <4>3. ref \in Seq(Symbol)
        BY <3>1 DEF Reading
      <4> HIDE DEF ref
      <4> QED BY <4>1, <4>2, <4>3 DEF Reading
    <3> QED BY <3>2, <3>3, <1>4 DEF Type
  <2>2. payment' = [payment EXCEPT !.at = "typed", !.meant = l, !.typed = typed] /\ typed # <<>>
        /\ UNCHANGED <<loans, prefix>>
    BY <1>4 DEF Type
  <2>3. payment' \in RefPayment /\ payment'.typed = typed
    <3>1. l \in Int /\ payment \in RefPayment
      BY DEF RefsInv, Loan
    <3> QED BY <2>1, <2>2, <3>1 DEF RefPayment
  <2> QED BY <2>2, <2>3 DEF RefsInv
<1>5. ASSUME NEW p \in Characters(PrefixLen), Restart(p) PROVE RefsInv'
  <2>1. p \in [1..PrefixLen -> Letter]
    BY <1>5, ReferencesAssumption DEF Characters, Restart, ValidatePrefix
  <2> QED BY <1>5, <2>1 DEF Restart, RefsInv
<1>6. CASE Resolve
  <2>1. payment' \in RefPayment /\ payment'.at = payment.at /\ payment'.typed = payment.typed
    <3>1. PICK n \in NameAnswer : payment' = [payment EXCEPT !.name = n]
      BY <1>6, Zenon DEF Resolve, NameAnswer
    <3>2. payment \in RefPayment
      BY DEF RefsInv
    <3> QED BY <3>1, <3>2 DEF RefPayment
  <2> QED BY <1>6, <2>1 DEF Resolve, RefsInv
<1>7. CASE C2BValidation
  <2>1. PICK code \in {"C2B00012", "C2B00016", "accepted"}, l \in Loan \cup {None} : Answered(code, l)
    BY <1>7 DEF C2BValidation, GetLoanIDByReference, LoansNamed
  <2>2. payment' = [payment EXCEPT !.answer = code, !.named = l] /\ UNCHANGED <<loans, prefix>>
    BY <1>7, <2>1 DEF C2BValidation, Answered
  <2>3. payment' \in RefPayment /\ payment'.at = payment.at /\ payment'.typed = payment.typed
    <3>1. l \in Int /\ payment \in RefPayment
      BY DEF RefsInv, Loan, None
    <3>2. code \in {"unasked", "accepted", "C2B00012", "C2B00016"}
      OBVIOUS
    <3> QED BY <2>2, <3>1, <3>2 DEF RefPayment
  <2> QED BY <2>2, <2>3 DEF RefsInv
<1>8. CASE Pays
  <2>1. payment' \in RefPayment /\ payment'.at = "paid"
    BY <1>8 DEF Pays, RefsInv, RefPayment
  <2> QED BY <1>8, <2>1 DEF Pays, RefsInv
<1>9. CASE reconcile
  <2>1. payment' \in RefPayment /\ payment'.at \in {"pulled", "orphaned"}
    <3>1. ASSUME NEW l \in GetLoanIDByReference(payment.typed),
                 payment' = [payment EXCEPT !.at = "pulled", !.credited = l]
          PROVE  payment' \in RefPayment /\ payment'.at = "pulled"
      <4>1. l \in Int
        BY DEF GetLoanIDByReference, LoansNamed, Loan, None
      <4> QED BY <3>1, <4>1 DEF RefsInv, RefPayment
    <3>2. ASSUME payment' = [payment EXCEPT !.at = "orphaned"]
          PROVE  payment' \in RefPayment /\ payment'.at = "orphaned"
      BY <3>2 DEF RefsInv, RefPayment
    <3> QED BY <1>9, <3>1, <3>2 DEF reconcile
  <2> QED BY <1>9, <2>1 DEF reconcile, RefsInv
<1>10. CASE UNCHANGED refVars
  BY <1>10 DEF refVars, RefsInv
<1> QED BY <1>1, <1>2, <1>3, <1>4, <1>5, <1>6, <1>7, <1>8, <1>9, <1>10 DEF RefNext

\* A reference made under the prefix in force passes Validate, and its loan is found.
LEMMA OwnReferencePasses ==
  RefsInv /\ [RefNext]_refVars
    => [payment'.answer = "C2B00012" /\ payment.answer = "unasked" =>
         \A l \in Loan :
            loans[l].ref = payment.typed /\ loans[l].status # "deleted" => ~IsPrefix(prefix, loans[l].ref)
       ]_refVars
<1> SUFFICES ASSUME RefsInv, RefNext, payment'.answer = "C2B00012", payment.answer = "unasked",
                    NEW l \in Loan, loans[l].ref = payment.typed, loans[l].status # "deleted",
                    IsPrefix(prefix, loans[l].ref)
             PROVE  FALSE
  OBVIOUS
<1>1. payment' # payment /\ payment \in RefPayment
  BY DEF RefsInv
<1>2. C2BValidation
  <2>1. ASSUME NEW k, NEW typed, Type(k, typed) PROVE FALSE
    <3>1. payment'.answer = payment.answer
      BY <2>1, <1>1 DEF Type, RefPayment
    <3> QED BY <3>1
  <2>2. Resolve => payment'.answer = payment.answer
    BY <1>1 DEF Resolve, RefPayment
  <2>3. Pays => payment'.answer = payment.answer
    BY <1>1 DEF Pays, RefPayment
  <2>4. reconcile => payment'.answer = payment.answer
    BY <1>1 DEF reconcile, RefPayment
  <2> QED BY <1>1, <2>1, <2>2, <2>3, <2>4 DEF RefNext, IssueLoan, BackfillReference, EndLoan, Restart
<1>3. payment.typed # <<>>
  BY <1>2 DEF C2BValidation, RefsInv
<1>4. WellFormed(payment.typed) /\ loans[l].status # "none"
  BY <1>3 DEF RefsInv
<1>5. Validate(prefix, payment.typed)
  BY <1>4 DEF Validate, WellFormed
<1>6. l \in LoansNamed(payment.typed)
  BY <1>4 DEF LoansNamed
<1>7. \A k \in GetLoanIDByReference(payment.typed) : k # None
  BY <1>6, ReferencesAssumption DEF GetLoanIDByReference, LoansNamed, Loan, None
<1>8. \/ \E k \in GetLoanIDByReference(payment.typed) : Answered("accepted", k)
      \/ Answered("C2B00016", None)
  BY <1>2, <1>5, <1>7 DEF C2BValidation
<1>9. \A code, k : Answered(code, k) => payment'.answer = code
  BY <1>1 DEF Answered, RefPayment
<1> QED BY <1>8, <1>9

\* What Validate lets through is no legacy reference (loanref.go).
LEMMA ValidIsNotLegacy ==
  ASSUME NEW p, NEW ref, Validate(p, ref), NEW l \in Loan
  PROVE  ref # LegacyReference(l)
<1> SUFFICES ASSUME ref = LegacyReference(l) PROVE FALSE
  OBVIOUS
<1>1. ref = <<Other, l>>
  BY DEF LegacyReference
<1>2. Len(ref) = 2 /\ ref[1] = Other
  BY <1>1
<1>3. ref[1] \in Letter
  BY <1>2, ReferencesAssumption DEF Validate, referenceLen
<1> QED BY <1>2, <1>3, ReferencesAssumption DEF Letter, Other

\* The loan a payment was accepted for is the one its reference names.
AcceptedIsNamed ==
  /\ \A l, k \in Loan : loans[l].ref = loans[k].ref /\ loans[l].ref # <<>> => l = k
  /\ \A l \in Loan : loans[l].legacy \in {<<>>, LegacyReference(l)}
  /\ payment.answer = "accepted" =>
       /\ payment.at # "none" /\ payment.typed # <<>>
       /\ payment.named \in Loan /\ loans[payment.named].ref = payment.typed
       /\ \A l \in Loan : payment.typed # LegacyReference(l)
  /\ CreditFollowsAnswer

LEMMA AcceptedStarts == RefInit => AcceptedIsNamed
  BY DEF RefInit, AcceptedIsNamed, CreditFollowsAnswer, Unissued, LegacyLoan

\* A row put in under a reference of its own, over one that no payment was accepted for.
LEMMA OwnRowPutIn ==
  ASSUME RefsInv, AcceptedIsNamed, NEW l \in Loan, NEW row \in RefRow,
         row.ref = <<>> \/ \A k \in Loan \ {l} : loans[k].ref # row.ref,
         row.legacy \in {<<>>, LegacyReference(l)},
         loans[l].ref # <<>> => row.ref = loans[l].ref,
         loans[l].status = "deleted" => row.status = "deleted",
         loans' = [loans EXCEPT ![l] = row], UNCHANGED payment
  PROVE  AcceptedIsNamed'
<1>1. \A k \in Loan : loans'[k] = IF k = l THEN row ELSE loans[k]
  BY DEF RefsInv
<1>2. \A i, k \in Loan : loans'[i].ref = loans'[k].ref /\ loans'[i].ref # <<>> => i = k
  BY <1>1 DEF AcceptedIsNamed
<1>3. \A k \in Loan : loans'[k].legacy \in {<<>>, LegacyReference(k)}
  BY <1>1 DEF AcceptedIsNamed
<1>4. ASSUME payment.answer = "accepted"
      PROVE  loans'[payment.named].ref = payment.typed
  BY <1>1, <1>4 DEF AcceptedIsNamed
<1>5. \A k \in Loan : loans[k].status = "deleted" => loans'[k].status = "deleted"
  BY <1>1
<1>6. CreditFollowsAnswer'
  BY <1>5 DEF AcceptedIsNamed, CreditFollowsAnswer
<1> QED BY <1>2, <1>3, <1>4, <1>6 DEF AcceptedIsNamed

\* A step that leaves the loans, the words typed and what was accepted.
LEMMA AcceptedRests ==
  ASSUME AcceptedIsNamed, loans' = loans,
         payment'.answer = payment.answer /\ payment'.typed = payment.typed
           /\ payment'.named = payment.named /\ payment'.at # "none",
         CreditFollowsAnswer'
  PROVE  AcceptedIsNamed'
BY DEF AcceptedIsNamed

LEMMA AcceptedSteps == RefsInv /\ AcceptedIsNamed /\ [RefNext]_refVars => AcceptedIsNamed'
<1> SUFFICES ASSUME RefsInv, AcceptedIsNamed, [RefNext]_refVars PROVE AcceptedIsNamed'
  OBVIOUS
<1>0. payment \in RefPayment /\ \A l \in Loan : loans[l] \in RefRow
  BY DEF RefsInv
<1>1. ASSUME NEW l \in Loan, NEW r \in Random, IssueLoan(l, r) PROVE AcceptedIsNamed'
  <2> DEFINE g == Generate(prefix, r)
             row == [status |-> "open", ref |-> g, legacy |-> <<>>]
  <2>1. g \in Reading
    BY GeneratedIsFormed DEF RefsInv
  <2> HIDE DEF g
  <2>2. row \in RefRow /\ row.ref = g /\ row.legacy = <<>>
    <3>1. <<>> \in Reading
      BY DEF Reading
    <3> QED BY <2>1, <3>1 DEF RefRow
  <2>3. /\ loans' = [loans EXCEPT ![l] = row] /\ UNCHANGED payment
        /\ loans[l].status = "none" /\ \A k \in Loan \ {l} : loans[k].ref # g
    BY <1>1 DEF IssueLoan, Insert, g
  <2>4. loans[l].ref = <<>>
    BY <2>3 DEF RefsInv
  <2> HIDE DEF row
  <2> QED BY <2>2, <2>3, <2>4, OwnRowPutIn
<1>2. ASSUME NEW l \in Loan, NEW r \in Random, BackfillReference(l, r) PROVE AcceptedIsNamed'
  <2> DEFINE g == Generate(prefix, r)
             row == [loans[l] EXCEPT !.ref = g]
  <2>1. g \in Reading
    BY GeneratedIsFormed DEF RefsInv
  <2> HIDE DEF g
  <2>2. row \in RefRow /\ row.ref = g /\ row.legacy = loans[l].legacy /\ row.status = loans[l].status
    BY <2>1, <1>0 DEF RefRow
  <2>3. /\ loans' = [loans EXCEPT ![l] = row] /\ UNCHANGED payment
        /\ loans[l].ref = <<>> /\ \A k \in Loan \ {l} : loans[k].ref # row.ref
    <3>1. /\ loans' = [loans EXCEPT ![l] = row] /\ UNCHANGED payment /\ loans[l].ref = <<>>
      BY <1>2 DEF BackfillReference, Insert, g
    <3>2. \A k \in Loan \ {l} : loans[k].ref # row.ref
      BY <1>2 DEF BackfillReference, Insert, g
    <3> QED BY <3>1, <3>2
  <2>4. row.legacy \in {<<>>, LegacyReference(l)}
    BY <2>2 DEF AcceptedIsNamed
  <2> HIDE DEF row
  <2> QED BY <2>2, <2>3, <2>4, OwnRowPutIn
<1>3. ASSUME NEW l \in Loan, NEW status \in {"repaid", "deleted"}, EndLoan(l, status)
      PROVE  AcceptedIsNamed'
  <2> DEFINE row == [loans[l] EXCEPT !.status = status]
  <2>1. row \in RefRow /\ row.ref = loans[l].ref /\ row.legacy = loans[l].legacy /\ row.status = status
    BY <1>0 DEF RefRow
  <2>2. loans' = [loans EXCEPT ![l] = row] /\ UNCHANGED payment /\ loans[l].status # "deleted"
    BY <1>3 DEF EndLoan
  <2>3. row.ref = <<>> \/ \A k \in Loan \ {l} : loans[k].ref # row.ref
    BY <2>1 DEF AcceptedIsNamed
  <2>4. row.legacy \in {<<>>, LegacyReference(l)}
    BY <2>1 DEF AcceptedIsNamed
  <2> HIDE DEF row
  <2> QED BY <2>1, <2>2, <2>3, <2>4, OwnRowPutIn
<1>4. ASSUME NEW l, NEW typed, Type(l, typed) PROVE AcceptedIsNamed'
  <2>1. /\ loans' = loans /\ payment.at = "none"
        /\ payment'.answer = payment.answer /\ payment'.at = "typed"
    BY <1>0, <1>4 DEF Type, RefPayment
  <2>2. payment'.answer # "accepted"
    BY <2>1 DEF AcceptedIsNamed
  <2> QED BY <2>1, <2>2 DEF AcceptedIsNamed, CreditFollowsAnswer
<1>5. ASSUME NEW p, Restart(p) PROVE AcceptedIsNamed'
  BY <1>5 DEF Restart, AcceptedIsNamed, CreditFollowsAnswer
<1>6. CASE Resolve
  <2>1. /\ loans' = loans /\ payment'.answer = payment.answer /\ payment'.typed = payment.typed
        /\ payment'.named = payment.named /\ payment'.at = "typed"
    BY <1>0, <1>6 DEF Resolve, RefPayment
  <2>2. CreditFollowsAnswer'
    BY <2>1 DEF CreditFollowsAnswer
  <2> QED BY <2>1, <2>2, AcceptedRests
<1>7. CASE C2BValidation
  <2>1. loans' = loans /\ payment.at = "typed"
    BY <1>7 DEF C2BValidation
  <2>2. ASSUME NEW code, NEW k, Answered(code, k)
        PROVE  /\ payment'.answer = code /\ payment'.named = k /\ payment'.typed = payment.typed
               /\ payment'.at = payment.at
    BY <1>0, <2>2 DEF Answered, RefPayment
  <2>3. CreditFollowsAnswer'
    <3>1. payment'.at = "typed"
      BY <1>7, <2>1, <2>2 DEF C2BValidation
    <3> QED BY <3>1 DEF CreditFollowsAnswer
  <2>4. ASSUME payment'.answer = "accepted"
        PROVE  /\ payment'.at # "none" /\ payment'.typed # <<>>
               /\ payment'.named \in Loan /\ loans'[payment'.named].ref = payment'.typed
               /\ \A l \in Loan : payment'.typed # LegacyReference(l)
    <3>1. PICK k \in GetLoanIDByReference(payment.typed) :
             Validate(prefix, payment.typed) /\ k # None /\ Answered("accepted", k)
      <4>1. ASSUME Answered("C2B00012", None) PROVE FALSE
        BY <2>2, <2>4, <4>1
      <4>2. ASSUME Answered("C2B00016", None) PROVE FALSE
        BY <2>2, <2>4, <4>2
      <4>3. ASSUME NEW k, k = None, Answered(IF k = None THEN "C2B00012" ELSE "accepted", k) PROVE FALSE
        BY <4>1, <4>3
      <4> QED BY <1>7, <4>1, <4>2, <4>3 DEF C2BValidation
    <3>2. k \in LoansNamed(payment.typed)
      BY <3>1 DEF GetLoanIDByReference
    <3>3. \A l \in Loan : payment.typed # LegacyReference(l)
      BY <3>1, ValidIsNotLegacy
    <3>4. payment.typed # <<>>
      BY <2>1 DEF RefsInv
    <3>5. k \in Loan /\ loans[k].ref = payment.typed
      BY <3>2, <3>3, <3>4 DEF LoansNamed, AcceptedIsNamed
    <3> QED BY <2>1, <2>2, <3>1, <3>3, <3>4, <3>5
  <2> QED BY <2>1, <2>3, <2>4 DEF AcceptedIsNamed
<1>8. CASE Pays
  <2>1. /\ loans' = loans /\ payment'.answer = payment.answer /\ payment'.typed = payment.typed
        /\ payment'.named = payment.named /\ payment'.at = "paid"
    BY <1>0, <1>8 DEF Pays, RefPayment
  <2>2. CreditFollowsAnswer'
    BY <2>1 DEF CreditFollowsAnswer
  <2> QED BY <2>1, <2>2, AcceptedRests
<1>9. CASE reconcile
  <2>1. /\ loans' = loans /\ payment'.answer = payment.answer /\ payment'.typed = payment.typed
        /\ payment'.named = payment.named /\ payment'.at \in {"pulled", "orphaned"}
        /\ payment'.at = "pulled" => payment'.credited \in GetLoanIDByReference(payment.typed)
    BY <1>0, <1>9 DEF reconcile, RefPayment
  <2>2. CreditFollowsAnswer'
    <3> SUFFICES ASSUME payment'.at = "pulled", payment.answer = "accepted"
                 PROVE  \/ payment'.credited = payment.named
                        \/ payment'.credited = None /\ loans[payment.named].status = "deleted"
      BY <2>1 DEF CreditFollowsAnswer
    <3> DEFINE n == payment.named
    <3>1. n \in Loan /\ loans[n].ref = payment.typed /\ payment.typed # <<>>
          /\ \A l \in Loan : payment.typed # LegacyReference(l)
      BY DEF AcceptedIsNamed
    <3>2. loans[n].status # "none"
      BY <3>1 DEF RefsInv
    <3>3. CASE LoansNamed(payment.typed) = {}
      <4>1. loans[n].status = "deleted"
        BY <3>1, <3>2, <3>3 DEF LoansNamed
      <4>2. payment'.credited = None
        BY <2>1, <3>3 DEF GetLoanIDByReference
      <4> QED BY <4>1, <4>2
    <3>4. CASE LoansNamed(payment.typed) # {}
      <4>1. PICK k \in LoansNamed(payment.typed) : payment'.credited = k
        BY <2>1, <3>4 DEF GetLoanIDByReference
      <4>2. k \in Loan /\ loans[k].ref = payment.typed
        BY <3>1 DEF LoansNamed, AcceptedIsNamed
      <4>3. k = n
        BY <3>1, <4>2 DEF AcceptedIsNamed
      <4> QED BY <4>1, <4>3
    <3> QED BY <3>3, <3>4
  <2>3. payment'.at # "none"
    BY <2>1
  <2> QED BY <2>1, <2>2, <2>3, AcceptedRests
<1>10. CASE UNCHANGED refVars
  BY <1>10 DEF refVars, AcceptedIsNamed, CreditFollowsAnswer
<1> QED BY <1>1, <1>2, <1>3, <1>4, <1>5, <1>6, <1>7, <1>8, <1>9, <1>10 DEF RefNext

ReferencesInv == RefsInv /\ AcceptedIsNamed

LEMMA ReferencesStart == RefInit => ReferencesInv
  BY RefsStart, AcceptedStarts DEF ReferencesInv

LEMMA ReferencesStep == ReferencesInv /\ [RefNext]_refVars => ReferencesInv'
  BY RefsStep, AcceptedSteps DEF ReferencesInv

-----------------------------------------------------------------------------
(* The composition (MCRecords) *)

\* A step of MCRecords is a step of one part and leaves the others alone.
LEMMA RecordPartsMoveAlone ==
  ASSUME [Next]_<<part, uvars, mpesaVars, airtelVars, watchVars, regVars, bookVars, bootVars, refVars>>
  PROVE  /\ [uNext]_uvars
         /\ [MpesaNext]_mpesaVars
         /\ [AirtelNext]_airtelVars
         /\ [VaultWatchNext]_watchVars
         /\ [RegistrationsNext]_regVars
         /\ [BookNext]_bookVars
         /\ [BootNext]_bootVars
         /\ [RefNext]_refVars
BY DEF Next, UsersMove, MpesaMoves, AirtelMoves, VaultWatchMoves, RegistrationsMove,
       TransactionsMove, WalletsMove, BookNext, BootMoves, ReferencesMove

\* The invariants of the parts, in any behaviour of MCRecords.
RecordsInv == UsersInv /\ MpesaInv /\ MpesaCounts /\ SweepInv /\ WatchInv /\ RegInv /\ BooksInv
              /\ BootInv /\ ReferencesInv

LEMMA RecordsInvHolds == Spec => []RecordsInv
<1>1. Init => RecordsInv
  BY UsersStarts, MpesaStarts, SweepStarts, WatchStarts, RegStarts, BooksStart, BootStarts,
     ReferencesStart
     DEF Init, RecordsInv
<1>2. RecordsInv /\ [Next]_<<part, uvars, mpesaVars, airtelVars, watchVars, regVars, bookVars, bootVars, refVars>> => RecordsInv'
  <2> SUFFICES ASSUME RecordsInv, [Next]_<<part, uvars, mpesaVars, airtelVars, watchVars, regVars, bookVars, bootVars, refVars>>
               PROVE  RecordsInv'
    OBVIOUS
  <2>1. /\ [uNext]_uvars /\ [MpesaNext]_mpesaVars /\ [AirtelNext]_airtelVars
        /\ [VaultWatchNext]_watchVars /\ [RegistrationsNext]_regVars /\ [BookNext]_bookVars
        /\ [BootNext]_bootVars /\ [RefNext]_refVars
    BY RecordPartsMoveAlone
  <2> QED BY <2>1, UsersSteps, MpesaKeeps, MpesaCounted, SweepSteps, WatchSteps, RegSteps, BooksStep, BootSteps,
           ReferencesStep
     DEF RecordsInv
<1> QED BY <1>1, <1>2, PTL DEF Spec

\* Every row, cursor, call and session of the parts keeps its type
\* (user_repository.go, pull.go, summary.go, watcher.go, account_repository.go).
THEOREM RecordsTyped == Spec => []TypesOK
<1>1. RecordsInv => TypesOK
  BY UsersShows, MpesaShows, SweepShows, WatchShows, RegShows, BooksShow, BootShows
     DEF RecordsInv, TypesOK
<1> QED BY <1>1, RecordsInvHolds, PTL

\* PIN attempts are counted, an admin remains, numbers were approved for the IDs of
\* their users and no user's key is another's on the ledger (user_service.go, service.go,
\* pilot.go, main.go), and a hash is on one transaction, a key on one account
\* (transaction_service.go, account_service.go): whatever calls overlap, and whatever is
\* stopped, restored from a copy, rolled back or booted again.
THEOREM PeopleStaySound == Spec => []PeopleSound
<1>1. RecordsInv => PeopleSound
  BY UsersShows, RegShows, BooksShow DEF RecordsInv, PeopleSound
<1> QED BY <1>1, RecordsInvHolds, PTL

\* A loan is credited by M-Pesa only for a receipt that was settled, and every payment
\* settled before the pull's cursor is confirmed but for a failed write or a page that
\* did not read (pull.go, mpesa_repository.go, daraja_callback_controller.go).
THEOREM CollectionsStaySound == Spec => []MpesaSound
<1>1. RecordsInv => MpesaSound
  BY MpesaShows DEF RecordsInv
<1> QED BY <1>1, RecordsInvHolds, PTL

\* What Safaricom posts to a URL bound in production under core's slug is heard, no lock
\* left on the pool stops core's end, and requests keep their database until it
\* (main.go, config.go, database.go, health_checker.go).
THEOREM CoreStaysSound == Spec => []BootSound
<1>1. RecordsInv => BootSound
  BY BootShows DEF RecordsInv
<1> QED BY <1>1, RecordsInvHolds, PTL

\* A payment accepted for a loan is put down to that loan, or to none once it was
\* deleted: for any alphabet, loans, backfills, slips and changes of prefix (loanref.go,
\* daraja_callback_controller.go, pull.go).
THEOREM AcceptedIsCredited == Spec => []CreditFollowsAnswer
<1>1. RecordsInv => CreditFollowsAnswer
  BY DEF RecordsInv, ReferencesInv, AcceptedIsNamed
<1> QED BY <1>1, RecordsInvHolds, PTL

\* A confirmed row says what Airtel's own record says, and a converted one is of a
\* payment that succeeded, whatever order callbacks, enquiries and sweeps come in
\* (AirtelRepository, updateFromCallback).
THEOREM ConfirmedRowsStand == Spec => []ConfirmedIsFinal
<1>1. RecordsInv => ConfirmedIsFinal
  BY SweepShows DEF RecordsInv
<1> QED BY <1>1, RecordsInvHolds, PTL

\* The summary's cursor passes no payment its pages did not confirm but what the ceiling
\* cut off (summary.go), and the watcher's no deposit it did not queue (watcher.go):
\* for any page size, number of pages, failed pages and stops.
THEOREM CursorsStaySound == Spec => []CursorsSkipNothing
<1>1. RecordsInv => CursorsSkipNothing
  BY SweepShows, WatchShows DEF RecordsInv, CursorsSkipNothing
<1> QED BY <1>1, RecordsInvHolds, PTL

\* The mirror of a depositor's exit deadline follows the vault's, and nobody is warned
\* twice of one deadline unless a write was lost (watcher.go).
THEOREM ExitIsTold == Spec => []ExitTold
<1>1. RecordsInv => ExitTold
  BY WatchShows DEF RecordsInv
<1> QED BY <1>1, RecordsInvHolds, PTL

\* No step takes back what an earlier one recorded: a status moves only as its table
\* lists, what a loan has received does not drop but for a pull that could not resolve
\* the loan, a receipt stays on its row, a deposit decided stays decided, and a
\* transaction or an account moves as its service lists unless the call that writes had
\* read the row before another changed it, and a reference made under the prefix in force
\* is not refused as a wrong account while its loan stands (loanref.go, user_repository.go, mpesa_repository.go,
\* airtel_repository.go, deposit_screening_repository.go, transaction_service.go,
\* account_service.go).
THEOREM NothingIsTakenBack == Spec => NothingTakenBack
<1>1. RecordsInv /\ [Next]_<<part, uvars, mpesaVars, airtelVars, watchVars, regVars, bookVars, bootVars, refVars>>
        => [\A u \in Person :
              \/ stale'
              \/ /\ users'[u].kyc \in {users[u].kyc} \cup validKYCTransitions[users[u].kyc]
                 /\ users'[u].status \in
                      {users[u].status} \cup validStatusTransitions[users[u].status]]_uvars
  BY RecordPartsMoveAlone, MovesListed DEF RecordsInv
<1>2. RecordsInv /\ [Next]_<<part, uvars, mpesaVars, airtelVars, watchVars, regVars, bookVars, bootVars, refVars>>
        => [ \/ SumAppliedStroopsByLoan' >= SumAppliedStroopsByLoan
             \/ unresolved' # unresolved ]_mpesaVars
  BY RecordPartsMoveAlone, ReceivedKept DEF RecordsInv
<1>3. RecordsInv /\ [Next]_<<part, uvars, mpesaVars, airtelVars, watchVars, regVars, bookVars, bootVars, refVars>>
        => [\A p \in Push : airtelRow[p].receipt => airtelRow'[p].receipt]_airtelVars
  BY RecordPartsMoveAlone, AirtelStepKeeps DEF RecordsInv, SweepInv
<1>4. RecordsInv /\ [Next]_<<part, uvars, mpesaVars, airtelVars, watchVars, regVars, bookVars, bootVars, refVars>>
        => [\A n \in 1..MaxEvents :
              screening[n].st \in {"screened", "failed"} => screening'[n] = screening[n]]_watchVars
  BY RecordPartsMoveAlone, ScreeningDecided DEF RecordsInv
<1>5. RecordsInv /\ [Next]_<<part, uvars, mpesaVars, airtelVars, watchVars, regVars, bookVars, bootVars, refVars>>
        => [MovesListedTx /\ MovesListedWallet]_bookVars
  BY RecordPartsMoveAlone, BooksMove DEF RecordsInv
<1>6. RecordsInv /\ [Next]_<<part, uvars, mpesaVars, airtelVars, watchVars, regVars, bookVars, bootVars, refVars>>
        => [payment'.answer = "C2B00012" /\ payment.answer = "unasked" =>
              \A l \in Loan :
                 loans[l].ref = payment.typed /\ loans[l].status # "deleted" => ~IsPrefix(prefix, loans[l].ref)
            ]_refVars
  BY RecordPartsMoveAlone, OwnReferencePasses DEF RecordsInv, ReferencesInv
<1> QED
  BY <1>1, <1>2, <1>3, <1>4, <1>5, <1>6, RecordsInvHolds, PTL
     DEF Spec, NothingTakenBack, MovesAreListed, ReceivedNeverDrops, ReceiptKept, DecidedOnce, RowsMoveAsListed,
         OwnReferenceTaken
=============================================================================
