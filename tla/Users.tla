-------------------------------- MODULE Users --------------------------------
(***************************************************************************)
(* Rows of the users table under concurrent calls of the PIN service        *)
(* (pkg/pin/service.go) and the user service (pkg/user/user_service.go).    *)
(*                                                                         *)
(* ClaimPINAttempt and ResetPINAttempts are single statements.  Every other *)
(* change reads a row, decides, and writes the whole row back               *)
(* (userRepository.Update), so it also writes what others wrote since.      *)
(*                                                                         *)
(* Abstracted: hashes are the PIN's version; names, texts and notices are   *)
(* left out, and so is the mobile number, which Update does not write.      *)
(***************************************************************************)
EXTENDS Naturals, FiniteSets

CONSTANTS
  Person,
  MaxPINAttempts,
  MaxCalls, \* bound: calls begun
  MaxOpen   \* bound: calls at once

ASSUME UsersAssumption ==
  /\ MaxPINAttempts \in Nat \ {0} /\ MaxCalls \in Nat /\ MaxOpen \in Nat
  /\ Person # {} /\ IsFiniteSet(Person)

VARIABLES
  users, \* the rows
  calls, \* calls in work: what was read, and what for
  begun, \* calls begun so far
  tries, \* attempts claimed since the counter was last cleared or a lock lapsed
  stale, \* a call wrote on the strength of a row that another had changed since
  raced  \* the number of admins changed between its count and the write

uvars == <<users, calls, begun, tries, stale, raced>>

KYC == {"pending", "verified", "rejected", "expired"}
Statuses == {"active", "suspended", "frozen", "blocked", "closed"}
Roles == {"user", "admin"}
Rows == [pin : 1..2, attempts : 0..MaxPINAttempts, locked : BOOLEAN, kyc : KYC,
         status : Statuses, role : Roles, live : BOOLEAN]
Ops == {"verify", "change", "reset", "profile", "kyc", "status", "role", "delete"}
Targets == KYC \cup Statuses \cup Roles \cup {"right", "wrong", "none"}

validKYCTransitions ==
  [pending |-> {"verified", "rejected"}, verified |-> {"expired"},
   expired |-> {"pending"}, rejected |-> {"pending"}]

validStatusTransitions ==
  [active |-> {"suspended", "blocked", "frozen", "closed"},
   suspended |-> {"active", "blocked", "frozen", "closed"},
   frozen |-> {"active", "blocked", "closed"},
   blocked |-> {"active", "closed"}, closed |-> {}]

Admins == {u \in Person : users[u].role = "admin" /\ users[u].live}

-----------------------------------------------------------------------------
(* A call reads the row it is about *)

\* What each operation may be asked for.
Asked(op) ==
  CASE op = "verify" -> {"right", "wrong"}
    [] op = "kyc" -> KYC
    [] op = "status" -> Statuses
    [] op = "role" -> Roles
    [] OTHER -> {"none"}

\* Admin operations are refused to others, and to admins about themselves
\* where role and deletion are concerned.
MayAsk(op, u) ==
  op \in {"kyc", "status", "role", "delete"} =>
    \E a \in Admins : op \in {"role", "delete"} => a # u

\* The decision taken on the row read: a known lock refuses a PIN, and a
\* transition must be listed.
Allowed(op, to, row) ==
  CASE op = "verify" -> ~row.locked
    [] op = "kyc" -> to \in {row.kyc} \cup validKYCTransitions[row.kyc]
    [] op = "status" -> to \in {row.status} \cup validStatusTransitions[row.status]
    [] OTHER -> TRUE

Begin(op, u, to) ==
  /\ begun < MaxCalls /\ begun' = begun + 1
  /\ Cardinality(calls) < MaxOpen
  /\ to \in Asked(op) /\ users[u].live /\ MayAsk(op, u) /\ Allowed(op, to, users[u])
  /\ calls' = calls \cup {[op |-> op, user |-> u, to |-> to, row |-> users[u],
                           at |-> IF /\ op \in {"role", "delete"}
                                     /\ users[u].role = "admin" /\ to # "admin"
                                    THEN "count" ELSE "write",
                           admins |-> 0, id |-> begun]}
  /\ UNCHANGED <<users, tries, stale, raced>>

Finish(c) == calls' = calls \ {c}

-----------------------------------------------------------------------------
(* PIN attempts *)

Min2(a, b) == IF a < b THEN a ELSE b

\* Fault: the attempt counts on from the row the call had read.
ClaimPINAttemptRead(c) ==
  LET u == c.user IN
  /\ c.op = "verify" /\ c.at = "write" /\ users[u].live /\ ~users[u].locked
  /\ users' = [users EXCEPT ![u].attempts = Min2(c.row.attempts + 1, MaxPINAttempts),
                            ![u].locked = c.row.attempts + 1 >= MaxPINAttempts]
  /\ tries' = [tries EXCEPT ![u] = @ + 1]
  /\ calls' = (calls \ {c}) \cup {[c EXCEPT !.at = "compare"]}
  /\ UNCHANGED <<begun, stale, raced>>

\* One statement: counted unless locked, and locked at the last attempt.  A
\* lock that lapsed leaves the counter, so that the next attempt locks again;
\* the counter is cut off where it locks.
ClaimPINAttempt(c) ==
  LET u == c.user IN
  /\ c.op = "verify" /\ c.at = "write" /\ users[u].live /\ ~users[u].locked
  /\ users' = [users EXCEPT ![u].attempts = Min2(@ + 1, MaxPINAttempts),
                            ![u].locked = users[u].attempts + 1 >= MaxPINAttempts]
  /\ tries' = [tries EXCEPT ![u] = @ + 1]
  /\ calls' = (calls \ {c}) \cup {[c EXCEPT !.at = "compare"]}
  /\ UNCHANGED <<begun, stale, raced>>

\* The account was locked since it was read: the claim is refused.
Refused(c) ==
  /\ c.op = "verify" /\ c.at = "write" /\ (users[c.user].locked \/ ~users[c.user].live)
  /\ Finish(c) /\ UNCHANGED <<users, begun, tries, stale, raced>>

\* The PIN, or the answers, compared with what was read before the claim.  A
\* match clears counter and lock.
Compare(c) ==
  LET u == c.user IN
  /\ c.op = "verify" /\ c.at = "compare" /\ Finish(c)
  /\ IF c.to = "right" /\ users[u].live
       THEN /\ users' = [users EXCEPT ![u].attempts = 0, ![u].locked = FALSE]
            /\ tries' = [tries EXCEPT ![u] = 0]
       ELSE UNCHANGED <<users, tries>>
  /\ UNCHANGED <<begun, stale, raced>>

\* pin_locked_until passes.
Lapse(u) ==
  /\ users[u].locked
  /\ users' = [users EXCEPT ![u].locked = FALSE]
  /\ tries' = [tries EXCEPT ![u] = 0]
  /\ UNCHANGED <<calls, begun, stale, raced>>

-----------------------------------------------------------------------------
(* Writes of the whole row *)

\* Taking an admin away is refused when one is left.
CountAdmins(c) ==
  /\ c.at = "count"
  /\ calls' = (calls \ {c}) \cup
       IF Cardinality(Admins) > 1
         THEN {[c EXCEPT !.at = "write", !.admins = Cardinality(Admins)]} ELSE {}
  /\ UNCHANGED <<users, begun, tries, stale, raced>>

\* Fault: a reset forgets the lock.
ChangedLocked(c) ==
  CASE c.op = "change" -> [c.row EXCEPT !.pin = 3 - @]
    [] c.op = "reset" -> [c.row EXCEPT !.pin = 3 - @, !.attempts = 0]
    [] c.op = "kyc" -> [c.row EXCEPT !.kyc = c.to]
    [] c.op = "status" -> [c.row EXCEPT !.status = c.to]
    [] c.op = "role" -> [c.row EXCEPT !.role = c.to]
    [] OTHER -> c.row

\* What an operation changes in the row it read.
Changed(c) ==
  CASE c.op = "change" -> [c.row EXCEPT !.pin = 3 - @]
    [] c.op = "reset" -> [c.row EXCEPT !.pin = 3 - @, !.attempts = 0, !.locked = FALSE]
    [] c.op = "kyc" -> [c.row EXCEPT !.kyc = c.to]
    [] c.op = "status" -> [c.row EXCEPT !.status = c.to]
    [] c.op = "role" -> [c.row EXCEPT !.role = c.to]
    [] OTHER -> c.row

Raced(c) == raced' = (raced \/ (c.admins # 0 /\ c.admins # Cardinality(Admins)))

\* Update: every column, to a row not deleted since.
Update(c) ==
  LET u == c.user IN
  /\ c.at = "write" /\ c.op \notin {"verify", "delete"} /\ Finish(c)
  /\ IF users[u].live
       THEN /\ users' = [users EXCEPT ![u] = Changed(c)]
            /\ stale' = (stale \/ users[u] # c.row)
            /\ tries' = IF c.op = "reset" THEN [tries EXCEPT ![u] = 0] ELSE tries
            /\ Raced(c)
       ELSE UNCHANGED <<users, stale, tries, raced>>
  /\ UNCHANGED begun

Delete(c) ==
  /\ c.at = "write" /\ c.op = "delete" /\ Finish(c)
  /\ users' = [users EXCEPT ![c.user].live = FALSE] /\ Raced(c)
  /\ stale' = (stale \/ users[c.user] # c.row)
  /\ UNCHANGED <<begun, tries>>

\* An admin brings a deleted row back.
Restore(u) ==
  /\ begun < MaxCalls /\ begun' = begun + 1
  /\ ~users[u].live /\ Admins # {}
  /\ users' = [users EXCEPT ![u].live = TRUE]
  /\ UNCHANGED <<calls, tries, stale, raced>>

-----------------------------------------------------------------------------

uInit ==
  /\ users \in [Person -> [pin : {1}, attempts : {0}, locked : {FALSE}, kyc : {"pending"},
                           status : {"active"}, role : {"admin"}, live : {TRUE}]]
  /\ calls = {} /\ begun = 0 /\ tries = [u \in Person |-> 0] /\ stale = FALSE /\ raced = FALSE

uNext ==
  \/ \E op \in Ops, u \in Person, to \in Targets : Begin(op, u, to)
  \/ \E c \in calls : ClaimPINAttempt(c) \/ Refused(c) \/ Compare(c) \/ CountAdmins(c)
                        \/ Update(c) \/ Delete(c)
  \/ \E u \in Person : Lapse(u) \/ Restore(u)

uSpec == uInit /\ [][uNext]_uvars

-----------------------------------------------------------------------------
(* Properties *)

\* Rows and calls keep their types, and counter and lock are written together
\* by ClaimPINAttempt and Update: a locked row is at its limit.
UsersTypeOK ==
  /\ users \in [Person -> Rows]
  /\ \A u \in Person : users[u].locked => users[u].attempts = MaxPINAttempts
  /\ begun \in 0..MaxCalls /\ tries \in [Person -> Nat]
  /\ stale \in BOOLEAN /\ raced \in BOOLEAN /\ Cardinality(calls) <= MaxOpen
  /\ \A c \in calls : /\ c.op \in Ops /\ c.user \in Person /\ c.row \in Rows
                      /\ c.at \in {"count", "compare", "write"}

\* ClaimPINAttempt (user_repository.go:63-66): however calls overlap, no more
\* attempts are claimed than the limit before a lock, unless a whole-row write
\* was decided on an older row.
TriesBounded == \A u \in Person : tries[u] > MaxPINAttempts => stale

\* user_service.go:18-32: KYC and status move along the listed transitions, and
\* a closed user stays closed, unless a whole-row write was decided on an older row.
MovesAreListed ==
  [][\A u \in Person :
       \/ stale'
       \/ /\ users'[u].kyc \in {users[u].kyc} \cup validKYCTransitions[users[u].kyc]
          /\ users'[u].status \in
               {users[u].status} \cup validStatusTransitions[users[u].status]]_uvars

\* user_service.go:442,613: the last admin is neither deleted nor demoted,
\* unless two such calls overlapped or one was decided on an older row: of two admins
\* taken away at once each is counted as the one that remains of the other, although
\* user/doc.go:34 says that "the last remaining admin cannot be deleted".
AdminRemains == Admins = {} => raced \/ stale

\* Two counts that concurrent calls must not outrun: of PIN attempts and of admins.
UsersSound == TriesBounded /\ AdminRemains
=============================================================================
