---------------------------- MODULE Registrations ----------------------------
(***************************************************************************)
(* Who may register and under which key: the pilot list (pkg/pilot), the    *)
(* USSD registration with its one database transaction                      *)
(* (UserServiceAdapter.RegisterUser), the move of an account to a new SIM,  *)
(* and account_index_seq, the source of every borrower's Stellar key.       *)
(*                                                                         *)
(* Sessions live in Redis and survive a restart of the server and a         *)
(* restored database; the ledger's accounts survive everything.  The key of *)
(* an index is the index.  One server runs at a time, so a boot meets no    *)
(* other allocation.                                                        *)
(*                                                                         *)
(* Abstracted: names, languages, networks and biographies; a national ID's  *)
(* spelling; PINs and security answers, which Users has; the retries of the *)
(* account's creation, which Accounts has.                                  *)
(***************************************************************************)
EXTENDS Naturals, FiniteSets

CONSTANTS
  Phone, NationalID, NoID,
  Bases,           \* bound: bases an operator configures
  MaxUsers,        \* bound: user rows
  MaxOpenRegistrations, \* bound: registrations at once
  MaxIndex,        \* bound: account_index_seq
  MaxEdits,        \* bound: edits of the list and of user rows, and restores
  PilotGate        \* ENABLE_PILOT_ACCESS_GATE

ASSUME RegistrationsAssumption ==
  /\ Bases \subseteq 0..MaxIndex /\ MaxIndex \in Nat \ {0}
  /\ MaxUsers \in Nat /\ MaxOpenRegistrations \in Nat /\ MaxEdits \in Nat
  /\ PilotGate \in BOOLEAN /\ NoID \notin NationalID

VARIABLES
  pilotUsers, \* the pilot list: of each phone the national ID and whether it is active
  db,         \* users and accounts that are committed, and account_index_seq
  serving,    \* whether the server runs
  registering,\* registration transactions in work
  creating,   \* users whose account's creation was dispatched
  dialogue,   \* of each phone: the step of its session and what it holds
  onLedger,   \* of each derived key that exists on the ledger: whose it is
  count,      \* users and edits so far
  approved,   \* pairs of number and ID that were ever on the list
  rearmed     \* every boot was given a base above the ledger's highest index

regVars == <<pilotUsers, db, serving, registering, creating, dialogue, onLedger, count,
             approved, rearmed>>

Largest(S) == CHOOSE x \in S : \A y \in S : y <= x

\* Session steps: no session, the ID's entry, the offer to recover, the
\* security answers, the PIN of a new account, and the main menu.
NoSession == [at |-> "none", nid |-> NoID, misses |-> 0, user |-> 0]

RegistrationsInit ==
  /\ pilotUsers \in [Phone -> [nid : NationalID, active : {TRUE}]]
  /\ db = [users |-> <<>>, accounts |-> <<>>, sequence |-> [last |-> 1, called |-> FALSE]]
  /\ serving = TRUE
  /\ registering = {} /\ creating = {} /\ onLedger = <<>>
  /\ dialogue = [p \in Phone |-> NoSession]
  /\ count = [users |-> 0, edits |-> 0]
  /\ approved = {<<p, pilotUsers[p].nid>> : p \in Phone} /\ rearmed = TRUE

Says(p, session) == dialogue' = [dialogue EXCEPT ![p] = session]
Known(S) == {u \in S : db.users[u].live}

\* PhoneActive, Matches and UserActive.
PhoneActive(p) == PilotGate => pilotUsers[p].active
Matches(p, nid) == PilotGate => pilotUsers[p] = [nid |-> nid, active |-> TRUE]
UserActive(u) == Matches(db.users[u].phone, db.users[u].nid)

\* GetByMobileNumber and GetByNationalID see only rows that are not deleted.
ByMobileNumber(p) == {u \in Known(DOMAIN db.users) : db.users[u].phone = p}
ByNationalID(nid) == {u \in Known(DOMAIN db.users) : db.users[u].nid = nid}

-----------------------------------------------------------------------------
(* The dialogue *)

\* A dial starts over: a registered number goes to the main menu, another one
\* to registration, and both are stopped by the list.
Dial(p) ==
  /\ serving
  /\ IF ByMobileNumber(p) # {}
       THEN \E u \in ByMobileNumber(p) :
              IF UserActive(u) THEN Says(p, [NoSession EXCEPT !.at = "main", !.user = u])
                               ELSE Says(p, NoSession)
       ELSE IF PhoneActive(p) THEN Says(p, [NoSession EXCEPT !.at = "national_id"])
                              ELSE Says(p, NoSession)
  /\ UNCHANGED <<pilotUsers, db, serving, registering, creating, onLedger, count, approved, rearmed>>

\* Fault: the ID is looked up before it is held against the list.
handleRegistrationNationalIDUnmatched(p, nid) ==
  /\ serving /\ dialogue[p].at = "national_id"
  /\ Says(p, [dialogue[p] EXCEPT !.at = IF ByNationalID(nid) # {} THEN "recover_offer" ELSE "pin",
                                 !.nid = nid])
  /\ UNCHANGED <<pilotUsers, db, serving, registering, creating, onLedger, count, approved, rearmed>>

\* The ID must be the one the number was approved for; the second miss ends
\* the session.  An ID that is registered leads to the recovery.
handleRegistrationNationalID(p, nid) ==
  /\ serving /\ dialogue[p].at = "national_id"
  /\ IF ~Matches(p, nid)
       THEN IF dialogue[p].misses + 1 >= 2 THEN Says(p, NoSession)
            ELSE Says(p, [dialogue[p] EXCEPT !.misses = @ + 1])
       ELSE Says(p, [dialogue[p] EXCEPT !.at = IF ByNationalID(nid) # {} THEN "recover_offer" ELSE "pin",
                                        !.nid = nid, !.misses = 0])
  /\ UNCHANGED <<pilotUsers, db, serving, registering, creating, onLedger, count, approved, rearmed>>

\* The account is looked up again; one that is gone leads back to the ID, and
\* the borrower may also go back to correct it.
handleRecoverOffer(p) ==
  /\ serving /\ dialogue[p].at = "recover_offer"
  /\ \/ Says(p, [dialogue[p] EXCEPT !.at = "national_id"])
     \/ \E u \in ByNationalID(dialogue[p].nid) :
          \/ Says(p, [dialogue[p] EXCEPT !.at = "answers", !.user = u])
          \/ Says(p, NoSession)   \* no security questions on file
  /\ UNCHANGED <<pilotUsers, db, serving, registering, creating, onLedger, count, approved, rearmed>>

\* The number is another row's, deleted ones included, or is being inserted.
Taken(p, u) == \E v \in DOMAIN db.users \ {u} : db.users[v].phone = p

\* Right answers move the account to the number, if the unique index lets them.
handleRecoverSimQ2(p) ==
  LET u == dialogue[p].user IN
  /\ serving /\ dialogue[p].at = "answers"
  /\ \/ Says(p, NoSession) /\ UNCHANGED db
     \/ /\ u \in DOMAIN db.users /\ db.users[u].live /\ ~Taken(p, u)
        /\ ~\E r \in registering : r.phone = p /\ r.at # "begun"
        /\ db' = [db EXCEPT !.users[u].phone = p]
        /\ Says(p, [NoSession EXCEPT !.at = "main", !.user = u])
  /\ UNCHANGED <<pilotUsers, serving, registering, creating, onLedger, count, approved, rearmed>>

-----------------------------------------------------------------------------
(* The registration's transaction *)

\* completeRegistration asks the list once more; a repeated request may begin
\* a second registration while the first is in work.
completeRegistration(p) ==
  /\ serving /\ dialogue[p].at = "pin"
  /\ IF Matches(p, dialogue[p].nid)
       THEN /\ \E id \in 1..MaxOpenRegistrations \ {r.id : r \in registering} :
                 registering' = registering \cup
                   {[phone |-> p, nid |-> dialogue[p].nid, at |-> "begun", index |-> 0, id |-> id]}
            /\ UNCHANGED dialogue
       ELSE Says(p, NoSession) /\ UNCHANGED registering
  /\ UNCHANGED <<pilotUsers, db, serving, creating, onLedger, count, approved, rearmed>>

Advance(r, s) == registering' = (registering \ {r}) \cup {s}

\* The unique indexes: an insert waits for another transaction that holds the
\* number or the ID, and fails when a committed row does.
CreateUser(r) ==
  /\ r.at = "begun"
  /\ \A q \in registering \ {r} : q.at # "begun" => q.phone # r.phone /\ q.nid # r.nid
  /\ \A u \in DOMAIN db.users : db.users[u].phone # r.phone /\ db.users[u].nid # r.nid
  /\ Advance(r, [r EXCEPT !.at = "user"])
  /\ UNCHANGED <<pilotUsers, db, serving, creating, dialogue, onLedger, count, approved, rearmed>>

\* nextval, which no rollback takes back.
NextIndex(s) == IF s.called THEN s.last + 1 ELSE s.last

GetNextAccountIndex(r) ==
  /\ r.at = "user" /\ NextIndex(db.sequence) <= MaxIndex
  /\ db' = [db EXCEPT !.sequence = [last |-> NextIndex(@), called |-> TRUE]]
  /\ Advance(r, [r EXCEPT !.at = "index", !.index = NextIndex(db.sequence)])
  /\ UNCHANGED <<pilotUsers, serving, creating, dialogue, onLedger, count, approved, rearmed>>

\* A key on another row, deleted or not, makes the account's insert fail.
CreateAccount(r) ==
  /\ r.at = "index" /\ \A u \in DOMAIN db.accounts : db.accounts[u].index # r.index
  /\ Advance(r, [r EXCEPT !.at = "account"])
  /\ UNCHANGED <<pilotUsers, db, serving, creating, dialogue, onLedger, count, approved, rearmed>>

\* Both rows appear at once.  The account's creation is dispatched and the
\* session signed in, unless the commit's answer is lost.
Commit(r) ==
  LET u == count.users + 1 IN
  /\ r.at = "account" /\ u <= MaxUsers
  /\ count' = [count EXCEPT !.users = u]
  /\ db' = [db EXCEPT
              !.users = [v \in DOMAIN @ \cup {u} |-> IF v = u THEN [phone |-> r.phone, nid |-> r.nid, live |-> TRUE]
                                                     ELSE @[v]],
              !.accounts = [v \in DOMAIN @ \cup {u} |-> IF v = u THEN [index |-> r.index, chain |-> "pending"]
                                                        ELSE @[v]]]
  /\ registering' = registering \ {r}
  /\ \/ creating' = creating \cup {u} /\ Says(r.phone, [NoSession EXCEPT !.at = "main", !.user = u])
     \/ UNCHANGED <<creating, dialogue>>
  /\ UNCHANGED <<pilotUsers, serving, onLedger, approved, rearmed>>

\* Any step may fail; everything but the index is rolled back.
Rollback(r) ==
  /\ registering' = registering \ {r}
  /\ UNCHANGED <<pilotUsers, db, serving, creating, dialogue, onLedger, count, approved, rearmed>>

\* createSponsoredAccountAsync: a key that exists is another's.
CreateOnLedger(u) ==
  /\ u \in creating /\ creating' = creating \ {u}
  /\ LET i == db.accounts[u].index
         exists == i \in DOMAIN onLedger
     IN  /\ db' = [db EXCEPT !.accounts[u].chain = IF exists THEN "conflict" ELSE "confirmed"]
         /\ onLedger' = IF exists THEN onLedger
                        ELSE [j \in DOMAIN onLedger \cup {i} |-> IF j = i THEN u ELSE onLedger[j]]
  /\ UNCHANGED <<pilotUsers, serving, registering, dialogue, count, approved, rearmed>>

-----------------------------------------------------------------------------
(* Operators: the list, user rows, restores and boots *)

Edit == count.edits < MaxEdits /\ count' = [count EXCEPT !.edits = @ + 1]

\* Add also moves a number to another ID and clears a revoke.
AddPilot(p, nid) ==
  /\ Edit /\ pilotUsers' = [pilotUsers EXCEPT ![p] = [nid |-> nid, active |-> TRUE]]
  /\ approved' = approved \cup {<<p, nid>>}
  /\ UNCHANGED <<db, serving, registering, creating, dialogue, onLedger, rearmed>>

\* Revoke and Restore act on every row of the person.
SetActive(nid, active) ==
  /\ Edit
  /\ pilotUsers' = [p \in Phone |-> IF pilotUsers[p].nid = nid THEN [pilotUsers[p] EXCEPT !.active = active]
                                    ELSE pilotUsers[p]]
  /\ pilotUsers' # pilotUsers
  /\ UNCHANGED <<db, serving, registering, creating, dialogue, onLedger, approved, rearmed>>

RevokePilot(nid) == SetActive(nid, FALSE)
RestorePilot(nid) == SetActive(nid, TRUE)

\* Deleting a user keeps its row, number, ID and account.
DeleteUser(u) ==
  /\ Edit /\ u \in Known(DOMAIN db.users) /\ db' = [db EXCEPT !.users[u].live = FALSE]
  /\ UNCHANGED <<pilotUsers, serving, registering, creating, dialogue, onLedger, approved, rearmed>>

RestoreUser(u) ==
  /\ Edit /\ u \in DOMAIN db.users \ Known(DOMAIN db.users)
  /\ db' = [db EXCEPT !.users[u].live = TRUE]
  /\ UNCHANGED <<pilotUsers, serving, registering, creating, dialogue, onLedger, approved, rearmed>>

\* A stop ends every transaction and every creation in work.
StopServer ==
  /\ serving /\ serving' = FALSE /\ registering' = {} /\ creating' = {}
  /\ UNCHANGED <<pilotUsers, db, dialogue, onLedger, count, approved, rearmed>>

\* An older copy is restored, or an empty database built: the last rows are
\* gone and the sequence is back at a value it had.
RestoreDatabase(kept, last) ==
  LET left == DOMAIN db.users \cap 1..kept IN
  /\ ~serving /\ Edit
  /\ last <= db.sequence.last /\ \A u \in left : db.accounts[u].index <= last
  /\ \E called \in BOOLEAN :
       /\ called => db.sequence.called
       /\ ~called => left = {} /\ last = 1
       /\ db' = [users |-> [u \in left |-> db.users[u]], accounts |-> [u \in left |-> db.accounts[u]],
                 sequence |-> [last |-> last, called |-> called]]
  /\ UNCHANGED <<pilotUsers, serving, registering, creating, dialogue, onLedger, approved, rearmed>>

\* Soft-deleted rows count; -1 without rows.
MaxAccountIndex ==
  IF DOMAIN db.accounts = {} THEN 0
  ELSE Largest({db.accounts[u].index : u \in DOMAIN db.accounts}) + 1

\* The sequence moves forward to the floor and never back.
EnsureAccountIndexFloor(floor) ==
  IF floor = 0 THEN db.sequence
  ELSE IF ~db.sequence.called THEN [last |-> Largest({db.sequence.last, floor}), called |-> FALSE]
  ELSE [last |-> Largest({db.sequence.last, floor - 1}), called |-> TRUE]

Boot(base) ==
  /\ ~serving /\ serving' = TRUE
  /\ db' = [db EXCEPT !.sequence = EnsureAccountIndexFloor(Largest({base, MaxAccountIndex}))]
  /\ rearmed' = (rearmed /\ \A i \in DOMAIN onLedger : i < base)
  /\ UNCHANGED <<pilotUsers, registering, creating, dialogue, onLedger, count, approved>>

RegistrationsNext ==
  \/ \E p \in Phone :
       \/ Dial(p) \/ handleRecoverOffer(p) \/ handleRecoverSimQ2(p) \/ completeRegistration(p)
       \/ \E nid \in NationalID : handleRegistrationNationalID(p, nid) \/ AddPilot(p, nid)
  \/ \E r \in registering :
       CreateUser(r) \/ GetNextAccountIndex(r) \/ CreateAccount(r) \/ Commit(r) \/ Rollback(r)
  \/ \E u \in DOMAIN db.users : CreateOnLedger(u) \/ DeleteUser(u) \/ RestoreUser(u)
  \/ \E nid \in NationalID : RevokePilot(nid) \/ RestorePilot(nid)
  \/ StopServer \/ \E kept \in 0..MaxUsers, last \in 1..MaxIndex : RestoreDatabase(kept, last)
  \/ \E base \in Bases : Boot(base)

-----------------------------------------------------------------------------
(* Properties *)

\* Rows, sessions and the sequence hold only the values the code writes.
RegistrationsTypeOK ==
  /\ \A p \in Phone : pilotUsers[p].nid \in NationalID /\ dialogue[p].misses \in 0..1
  /\ DOMAIN db.users = DOMAIN db.accounts /\ creating \subseteq DOMAIN db.users
  /\ db.sequence.last \in 1..MaxIndex
  /\ \A r \in registering : r.at \in {"begun", "user", "index", "account"} /\ r.index \in 0..MaxIndex
  /\ DOMAIN onLedger \subseteq 1..MaxIndex

\* No borrower is given a key that exists on the ledger as another's, whatever is
\* stopped, restored or rolled back, while each boot's base was above the
\* ledger's indexes (main.go:157-163).
KeysAreOwn ==
  rearmed => \A u \in DOMAIN db.accounts :
    db.accounts[u].index \in DOMAIN onLedger => onLedger[db.accounts[u].index] = u

\* With the gate on, every user's number was approved for that user's ID, by
\* registration as by recovery onto a new SIM (pilot.go:4-7).
NumbersWereApproved ==
  PilotGate => \A u \in DOMAIN db.users : <<db.users[u].phone, db.users[u].nid>> \in approved

RegistrationsSound == KeysAreOwn /\ NumbersWereApproved
=============================================================================
