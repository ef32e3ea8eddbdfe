----------------------------- MODULE Bookkeeping -----------------------------
(***************************************************************************)
(* The rows of the transaction service and of the account service, which    *)
(* read a row, decide on what they read, and write some of its columns in   *)
(* a statement of its own.  Calls overlap.                                  *)
(*                                                                         *)
(* PostgreSQL keeps stellar_tx_hash and public_key unique, deleted rows     *)
(* included.  Abstracted: amounts, assets, references and texts, and the    *)
(* columns other modules model (the chain status: Accounts; the derivation  *)
(* index: Registrations).  Creating with a caller's own database            *)
(* transaction (CreateWithTx) checks and inserts as Create does.            *)
(***************************************************************************)
EXTENDS Integers, FiniteSets

CONSTANTS
  TxID, TxHash,        \* transaction rows and the hashes they may carry
  Wallet, PublicKey,   \* account rows and their keys
  MaxWork              \* bound: calls between their read and their write

ASSUME BookAssumption == MaxWork \in Nat

VARIABLES
  txRows,  \* the transactions
  wallets, \* the accounts
  work     \* calls that have read and not yet written

bookVars == <<txRows, wallets, work>>

TxStatus == {"pending", "submitted", "success", "failed", "cancelled"}
WalletStatus == {"active", "suspended", "frozen", "blocked", "closed"}

txTransitions ==
  [pending |-> {"submitted", "cancelled"}, submitted |-> {"success", "failed"},
   success |-> {}, failed |-> {"pending"}, cancelled |-> {}]

walletTransitions ==
  [active |-> {"suspended", "blocked", "frozen", "closed"},
   suspended |-> {"active", "blocked", "frozen", "closed"},
   frozen |-> {"active", "blocked", "closed"},
   blocked |-> {"active", "closed"}, closed |-> {}]

TxRow == [status : TxStatus \cup {"none"}, hash : TxHash \cup {"nil"}]
WalletRow == [status : WalletStatus \cup {"none"}, key : PublicKey \cup {"nil"}, live : BOOLEAN]

\* What a call read, and what it is about to write: "keep" leaves the status.
Work ==
  [op : {"create", "update"}, id : TxID, read : TxStatus \cup {"none"},
   to : TxStatus \cup {"keep"}, value : TxHash \cup {"nil"}]
  \cup [op : {"open", "status"}, id : Wallet, read : WalletStatus \cup {"none"},
        to : WalletStatus, value : PublicKey \cup {"nil"}]

BookInit ==
  /\ txRows = [t \in TxID |-> [status |-> "none", hash |-> "nil"]]
  /\ wallets = [a \in Wallet |-> [status |-> "none", key |-> "nil", live |-> FALSE]]
  /\ work = {}

Reads(w) == Cardinality(work) < MaxWork /\ work' = work \cup {w}
Ends(w)  == w \in work /\ work' = work \ {w}

-----------------------------------------------------------------------------
(* Transactions *)

HashFree(h, t) == h = "nil" \/ \A u \in TxID \ {t} : txRows[u].hash # h

\* Create looks for the hash before it inserts.
CheckCreate(t, h) ==
  /\ txRows[t].status = "none" /\ \A w \in work : w.op = "create" => w.id # t
  /\ HashFree(h, t)
  /\ Reads([op |-> "create", id |-> t, read |-> "none", to |-> "pending", value |-> h])
  /\ UNCHANGED <<txRows, wallets>>

\* The columns of a write, all or, when PostgreSQL refuses the hash, none.
UpdateColumns(w) ==
  IF HashFree(w.value, w.id)
  THEN txRows' = [txRows EXCEPT ![w.id] =
         [status |-> IF w.to = "keep" THEN @.status ELSE w.to,
          hash |-> IF w.value = "nil" THEN @.hash ELSE w.value]]
  ELSE UNCHANGED txRows

\* The insert, or an error of the database.
CreateRow(w) ==
  /\ w.op = "create" /\ Ends(w)
  /\ UpdateColumns(w) \/ UNCHANGED txRows
  /\ UNCHANGED wallets

\* BatchCreate looks for no hash and inserts all its rows or none.
BatchCreate(hashes) ==
  /\ \A t \in DOMAIN hashes : txRows[t].status = "none" /\ HashFree(hashes[t], t)
  /\ \A t \in DOMAIN hashes : \A w \in work : w.op = "create" => w.id # t
  /\ \A t, u \in DOMAIN hashes : t # u /\ hashes[t] # "nil" => hashes[t] # hashes[u]
  /\ txRows' = [t \in TxID |-> IF t \in DOMAIN hashes
                               THEN [status |-> "pending", hash |-> hashes[t]] ELSE txRows[t]]
  /\ UNCHANGED <<wallets, work>>

\* Update refuses a row that is over and a transition that is not listed.
BeginUpdate(t, to, h) ==
  /\ txRows[t].status \notin {"none", "success", "cancelled"}
  /\ to \in {"keep", txRows[t].status} \cup txTransitions[txRows[t].status]
  /\ to # "keep" \/ h # "nil"
  /\ Reads([op |-> "update", id |-> t, read |-> txRows[t].status, to |-> to, value |-> h])
  /\ UNCHANGED <<txRows, wallets>>

\* UpdateFields writes what the request set, or fails.
UpdateTransaction(w) ==
  /\ w.op = "update" /\ Ends(w)
  /\ UpdateColumns(w) \/ UNCHANGED txRows
  /\ UNCHANGED wallets

-----------------------------------------------------------------------------
(* Accounts *)

\* Create looks for the key among the rows that are not deleted.
CheckOpen(a, k) ==
  /\ wallets[a].status = "none" /\ \A w \in work : w.op = "open" => w.id # a
  /\ \A b \in Wallet : wallets[b].live => wallets[b].key # k
  /\ Reads([op |-> "open", id |-> a, read |-> "none", to |-> "active", value |-> k])
  /\ UNCHANGED <<txRows, wallets>>

\* The insert, which PostgreSQL refuses for the key of a deleted row too.
OpenAccount(w) ==
  /\ w.op = "open" /\ Ends(w)
  /\ \/ /\ \A b \in Wallet : wallets[b].key # w.value
        /\ wallets' = [wallets EXCEPT ![w.id] = [status |-> "active", key |-> w.value, live |-> TRUE]]
     \/ UNCHANGED wallets
  /\ UNCHANGED txRows

\* Mutant: a transition is refused only from an account that is closed.
BeginStatusUnlisted(a, to) ==
  /\ wallets[a].live /\ wallets[a].status # "closed"
  /\ Reads([op |-> "status", id |-> a, read |-> wallets[a].status, to |-> to, value |-> "nil"])
  /\ UNCHANGED <<txRows, wallets>>

\* UpdateStatus refuses a deleted row and a transition that is not listed.
BeginStatus(a, to) ==
  /\ wallets[a].live
  /\ to \in {wallets[a].status} \cup walletTransitions[wallets[a].status]
  /\ Reads([op |-> "status", id |-> a, read |-> wallets[a].status, to |-> to, value |-> "nil"])
  /\ UNCHANGED <<txRows, wallets>>

\* The write passes over a row deleted since.
UpdateStatus(w) ==
  /\ w.op = "status" /\ Ends(w)
  /\ \/ wallets[w.id].live /\ wallets' = [wallets EXCEPT ![w.id].status = w.to]
     \/ UNCHANGED wallets
  /\ UNCHANGED txRows

\* Delete keeps the row, and Restore brings it back as it was.
DeleteAccount(a) ==
  /\ wallets[a].live /\ wallets' = [wallets EXCEPT ![a].live = FALSE]
  /\ UNCHANGED <<txRows, work>>

RestoreAccount(a) ==
  /\ wallets[a].status # "none" /\ wallets' = [wallets EXCEPT ![a].live = TRUE]
  /\ UNCHANGED <<txRows, work>>

TransactionsNext ==
  \/ \E t \in TxID : \E h \in TxHash \cup {"nil"} :
        \/ CheckCreate(t, h)
        \/ \E to \in TxStatus \cup {"keep"} : BeginUpdate(t, to, h)
  \/ \E some \in SUBSET TxID : \E hashes \in [some -> TxHash \cup {"nil"}] :
        some # {} /\ BatchCreate(hashes)
  \/ \E w \in work : CreateRow(w) \/ UpdateTransaction(w)

WalletsNext ==
  \/ \E a \in Wallet :
        \/ \E k \in PublicKey : CheckOpen(a, k)
        \/ \E to \in WalletStatus : BeginStatus(a, to)
        \/ DeleteAccount(a) \/ RestoreAccount(a)
  \/ \E w \in work : OpenAccount(w) \/ UpdateStatus(w)

\* The two services do not read each other's rows.
BookNext == TransactionsNext \/ WalletsNext

-----------------------------------------------------------------------------
(* Listings *)

\* The page and its size a listing uses for what was asked.
PageAsked(page) == IF page <= 0 THEN 1 ELSE page
SizeAsked(size) == IF size <= 0 THEN 10 ELSE IF size > 100 THEN 100 ELSE size

\* The rows, counted from the newest, on a page.
PageRows(page, size) ==
  LET offset == (PageAsked(page) - 1) * SizeAsked(size) IN offset + 1..offset + SizeAsked(size)

-----------------------------------------------------------------------------
(* Properties *)

BookTypeOK ==
  /\ txRows \in [TxID -> TxRow] /\ wallets \in [Wallet -> WalletRow] /\ work \subseteq Work

\* A call that ends with this step decided on a status the row no longer had.
Overtaken(op, id, status) == \E w \in work \ work' : w.op = op /\ w.id = id /\ w.read # status

MovesListedTx ==
  \A t \in TxID :
     txRows'[t].status \notin {"none", txRows[t].status} /\ txRows[t].status # "none" =>
       txRows'[t].status \in txTransitions[txRows[t].status] \/ Overtaken("update", t, txRows[t].status)
MovesListedWallet ==
  \A a \in Wallet :
     wallets'[a].status # wallets[a].status /\ wallets[a].status # "none" =>
       \/ wallets'[a].status \in walletTransitions[wallets[a].status]
       \/ Overtaken("status", a, wallets[a].status)

\* A transaction or account moves along the transitions its service lists, a
\* transaction that is over and an account that is closed not at all, unless the call
\* that writes read the row before another changed it (transaction_service.go,
\* account_service.go).
RowsMoveAsListed == [][MovesListedTx /\ MovesListedWallet]_bookVars

PagesApart ==
  \A p, q \in 0..3, s \in {0, 2, 101} :
     PageAsked(p) # PageAsked(q) => PageRows(p, s) \cap PageRows(q, s) = {}

\* A hash is on one transaction and a key on one account, whatever calls overlapped,
\* and no row is on two pages of a listing.
RowsApart ==
  /\ \A t, u \in TxID : t # u /\ txRows[t].hash # "nil" => txRows[t].hash # txRows[u].hash
  /\ \A a, b \in Wallet : a # b /\ wallets[a].key # "nil" => wallets[a].key # wallets[b].key
  /\ PagesApart
=============================================================================
