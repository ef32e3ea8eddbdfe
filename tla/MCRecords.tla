------------------------------ MODULE MCRecords ------------------------------
(***************************************************************************)
(* The parts whose rows have several writers: users, their registrations,  *)
(* the M-Pesa and the Airtel collections, the vault watcher's rows, and    *)
(* the rows of transactions and accounts; and core: its settings, its      *)
(* start and end, and the loan references it checks.                       *)
(* They do not read each other's state: a behaviour moves one part, of     *)
(* those the run names, and leaves the others at their initial states, so  *)
(* that the states add up and do not multiply.                             *)
(***************************************************************************)
EXTENDS Users, Mpesa, Airtel, VaultWatch, Registrations, Bookkeeping, Boot, References, TLC

CONSTANTS r1, r2, p1, p2, p3, t1, t2, n1, n2, h1, k1,
          Parts   \* the parts a run moves

VARIABLE part

Init ==
    /\ part \in Parts
    /\ uInit /\ MpesaInit /\ AirtelInit /\ VaultWatchInit /\ RegistrationsInit /\ BookInit
    /\ BootInit /\ RefInit
    /\ part # "boot" =>
        env = [NoSettings EXCEPT !.stage = "production", !.listed = {"safaricom"}, !.trusted = TRUE]
    /\ part # "references" => \A l \in Loan : loans[l] = Unissued
    /\ part # "registrations" => \A t, u \in Phone : pilotUsers[t] = pilotUsers[u]

UsersMove ==
    /\ part = "users"
    /\ UNCHANGED <<part, mpesaVars, airtelVars, watchVars, regVars, bookVars, bootVars, refVars>>
    /\ uNext
MpesaMoves ==
    /\ part = "mpesa"
    /\ UNCHANGED <<part, uvars, airtelVars, watchVars, regVars, bookVars, bootVars, refVars>>
    /\ MpesaNext
AirtelMoves ==
    /\ part = "airtel"
    /\ UNCHANGED <<part, uvars, mpesaVars, watchVars, regVars, bookVars, bootVars, refVars>>
    /\ AirtelNext
VaultWatchMoves ==
    /\ part = "vaultwatch"
    /\ UNCHANGED <<part, uvars, mpesaVars, airtelVars, regVars, bookVars, bootVars, refVars>>
    /\ VaultWatchNext
RegistrationsMove ==
    /\ part = "registrations"
    /\ UNCHANGED <<part, uvars, mpesaVars, airtelVars, watchVars, bookVars, bootVars, refVars>>
    /\ RegistrationsNext
TransactionsMove ==
    /\ part = "transactions"
    /\ UNCHANGED <<part, uvars, mpesaVars, airtelVars, watchVars, regVars, bootVars, refVars>>
    /\ TransactionsNext
WalletsMove ==
    /\ part = "wallets"
    /\ UNCHANGED <<part, uvars, mpesaVars, airtelVars, watchVars, regVars, bootVars, refVars>>
    /\ WalletsNext

BootMoves ==
    /\ part = "boot"
    /\ UNCHANGED <<part, uvars, mpesaVars, airtelVars, watchVars, regVars, bookVars, refVars>>
    /\ BootNext
ReferencesMove ==
    /\ part = "references"
    /\ UNCHANGED <<part, uvars, mpesaVars, airtelVars, watchVars, regVars, bookVars, bootVars>>
    /\ RefNext

Next == UsersMove \/ MpesaMoves \/ AirtelMoves \/ VaultWatchMoves \/ RegistrationsMove
        \/ TransactionsMove \/ WalletsMove \/ BootMoves \/ ReferencesMove

Spec == Init /\ [][Next]_<<part, uvars, mpesaVars, airtelVars, watchVars, regVars, bookVars, bootVars, refVars>>

\* Telephones and national IDs are interchangeable.
Symmetric == Permutations(Phone) \cup Permutations(NationalID)

-----------------------------------------------------------------------------
(* Properties of several parts *)

\* The type invariant of every part.
TypesOK == UsersTypeOK /\ MpesaTypeOK /\ AirtelTypeOK /\ VaultWatchTypeOK /\ RegistrationsTypeOK
           /\ BookTypeOK /\ BootTypeOK

\* Who a row belongs to: PINs, answers and edits of a user that exists, and users,
\* telephones, national IDs and ledger accounts that belong together, and one
\* transaction for a hash and one account for a key.
PeopleSound == UsersSound /\ RegistrationsSound /\ RowsApart

\* A cursor passes nothing it has not recorded: not a payment of Airtel's
\* summary (summary.go), not a deposit among the vault's events (watcher.go).
CursorsSkipNothing == SweptIsConfirmed /\ PassedIsQueued

\* Core: what Safaricom posts to the URLs it was given is heard, core's end waits for
\* nobody (main.go, database.go), and a payment that names a loan is answered and put
\* down to that loan and to no other (loanref.go, daraja_callback_controller.go, pull.go).
CoreSound == BootSound /\ ReferencesSound

\* No later writer takes back what an earlier one recorded: a user's status,
\* what a loan received, a receipt that refunds need, a screening's decision, and how a
\* transaction or an account ended; and no reference given to a loan is refused as wrong.
NothingTakenBack == MovesAreListed /\ ReceivedNeverDrops /\ ReceiptKept /\ DecidedOnce /\ RowsMoveAsListed
                    /\ OwnReferenceTaken
=============================================================================
