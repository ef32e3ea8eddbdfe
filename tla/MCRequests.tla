------------------------------ MODULE MCRequests ------------------------------
(***************************************************************************)
(* The parts whose requests are repeated, overtaken or lost: the USSD       *)
(* session, one YellowCard payout, the contract calls the server signs, the *)
(* calls it makes with a provider's token, the choice of screening          *)
(* providers, what providers report about a lender, the operators' sign-in   *)
(* and the payment relay with its disbursements.                            *)
(* They do not read each other's state and TLC checks them in one run: a    *)
(* behaviour moves one part and leaves the others at their initial states,  *)
(* so that the states add up and do not multiply.                           *)
(***************************************************************************)
EXTENDS Ussd, Payouts, Submission, Credentials, Screening, Verification, Login, Relay

CONSTANTS c1, a1, a2, s1, s2, o1, o2, x1, g1, g2

VARIABLE part

Init ==
    /\ part \in {"ussd", "payouts", "submission", "credentials", "screening", "verification",
                "login", "routing", "orders"}
    /\ UssdInit /\ PayoutsInit /\ SubmissionInit /\ CredentialsInit
    /\ ScreeningInit /\ VerificationInit /\ LoginInit /\ RouteInit /\ OrdersInit
    /\ part # "ussd" => ~mobileMoneyBorrowOff /\ ~registered
    /\ part # "submission" => \A c \in Caller : call[c].key = "admin"
    /\ deployed = [keys |-> Provider, boot |-> {"elliptic"}]
    /\ part # "credentials" => provider = "anchor" /\ home = [c \in Request |-> s1]
    /\ part # "routing" => setup = [enabled |-> TRUE, default |-> "fonbnk",
                                     serves |-> [s \in Source |-> Direction]]

moneyVars  == <<relayVars, loginVars>>
peopleVars == <<screeningVars, verificationVars, moneyVars>>

UssdMoves ==
    part = "ussd" /\ UNCHANGED <<part, payoutVars, submitVars, credVars, peopleVars>> /\ UssdNext
PayoutsMove ==
    part = "payouts" /\ UNCHANGED <<part, ussdVars, submitVars, credVars, peopleVars>> /\ PayoutsNext
SubmissionMoves ==
    part = "submission" /\ UNCHANGED <<part, ussdVars, payoutVars, credVars, peopleVars>> /\ SubmissionNext
CredentialsMove ==
    part = "credentials" /\ UNCHANGED <<part, ussdVars, payoutVars, submitVars, peopleVars>> /\ CredentialsNext
ScreeningMoves ==
  /\ part = "screening" /\ ScreeningNext
  /\ UNCHANGED <<part, ussdVars, payoutVars, submitVars, credVars, verificationVars, moneyVars>>
VerificationMoves ==
  /\ part = "verification" /\ VerificationNext
  /\ UNCHANGED <<part, ussdVars, payoutVars, submitVars, credVars, screeningVars, moneyVars>>
LoginMoves ==
  /\ part = "login" /\ LoginNext
  /\ UNCHANGED <<part, ussdVars, payoutVars, submitVars, credVars, screeningVars, verificationVars, relayVars>>
RoutingMoves ==
  /\ part = "routing" /\ RoutingNext
  /\ UNCHANGED <<part, ussdVars, payoutVars, submitVars, credVars, screeningVars, verificationVars,
                 orderVars, loginVars>>
OrdersMove ==
  /\ part = "orders" /\ OrdersNext
  /\ UNCHANGED <<part, ussdVars, payoutVars, submitVars, credVars, screeningVars, verificationVars,
                 routeVars, loginVars>>

Next == UssdMoves \/ PayoutsMove \/ SubmissionMoves \/ CredentialsMove
        \/ ScreeningMoves \/ VerificationMoves \/ LoginMoves \/ RoutingMoves \/ OrdersMove

Spec == Init /\ [][Next]_<<part, ussdVars, payoutVars, submitVars, credVars, peopleVars>>

\* The type invariant of every part.
TypesOK ==
    /\ UssdTypeOK /\ PayoutsTypeOK /\ SubmissionTypeOK /\ CredentialsTypeOK
    /\ ScreeningTypeOK /\ VerificationTypeOK /\ LoginTypeOK /\ RelayTypeOK

\* USSD: what a borrower decided was decided on the screens shown, by the PIN or
\* the answers asked for (handler.go), however requests are repeated or overlap.
DialogueSound == ResetIsEarned /\ ConsentIsInformed

\* Compliance: lenders are screened as two people decided, on evidence from every
\* provider, and what providers report about them is kept (screening_settings.go,
\* switch.go, combine.go, kyb.go, monitoring.go).
ComplianceSound == ScreeningSound /\ VerificationSound

\* Tokens, the server's own and those it gives out: requests are performed once and
\* tokens are the newest (mpesa.go, airtel.go, anchor), a challenge admits once and a
\* session ends when its account is no longer found authorised (challenge.go,
\* auth_middleware.go).
TokensSound == CredentialsSound /\ LoginSound

\* A loan's money: paid out on one rail and put back in the vault only while it is at
\* home (offramp_yellowcard.go, refund_poller.go), and through the relay at a rate that
\* was weighed, by one order (relay.go, offramp_fonbnk.go).
PaymentsSound == PayoutSound /\ RelaySound
=============================================================================
