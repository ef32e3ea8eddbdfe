-------------------------------- MODULE Ussd --------------------------------
(***************************************************************************)
(* One borrower's USSD session: the menus, handlers and back/home           *)
(* navigation of pkg/mobile/ussd, with the session they keep in Redis.      *)
(*                                                                         *)
(* A turn reads the session, runs the handler of its menu and writes the    *)
(* session back whole.  The gateway may repeat an input it saw no answer    *)
(* to, so that the repeat runs after the original or beside it, and it      *)
(* sends nothing more once an answer ended the session.                     *)
(*                                                                         *)
(* Abstracted: the session's data is the set of keys it holds, the five     *)
(* keys of a loan amount as one.  What a service answers is any of its       *)
(* answers.  Texts, languages and rails that share a step are left out.     *)
(***************************************************************************)
EXTENDS Naturals, FiniteSets

CONSTANT MaxTroubles \* bound: inputs repeated by the gateway, and sessions and
                     \* writes lost by the cache

ASSUME UssdAssumption == MaxTroubles \in Nat

VARIABLES
  session,    \* the session in Redis
  prev,       \* what the turn before the last answer read
  last,       \* the last input
  open,       \* the last answer was CON: the borrower may reply
  registered, \* the number belongs to a user
  facts,      \* what happened since the borrower dialled
  repeats, lost,
  mobileMoneyBorrowOff \* setting: new loans go straight to cash pickup

ussdVars == <<mobileMoneyBorrowOff, session, prev, last, open, registered, facts, repeats, lost>>

Menus ==
  {"main", "language_select", "my_account", "register", "register_national_id", "my_details",
   "bio_edit", "recover_offer", "recover_sim_q1", "recover_sim_q2", "pin_create", "pin_confirm",
   "security_q1_select", "security_q1_answer", "security_q2_select", "security_q2_answer",
   "pin_manager", "pin_change_old", "pin_change_new", "pin_change_confirm",
   "pin_recovery_national_id", "pin_recovery_q1", "pin_recovery_q2", "pin_recovery_new",
   "pin_recovery_confirm", "request_loan", "loan_amount", "payout_method", "loan_terms",
   "loan_confirm", "my_loans", "repay_loan", "repay_rail", "repay_mobile"}

Keys ==
  {"full_name", "national_id", "pilot_id_misses", "set_pin_only", "new_pin", "old_pin",
   "sq1_id", "sq1_answer", "sq2_id", "bio_field", "loan_amount", "payout_method",
   "recover_national_id", "recover_user", "recover_sq1_answer",
   "recovery_q", "recovery_a1", "recovery_no_sq", "recovery_new_pin", "repay_loan", "repay_open"}

Inputs == {"0", "00", "1", "2", "3", "4", "text"}
Facts == {"id_matched", "answered", "unasked", "terms", "no_policy", "reset", "submitted",
          "started", "started_twice", "repeated", "overlapped", "unsaved"}

Fresh == [menu |-> "main", user |-> FALSE, data |-> {}]

-----------------------------------------------------------------------------
(* Answers.  A turn t is the session it read, its input and the facts so far. *)

\* SaveSession writes the whole session; when it fails the turn ends in an error.
Save(t, s, stays, known) ==
  \/ session' = s /\ open' = stays /\ facts' = known /\ UNCHANGED lost
  \/ /\ repeats' + lost < MaxTroubles /\ lost' = lost + 1
     /\ open' = FALSE /\ facts' = known \cup {"unsaved"} /\ UNCHANGED session

Edit(s, menu, adds, drops) == [s EXCEPT !.menu = menu, !.data = (@ \ drops) \cup adds]

Goes(t, menu, adds, drops) == Save(t, Edit(t.s, menu, adds, drops), TRUE, t.facts)
Stays(t) == open' = TRUE /\ facts' = t.facts /\ UNCHANGED <<session, lost>>
Ends(t) == open' = FALSE /\ facts' = t.facts /\ UNCHANGED <<session, lost>>

-----------------------------------------------------------------------------
(* Navigation *)

navBackTargets ==
  [register |-> "language_select", register_national_id |-> "register",
   pin_create |-> "register_national_id", pin_confirm |-> "pin_create",
   security_q1_select |-> "pin_manager", security_q1_answer |-> "security_q1_select",
   security_q2_select |-> "security_q1_answer", security_q2_answer |-> "security_q2_select",
   pin_change_old |-> "pin_manager", pin_change_new |-> "pin_change_old",
   pin_change_confirm |-> "pin_change_new", pin_recovery_national_id |-> "pin_manager",
   bio_edit |-> "my_details", loan_amount |-> "main", payout_method |-> "loan_amount",
   loan_terms |-> "payout_method", loan_confirm |-> "loan_terms", repay_rail |-> "main"]

\* The keys a menu owns, dropped on stepping back off it.
navBackClears(menu) ==
  CASE menu = "register_national_id" -> {"national_id"}
    [] menu \in {"pin_confirm", "pin_change_confirm"} -> {"new_pin"}
    [] menu = "security_q1_answer" -> {"sq1_id"}
    [] menu = "security_q2_select" -> {"sq1_answer"}
    [] menu = "security_q2_answer" -> {"sq2_id"}
    [] menu = "pin_change_new" -> {"old_pin"}
    [] menu = "bio_edit" -> {"bio_field"}
    [] menu = "payout_method" -> {"loan_amount"}
    [] menu = "loan_terms" -> {"payout_method"}
    [] OTHER -> {}

\* The keys abandoned on the way home.
navFlowKeys == {"new_pin", "old_pin", "sq1_id", "sq1_answer", "sq2_id", "loan_amount",
                "payout_method", "bio_field"}

canGoBack(s) ==
  /\ s.menu \in DOMAIN navBackTargets
  /\ ~(s.menu = "pin_create" /\ "set_pin_only" \in s.data)
  /\ s.user \/ navBackTargets[s.menu] # "main"

canGoHome(s) == s.user /\ s.menu # "main" /\ "set_pin_only" \notin s.data

\* GetLoanTerms: terms to disclose, no borrower policy in force, or an error.
Policies == {"terms", "none", "error"}

\* showLoanTerms, once the menu is saved as loan_terms: with nothing to
\* disclose it goes straight to confirmation.
showLoanTerms(t, s) ==
  \E policy \in Policies :
    CASE policy = "terms" -> Save(t, s, TRUE, t.facts \cup {"terms"})
      [] policy = "error" -> Save(t, s, FALSE, t.facts)
      [] policy = "none" ->
           Save(t, [s EXCEPT !.menu = "loan_confirm"], TRUE, t.facts \cup {"no_policy"})

\* Fault: the amount is dropped with mobile money on as well.
BeforeTermsBare(s) ==
  Edit(s, IF mobileMoneyBorrowOff THEN "loan_amount" ELSE "payout_method", {},
       {"payout_method", "loan_amount"})

\* The menu in front of the terms, with what it and the terms own dropped.
BeforeTerms(s) ==
  IF mobileMoneyBorrowOff
    THEN Edit(s, "loan_amount", {}, {"payout_method", "loan_amount"})
    ELSE Edit(s, "payout_method", {}, {"payout_method"})

\* Back from confirmation: the terms again, or past them when there are none.
backToLoanTerms(t) ==
  \E policy \in Policies :
    IF policy = "terms"
      THEN Save(t, Edit(t.s, "loan_terms", {}, {}), TRUE, t.facts \cup {"terms"})
      ELSE Save(t, BeforeTerms(t.s), TRUE, t.facts)

goesHome(t) == t.in = "00" /\ canGoHome(t.s)
goesBack(t) == t.in = "0" /\ canGoBack(t.s)

handleNavigation(t) ==
  /\ UNCHANGED registered
  /\ \/ goesHome(t) /\ Goes(t, "main", {}, navFlowKeys)
     \/ goesBack(t) /\ t.s.menu = "loan_confirm" /\ backToLoanTerms(t)
     \/ goesBack(t) /\ t.s.menu = "loan_terms" /\ Save(t, BeforeTerms(t.s), TRUE, t.facts)
     \/ /\ goesBack(t) /\ t.s.menu \notin {"loan_terms", "loan_confirm"}
        /\ Goes(t, navBackTargets[t.s.menu], {}, navBackClears(t.s.menu))

-----------------------------------------------------------------------------
(* Main menu and account *)

\* newestRepayableLoan and the rail menu: an open repayment ends the session.
handleRepayLoan(t) ==
  \/ Save(t, [t.s EXCEPT !.menu = "repay_loan"], FALSE, t.facts)
  \/ Save(t, Edit(t.s, "repay_rail", {"repay_loan", "repay_open"}, {}), FALSE,
          t.facts \ {"started"})
  \/ Save(t, Edit(t.s, "repay_rail", {"repay_loan"}, {"repay_open"}), TRUE, t.facts \ {"started"})

handleMainMenu(t) ==
  /\ t.s.menu = "main"
  /\ \/ t.in = "1" /\ (Ends(t) \/ Goes(t, "request_loan", {}, {}))
     \/ t.in = "2" /\ handleRepayLoan(t)
     \/ t.in = "3" /\ Save(t, [t.s EXCEPT !.menu = "my_loans"], FALSE, t.facts)
     \/ t.in = "4" /\ Goes(t, "my_account", {}, {})
     \/ t.in \notin {"1", "2", "3", "4"} /\ Stays(t)

handleMyLoans(t) == t.s.menu = "my_loans" /\ Ends(t)

handleMyAccount(t) ==
  /\ t.s.menu = "my_account"
  /\ \/ t.in = "1" /\ Goes(t, "pin_manager", {}, {})
     \/ t.in = "2" /\ Goes(t, "language_select", {}, {})
     \/ t.in = "3" /\ Goes(t, "my_details", {}, {})
     \/ t.in = "0" /\ Goes(t, "main", {}, {})
     \/ t.in \notin {"0", "1", "2", "3"} /\ Stays(t)

handleMyDetails(t) ==
  /\ t.s.menu = "my_details"
  /\ \/ t.in = "0" /\ Goes(t, "my_account", {}, {})
     \/ t.in \in {"1", "2", "3", "4"} /\ Goes(t, "bio_edit", {"bio_field"}, {})
     \/ t.in \notin {"0", "1", "2", "3", "4"} /\ (Stays(t) \/ Ends(t))

handleBioEdit(t) ==
  /\ t.s.menu = "bio_edit"
  /\ Stays(t) \/ Ends(t) \/ Goes(t, "my_details", {}, {"bio_field"})

handleLanguageSelect(t) ==
  /\ t.s.menu = "language_select"
  /\ \/ t.in \in {"1", "2", "3"} /\ Goes(t, IF t.s.user THEN "main" ELSE "register", {}, {})
     \/ t.in = "0" /\ t.s.user /\ Goes(t, "main", {}, {})
     \/ (t.in = "0" => ~t.s.user) /\ t.in \notin {"1", "2", "3"} /\ Stays(t)

-----------------------------------------------------------------------------
(* Registration, and recovery onto a new SIM *)

handleRegistration(t) ==
  t.s.menu = "register" /\ (Stays(t) \/ Goes(t, "register_national_id", {"full_name"}, {}))

\* pilotIDGate ends the session at the second miss.
handleRegistrationNationalID(t) ==
  /\ t.s.menu = "register_national_id"
  /\ \/ Stays(t) \/ Ends(t)
     \/ "pilot_id_misses" \notin t.s.data /\ Goes(t, t.s.menu, {"pilot_id_misses"}, {})
     \/ Goes(t, "recover_offer", {"recover_national_id"}, {"pilot_id_misses"})
     \/ Goes(t, "pin_create", {"national_id"}, {"pilot_id_misses"})

handleRecoverOffer(t) ==
  /\ t.s.menu = "recover_offer"
  /\ \/ t.in = "1" /\ \/ Ends(t)
                      \/ Goes(t, "register_national_id", {}, {})
                      \/ Goes(t, "recover_sim_q1", {"recover_user"}, {})
     \/ t.in = "2" /\ Goes(t, "register_national_id", {}, {"recover_national_id"})
     \/ t.in \notin {"1", "2"} /\ Stays(t)

handleRecoverSimQ1(t) ==
  t.s.menu = "recover_sim_q1" /\ (Stays(t) \/ Goes(t, "recover_sim_q2", {"recover_sq1_answer"}, {}))

\* The user the session has from here on is the one recovered.
SignedIn(t, drops) ==
  Save(t, [Edit(t.s, "main", {}, drops) EXCEPT !.user = TRUE], FALSE, t.facts) /\ registered' = TRUE

handleRecoverSimQ2(t) ==
  /\ t.s.menu = "recover_sim_q2"
  /\ \/ Ends(t) /\ UNCHANGED registered
     \/ SignedIn(t, {"recover_national_id", "recover_user", "recover_sq1_answer"})

handlePINCreate(t) ==
  t.s.menu = "pin_create" /\ (Stays(t) \/ Goes(t, "pin_confirm", {"new_pin"}, {}))

\* A mismatch, SetPIN for a user without one, or completeRegistration.
handlePINConfirm(t) ==
  /\ t.s.menu = "pin_confirm"
  /\ \/ (Ends(t) \/ Goes(t, "pin_create", {}, {"new_pin"})) /\ UNCHANGED registered
     \/ /\ "set_pin_only" \in t.s.data /\ UNCHANGED registered
        /\ Save(t, Edit(t.s, "main", {}, {"new_pin", "set_pin_only"}), FALSE, t.facts)
     \/ "set_pin_only" \notin t.s.data /\ ~registered /\ SignedIn(t, {"new_pin", "national_id"})

-----------------------------------------------------------------------------
(* PIN manager and recovery *)

\* A locked account is sent to recovery whatever the input.
handlePINManager(t) ==
  /\ t.s.menu = "pin_manager"
  /\ \/ Goes(t, "pin_recovery_national_id", {}, {})
     \/ t.in = "1" /\ Goes(t, "pin_change_old", {}, {})
     \/ t.in = "2" /\ Goes(t, "security_q1_select", {}, {})
     \/ t.in = "0" /\ Goes(t, "my_account", {}, {})
     \/ t.in \notin {"0", "1", "2"} /\ Stays(t)

handleSecurityQ1Select(t) ==
  t.s.menu = "security_q1_select" /\ (Stays(t) \/ Goes(t, "security_q1_answer", {"sq1_id"}, {}))
handleSecurityQ1Answer(t) ==
  t.s.menu = "security_q1_answer" /\ (Stays(t) \/ Goes(t, "security_q2_select", {"sq1_answer"}, {}))
handleSecurityQ2Select(t) ==
  t.s.menu = "security_q2_select" /\ (Stays(t) \/ Goes(t, "security_q2_answer", {"sq2_id"}, {}))
handleSecurityQ2Answer(t) ==
  /\ t.s.menu = "security_q2_answer"
  /\ \/ Stays(t) \/ Ends(t)
     \/ Save(t, Edit(t.s, "pin_manager", {}, {"sq1_id", "sq1_answer", "sq2_id"}), FALSE, t.facts)

handlePINChangeOld(t) ==
  /\ t.s.menu = "pin_change_old"
  /\ Stays(t) \/ Ends(t) \/ Goes(t, "pin_change_new", {"old_pin"}, {})
handlePINChangeNew(t) ==
  t.s.menu = "pin_change_new" /\ (Stays(t) \/ Goes(t, "pin_change_confirm", {"new_pin"}, {}))

\* Success is not saved either: the session ends where it is.
handlePINChangeConfirm(t) ==
  t.s.menu = "pin_change_confirm" /\ (Ends(t) \/ Goes(t, "pin_change_new", {}, {"new_pin"}))

\* GetUserQuestionIDs failing counts as none configured, unless the session
\* still holds the ids of an earlier round.
handlePINRecoveryNationalID(t) ==
  LET known == t.facts \cup {"id_matched"} IN
  /\ t.s.menu = "pin_recovery_national_id"
  /\ \/ Ends(t)
     \/ Save(t, Edit(t.s, "pin_recovery_q1", {"recovery_q"}, {}), TRUE, known)
     \/ /\ "recovery_q" \notin t.s.data
        /\ Save(t, Edit(t.s, "pin_recovery_new", {"recovery_no_sq"}, {}), TRUE,
                 known \cup {"unasked"})

handlePINRecoveryQ1(t) ==
  t.s.menu = "pin_recovery_q1" /\ Goes(t, "pin_recovery_q2", {"recovery_a1"}, {})

handlePINRecoveryQ2(t) ==
  /\ t.s.menu = "pin_recovery_q2"
  /\ \/ Ends(t)
     \/ Save(t, Edit(t.s, "pin_recovery_new", {}, {"recovery_a1"}), TRUE, t.facts \cup {"answered"})

handlePINRecoveryNew(t) ==
  /\ t.s.menu = "pin_recovery_new"
  /\ Stays(t) \/ Goes(t, "pin_recovery_confirm", {"recovery_new_pin"}, {})

\* ResetPIN; success is not saved.
handlePINRecoveryConfirm(t) ==
  /\ t.s.menu = "pin_recovery_confirm"
  /\ \/ Ends(t) \/ Goes(t, "pin_recovery_new", {}, {"recovery_new_pin"})
     \/ open' = FALSE /\ facts' = t.facts \cup {"reset"} /\ UNCHANGED <<session, lost>>

-----------------------------------------------------------------------------
(* Borrowing *)

\* Checked against the product and stored with it; with mobile money off, cash
\* pickup is chosen at once, or the amount asked again.
handleLoanAmount(t) ==
  LET undisclosed == [t EXCEPT !.facts = @ \ {"terms", "no_policy"}] IN
  /\ t.s.menu \in {"request_loan", "loan_amount"}
  /\ \/ Stays(t) \/ Ends(t)
     \/ /\ mobileMoneyBorrowOff
        /\ \/ Goes(undisclosed, t.s.menu, {}, {"loan_amount"})
           \/ showLoanTerms(undisclosed,
                   Edit(t.s, "loan_terms", {"loan_amount", "payout_method"}, {}))
     \/ ~mobileMoneyBorrowOff /\ Goes(undisclosed, "payout_method", {"loan_amount"}, {})

\* Fault: the terms are left out when cash is chosen.
handlePayoutMethodQuick(t) ==
  /\ t.s.menu = "payout_method"
  /\ \/ t.in # "2" /\ Stays(t)
     \/ t.in = "1" /\ Goes(t, "loan_confirm", {"payout_method"}, {})
     \/ t.in = "2" /\ showLoanTerms(t, Edit(t.s, "loan_terms", {"payout_method"}, {}))

\* Cash pickup out of the anchor's corridor shows the menu without it.
handlePayoutMethod(t) ==
  /\ t.s.menu = "payout_method"
  /\ \/ t.in # "2" /\ Stays(t)
     \/ t.in \in {"1", "2"} /\ showLoanTerms(t, Edit(t.s, "loan_terms", {"payout_method"}, {}))

\* Accepted, or shown again.
handleLoanTerms(t) ==
  /\ t.s.menu = "loan_terms"
  /\ \/ t.in = "1" /\ Save(t, [t.s EXCEPT !.menu = "loan_confirm"], TRUE, t.facts)
     \/ t.in # "1" /\ showLoanTerms(t, t.s)

\* The loan is taken from the session, which stays where it is, and requested
\* in the background; no rate, user or account, and it is not.
submitLoan(t) ==
  \/ Ends(t)
  \/ open' = FALSE /\ facts' = t.facts \cup {"submitted"} /\ UNCHANGED <<session, lost>>

\* The PIN on the screen of the terms accepts them; a wrong one shows them
\* again, or ends the turn when the account is locked.
handleLoanConfirm(t) ==
  t.s.menu = "loan_confirm" /\ (Stays(t) \/ Ends(t) \/ submitLoan(t))

-----------------------------------------------------------------------------
(* Repaying *)

\* A prompt or a cash deposit is started, then the session marked.
startRepayment(t) ==
  Save(t, Edit(t.s, t.s.menu, {"repay_open"}, {}), FALSE,
       t.facts \cup IF "started" \in t.facts THEN {"started_twice"} ELSE {"started"})

\* An open repayment leaves no rail to choose.
handleRepayRail(t) ==
  /\ t.s.menu = "repay_rail"
  /\ \/ Stays(t)
     \/ /\ "repay_open" \notin t.s.data /\ t.in \in {"1", "2"}
        /\ \/ Ends(t) \/ startRepayment(t)
           \/ Goes(t, "repay_mobile", {}, {})

\* Ends: the paybill's number is shown, or the prompt refused.
handleRepayMobile(t) ==
  /\ t.s.menu = "repay_mobile"
  /\ \/ Stays(t)
     \/ "repay_open" \notin t.s.data /\ t.in \in {"1", "2", "3"} /\ (Ends(t) \/ startRepayment(t))

-----------------------------------------------------------------------------
(* Turns *)

\* Handlers that leave the registration alone.
PlainHandler(t) ==
  \/ handleMainMenu(t) \/ handleMyLoans(t) \/ handleMyAccount(t) \/ handleMyDetails(t)
  \/ handleBioEdit(t) \/ handleLanguageSelect(t) \/ handleRegistration(t)
  \/ handleRegistrationNationalID(t) \/ handleRecoverOffer(t) \/ handleRecoverSimQ1(t)
  \/ handlePINCreate(t) \/ handlePINManager(t) \/ handleSecurityQ1Select(t)
  \/ handleSecurityQ1Answer(t) \/ handleSecurityQ2Select(t) \/ handleSecurityQ2Answer(t)
  \/ handlePINChangeOld(t) \/ handlePINChangeNew(t) \/ handlePINChangeConfirm(t)
  \/ handlePINRecoveryNationalID(t) \/ handlePINRecoveryQ1(t) \/ handlePINRecoveryQ2(t)
  \/ handlePINRecoveryNew(t) \/ handlePINRecoveryConfirm(t)
  \/ handleRepayRail(t) \/ handleRepayMobile(t)
  \/ handleLoanAmount(t) \/ handlePayoutMethod(t) \/ handleLoanTerms(t) \/ handleLoanConfirm(t)
  \/ t.s.menu = "repay_loan" /\ handleRepayLoan(t)

handleMenuInput(t) ==
  \/ handleNavigation(t)
  \/ /\ ~goesHome(t) /\ ~goesBack(t)
     /\ \/ PlainHandler(t) /\ UNCHANGED registered
        \/ handleRecoverSimQ2(t) \/ handlePINConfirm(t)

\* What a repeat would need, kept while one may still come.
Keep(s, in) ==
  IF repeats' + lost' < MaxTroubles
  THEN prev' = s /\ last' = in ELSE prev' = Fresh /\ last' = "none"

Reply(in) ==
  /\ open /\ UNCHANGED <<repeats, mobileMoneyBorrowOff>>
  /\ handleMenuInput([s |-> session, in |-> in, facts |-> facts]) /\ Keep(session, in)

\* The gateway repeats an input: after the original turn, or beside it.
Repeat ==
  /\ last # "none" /\ repeats + lost < MaxTroubles /\ repeats' = repeats + 1
  /\ \/ handleMenuInput([s |-> session, in |-> last, facts |-> facts \cup {"repeated"}])
     \/ handleMenuInput([s |-> prev, in |-> last, facts |-> facts \cup {"repeated", "overlapped"}])
  /\ Keep(prev, last) /\ UNCHANGED mobileMoneyBorrowOff

\* handleInitialRequest on a new session, or a repeat of it on one of the same
\* id.  A lookup that fails counts as not registered.
Dial ==
  \E s \in {session, Fresh} :
    LET t == [s |-> s, in |-> "none", facts |-> {}]
        signed == [s EXCEPT !.user = TRUE] IN
    /\ last' = "none" /\ prev' = Fresh /\ UNCHANGED <<registered, mobileMoneyBorrowOff>>
    /\ repeats' = IF s = Fresh THEN repeats ELSE repeats + 1
    /\ repeats' + lost <= MaxTroubles
    /\ \/ session' = s /\ open' = FALSE /\ facts' = {} /\ UNCHANGED lost
       \/ Save(t, [s EXCEPT !.menu = "language_select"], TRUE, {})
       \/ registered /\ Save(t, [signed EXCEPT !.menu = "main"], TRUE, {})
       \/ registered /\ Save(t, Edit(signed, "pin_create", {"set_pin_only"}, {}), TRUE, {})

\* The cache loses the session: the next turn begins on the main menu of a new one.
Lose ==
  /\ repeats + lost < MaxTroubles /\ lost' = lost + 1
  /\ session' = Fresh
  /\ UNCHANGED <<prev, last, open, registered, facts, repeats, mobileMoneyBorrowOff>>

UssdInit ==
  /\ session = Fresh /\ prev = Fresh /\ last = "none" /\ open = FALSE
  /\ registered \in BOOLEAN /\ facts = {} /\ repeats = 0 /\ lost = 0
  /\ mobileMoneyBorrowOff \in BOOLEAN

UssdNext == (\E in \in Inputs : Reply(in)) \/ Repeat \/ Dial \/ Lose

UssdSpec == UssdInit /\ [][UssdNext]_ussdVars

-----------------------------------------------------------------------------
(* Properties *)

\* What the handler of a menu reads from the session.
Needs(s) ==
  CASE s.menu = "register_national_id" -> {"full_name"}
    [] s.menu = "recover_offer" -> {"full_name", "recover_national_id"}
    [] s.menu = "recover_sim_q1" -> {"recover_user"}
    [] s.menu = "recover_sim_q2" -> {"recover_user", "recover_sq1_answer"}
    [] s.menu = "pin_create" /\ "set_pin_only" \notin s.data -> {"full_name", "national_id"}
    [] s.menu = "pin_confirm" /\ "set_pin_only" \notin s.data
         -> {"full_name", "national_id", "new_pin"}
    [] s.menu = "pin_confirm" /\ "set_pin_only" \in s.data -> {"new_pin"}
    [] s.menu = "security_q1_answer" -> {"sq1_id"}
    [] s.menu = "security_q2_select" -> {"sq1_id", "sq1_answer"}
    [] s.menu = "security_q2_answer" -> {"sq1_id", "sq1_answer", "sq2_id"}
    [] s.menu = "pin_change_new" -> {"old_pin"}
    [] s.menu = "pin_change_confirm" -> {"old_pin", "new_pin"}
    [] s.menu = "pin_recovery_q1" -> {"recovery_q"}
    [] s.menu = "pin_recovery_q2" -> {"recovery_q", "recovery_a1"}
    [] s.menu = "pin_recovery_confirm" -> {"recovery_new_pin"}
    [] s.menu = "payout_method" -> {"loan_amount"}
    [] s.menu \in {"loan_terms", "loan_confirm"} -> {"loan_amount", "payout_method"}
    [] s.menu \in {"repay_rail", "repay_mobile"} -> {"repay_loan"}
    [] s.menu = "bio_edit" -> {"bio_field"}
    [] OTHER -> {}

\* The session keeps to its keys, and on every menu it holds what that menu's
\* handler reads, whatever way back and forth led there.
UssdTypeOK ==
  /\ session \in [menu : Menus, user : BOOLEAN, data : SUBSET Keys]
  /\ Needs(session) \subseteq session.data
  /\ facts \subseteq Facts /\ last \in Inputs \cup {"none"}
  /\ repeats \in 0..MaxTroubles /\ lost \in 0..(MaxTroubles - repeats)

\* handlePINRecoveryNationalID: a PIN is reset only after the national ID
\* matched and, since the borrower dialled, the answers were right or no
\* questions were found to ask.
ResetIsEarned ==
  "reset" \in facts => "id_matched" \in facts /\ facts \cap {"answered", "unasked"} # {}

\* showLoanTerms: a loan is requested only after its terms were shown or no
\* policy asked for it, unless the gateway repeated an input.
UndisclosedOnlyIfRepeated ==
  "submitted" \in facts => facts \cap {"terms", "no_policy", "repeated"} # {}

\* repayRails: one session starts a second repayment only if a repeated turn
\* overlapped the first, or the first was not saved.
SecondRepaymentOnlyIfUnseen ==
  "started_twice" \in facts => facts \cap {"overlapped", "unsaved"} # {}

\* Money moves for a borrower who saw what was agreed to: no loan without its
\* terms and no second repayment, but for what the gateway repeats.
ConsentIsInformed == UndisclosedOnlyIfRepeated /\ SecondRepaymentOnlyIfUnseen
=============================================================================
