-------------------------------- MODULE Login --------------------------------
(***************************************************************************)
(* Sign-in by a signed challenge, and the sessions that follow: challenges  *)
(* in Redis with a lifetime, read by one step of a verification and deleted *)
(* by another, the token a verification earns, and the middleware that      *)
(* looks the account up, renews the token or clears the cookie.             *)
(*                                                                         *)
(* Two verifications may overlap, a delete may fail, and an operator may be *)
(* deactivated while its token lives.  The controller's calls are those for *)
(* the administrator; an application signs its operators in with the calls   *)
(* for a named account, and gives the token to the account they return.     *)
(* Abstracted: nonces, memos, envelopes and keys (a signed transaction is   *)
(* the challenge it is of and the account that signed it) and the cookie's  *)
(* attributes; that the client sends the token back in the cookie           *)
(* RequireAuth reads is the client's part.                                  *)
(***************************************************************************)
EXTENDS Naturals, FiniteSets

CONSTANTS
  Account,        \* accounts that may sign
  AdminPublicKey, \* the configured administrator
  MaxChallenges,  \* bound: challenges issued
  MaxMoment,      \* bound of the clock
  LoginFaults,    \* bound: Redis or the database not answering
  ChallengeExpiration, JWTExpiration, JWTRefreshWindow

ASSUME LoginAssumption ==
  /\ AdminPublicKey \in Account
  /\ MaxChallenges \in Nat /\ MaxMoment \in Nat /\ LoginFaults \in Nat
  /\ ChallengeExpiration \in Nat \ {0} /\ JWTExpiration \in Nat \ {0} /\ JWTRefreshWindow \in Nat

VARIABLES
  moment,    \* the clock
  challenge, \* of each challenge: whether Redis holds it, its account, its end
  verifying, \* verifications between their last check and their delete
  cookie,   \* of each account: when its newest token ends, 0 for none
  operating, \* operators that are active
  loginFaults,
  admitted,  \* of each challenge: how often it admitted its account
  reopened,  \* challenges two verifications held, or whose delete failed
  proven,    \* accounts that have signed a challenge of their own
  vouched    \* of each account: when it last signed in or was found authorised

loginVars == <<moment, challenge, verifying, cookie, operating, loginFaults,
               admitted, reopened, proven, vouched>>

ChallengeID == 1..MaxChallenges
Verifier == {"first", "second"}
NoChallenge == 0

ChallengeRow == [held : {"no", "yes", "gone"}, account : Account, expires : Nat]

LoginInit ==
  /\ moment = 0 /\ operating = Account \ {AdminPublicKey} /\ loginFaults = 0
  /\ challenge = [c \in ChallengeID |-> [held |-> "no", account |-> AdminPublicKey, expires |-> 0]]
  /\ verifying = [v \in Verifier |-> NoChallenge]
  /\ cookie = [a \in Account |-> 0] /\ vouched = [a \in Account |-> 0]
  /\ admitted = [c \in ChallengeID |-> 0] /\ reopened = {} /\ proven = {}

LoginFaulty == loginFaults < LoginFaults /\ loginFaults' = loginFaults + 1

-----------------------------------------------------------------------------
(* Challenges *)

\* RedisStore.Store keeps it for as long as it lives; it may fail.
GenerateChallengeFor(c, a) ==
  /\ challenge[c].held = "no"
  /\ LET row(h) == [held |-> h, account |-> a, expires |-> moment + ChallengeExpiration]
     IN  \/ challenge' = [challenge EXCEPT ![c] = row("yes")] /\ UNCHANGED loginFaults
         \/ challenge' = [challenge EXCEPT ![c] = row("gone")] /\ LoginFaulty
  /\ UNCHANGED <<moment, verifying, cookie, operating, admitted, reopened, proven, vouched>>

\* Redis drops what reached its end.
Evict(c) ==
  /\ challenge[c].held = "yes" /\ moment >= challenge[c].expires
  /\ challenge' = [challenge EXCEPT ![c].held = "gone"]
  /\ UNCHANGED <<moment, verifying, cookie, operating, loginFaults, admitted, reopened, proven, vouched>>

\* RedisStore.Delete, whose error its callers ignore.
DeleteChallenge(c) ==
  \/ challenge' = [challenge EXCEPT ![c].held = "gone"] /\ UNCHANGED loginFaults
  \/ UNCHANGED challenge /\ LoginFaulty

\* A challenge found after its end is deleted, and refused.
RefuseExpired(c) ==
  /\ challenge[c].held = "yes" /\ moment > challenge[c].expires
  /\ DeleteChallenge(c)
  /\ UNCHANGED <<moment, verifying, cookie, operating, admitted, reopened, proven, vouched>>

\* VerifySignedChallengeFor up to its delete: the challenge is read, is not past
\* its end, is the transaction signed, and its own account signed it.  Whatever
\* fails changes nothing.
CheckSigned(v, c, signed) ==
  /\ verifying[v] = NoChallenge
  /\ challenge[c].held = "yes" /\ moment <= challenge[c].expires
  /\ signed.of = c /\ signed.by = challenge[c].account
  /\ verifying' = [verifying EXCEPT ![v] = c]
  /\ reopened' = reopened \cup {d \in {c} : \E w \in Verifier : verifying[w] = d}
  /\ proven' = proven \cup {signed.by}
  /\ UNCHANGED <<moment, challenge, cookie, operating, loginFaults, admitted, vouched>>

\* The rest of it: the delete, and the token its account is given.
Finishes(v, c) ==
  LET a == challenge[c].account IN
  /\ verifying[v] = c
  /\ verifying' = [verifying EXCEPT ![v] = NoChallenge]
  /\ cookie' = [cookie EXCEPT ![a] = moment + JWTExpiration]
  /\ vouched' = [vouched EXCEPT ![a] = moment]
  /\ admitted' = [admitted EXCEPT ![c] = @ + 1]
  /\ UNCHANGED <<moment, operating, proven>>

Admit(v, c) ==
  /\ Finishes(v, c)
  /\ DeleteChallenge(c)
  /\ reopened' = IF loginFaults' = loginFaults THEN reopened ELSE reopened \cup {c}

-----------------------------------------------------------------------------
(* Sessions *)

\* authorize: the administrator, or an operator the lookup finds active.
Authorized(a) == a = AdminPublicKey \/ a \in operating

\* ShouldRefresh
ShouldRefresh(expires) == expires < moment + JWTRefreshWindow

\* RequireAuth with a token still good.
Serve(a) ==
  /\ moment < cookie[a] /\ Authorized(a)
  /\ cookie' = [cookie EXCEPT ![a] = IF ShouldRefresh(@) THEN moment + JWTExpiration ELSE @]
  /\ vouched' = [vouched EXCEPT ![a] = moment]
  /\ UNCHANGED <<moment, challenge, verifying, operating, loginFaults, admitted, reopened, proven>>

\* RequireAuth clears the cookie of a token past its end, of an account that may
\* not, and of one whose lookup failed.
TurnAway(a) ==
  /\ cookie[a] # 0
  /\ \/ /\ moment >= cookie[a] \/ ~Authorized(a)
        /\ UNCHANGED loginFaults
     \/ a # AdminPublicKey /\ LoginFaulty
  /\ cookie' = [cookie EXCEPT ![a] = 0]
  /\ UNCHANGED <<moment, challenge, verifying, operating, admitted, reopened, proven, vouched>>

\* Operators come and go.
Enrol(a) ==
  /\ a # AdminPublicKey
  /\ operating' = IF a \in operating THEN operating \ {a} ELSE operating \cup {a}
  /\ UNCHANGED <<moment, challenge, verifying, cookie, loginFaults, admitted, reopened, proven, vouched>>

MomentPasses ==
  /\ moment < MaxMoment /\ moment' = moment + 1
  /\ UNCHANGED <<challenge, verifying, cookie, operating, loginFaults, admitted, reopened, proven, vouched>>

LoginNext ==
  \/ \E c \in ChallengeID : \/ \E a \in Account : GenerateChallengeFor(c, a)
                            \/ Evict(c) \/ RefuseExpired(c)
  \/ \E v \in Verifier, c \in ChallengeID :
        \/ \E signed \in [of : ChallengeID, by : Account] : CheckSigned(v, c, signed)
        \/ Admit(v, c)
  \/ \E a \in Account : Serve(a) \/ TurnAway(a) \/ Enrol(a)
  \/ MomentPasses

-----------------------------------------------------------------------------
(* Properties *)

LoginTypeOK ==
  /\ moment \in Nat /\ loginFaults \in Nat
  /\ challenge \in [ChallengeID -> ChallengeRow]
  /\ verifying \in [Verifier -> ChallengeID \cup {NoChallenge}]
  /\ cookie \in [Account -> Nat] /\ vouched \in [Account -> Nat]
  /\ operating \subseteq Account /\ proven \subseteq Account /\ reopened \subseteq ChallengeID
  /\ admitted \in [ChallengeID -> Nat]

\* A challenge admits once (challenge.go), or two verifications held it before either
\* deleted it, or its delete failed.
AdmitsOnce == \A c \in ChallengeID : admitted[c] > 1 => c \in reopened

\* A session is somebody's who signed, and outlives the last time its account was
\* found authorised by one lifetime of a token at most, however often it is renewed
\* (auth_middleware.go, jwt.go).
SessionsEnd ==
  \A a \in Account : cookie[a] # 0 => a \in proven /\ cookie[a] <= vouched[a] + JWTExpiration

LoginSound == AdmitsOnce /\ SessionsEnd
=============================================================================
