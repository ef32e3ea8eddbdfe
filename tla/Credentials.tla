----------------------------- MODULE Credentials -----------------------------
(***************************************************************************)
(* The tokens the server calls its providers with, and what a call repeats: *)
(* M-Pesa's Daraja and Airtel (one token in a store the replicas share, one *)
(* mint at a time in each), MoneyGram's REST API (one token behind a mutex) *)
(* and the Stellar anchor (SEP-10, a token for each child memo, none of     *)
(* whose mints wait for another).                                          *)
(*                                                                         *)
(* A provider knows when a token ends and whether a newer one replaces it;  *)
(* the server finds out when a call is refused.  Abstracted: what the call  *)
(* asks for, signatures and keys, errors that are not about the token.      *)
(***************************************************************************)
EXTENDS Naturals, FiniteSets

CONSTANTS
  Request,    \* calls of one credential
  Replica,    \* server processes
  MaxMints,   \* bound: tokens a provider issues
  MaxTime,    \* bound of the clock
  Life,       \* how long a token lives
  Margin      \* tokenSkew, SafetyMargin, JWTSafetyMargin

ASSUME CredentialsAssumption ==
  /\ MaxMints \in Nat /\ MaxTime \in Nat /\ Life \in Nat /\ Margin \in Nat
  /\ Margin < Life /\ IsFiniteSet(Replica)

VARIABLES
  provider, \* the provider called
  home,     \* of each call: the replica it runs in
  store,    \* the cached token and when it stops being used
  dies,     \* of each token the provider issued: when it ends
  hour,     \* the clock
  minting,  \* of each replica: whether a mint is in flight, or the lock held
  request   \* of each call: its step, token, refusals, requests sent, times it
            \* was performed and whether an answer to it was lost

credVars == <<provider, home, store, dies, hour, minting, request>>

HTTPMaxAttempts == 3
NoToken == [token |-> 0, until |-> 0]

\* Daraja ends the previous token with every mint.
NewestOnly == provider = "daraja"
\* Whose store the replicas share.
SharesStore == provider \in {"daraja", "airtel"}

CredentialsInit ==
  /\ provider \in {"daraja", "airtel", "moneygram", "anchor"}
  /\ home \in [Request -> Replica]
  /\ SharesStore \/ \E r \in Replica : home = [c \in Request |-> r]
  /\ store = NoToken /\ dies = <<>> /\ hour = 0
  /\ minting = [r \in Replica |-> FALSE]
  /\ request = [c \in Request |->
       [at |-> "ask", token |-> 0, refused |-> 0, sent |-> 0, done |-> 0, lost |-> FALSE]]

StepsTo(c, at) == request' = [request EXCEPT ![c].at = at]
Sends(c, token) == request' = [request EXCEPT ![c] = [@ EXCEPT !.at = "send", !.token = token, !.sent = 0]]

\* cachedToken: one that is not near its end.
Cached == store.token # 0 /\ hour < store.until

\* A cached token is sent at once.
AccessToken(c) ==
  /\ request[c].at = "ask" /\ SharesStore
  /\ IF Cached THEN Sends(c, store.token) ELSE StepsTo(c, "join")
  /\ UNCHANGED <<provider, home, store, dies, hour, minting>>

\* MoneyGram's token is looked at under the lock that a mint holds.
Token(c) ==
  /\ request[c].at = "ask" /\ provider = "moneygram" /\ ~minting[home[c]]
  /\ IF Cached THEN Sends(c, store.token) /\ UNCHANGED minting
     ELSE StepsTo(c, "mint") /\ minting' = [minting EXCEPT ![home[c]] = TRUE]
  /\ UNCHANGED <<provider, home, store, dies, hour>>

\* The anchor's cache lets go of its lock before it authenticates.
GetJWT(c) ==
  /\ request[c].at = "ask" /\ provider = "anchor"
  /\ IF Cached THEN Sends(c, store.token) ELSE StepsTo(c, "mint")
  /\ UNCHANGED <<provider, home, store, dies, hour, minting>>

\* singleFlight.Do: a call waits for the mint of its replica, or leads one.
Join(c) ==
  /\ request[c].at = "join"
  /\ IF minting[home[c]] THEN StepsTo(c, "wait") /\ UNCHANGED minting
     ELSE minting' = [minting EXCEPT ![home[c]] = TRUE] /\ StepsTo(c, "look")
  /\ UNCHANGED <<provider, home, store, dies, hour>>

\* The flight gives its answer to everyone who waits; the mutex and the
\* anchor's cache to nobody else.
FlightEnds(c, token) ==
  LET served == {c} \cup {d \in Request : SharesStore /\ home[d] = home[c] /\ request[d].at = "wait"}
  IN  /\ minting' = [minting EXCEPT ![home[c]] = FALSE]
      /\ request' = [d \in Request |->
           IF d \notin served THEN request[d]
           ELSE IF token = 0 THEN [request[d] EXCEPT !.at = "failed"]
           ELSE [request[d] EXCEPT !.at = "send", !.token = token, !.sent = 0]]

\* Fault: the flight does not look at the store again.
LookUnchecked(c) ==
  /\ request[c].at = "look" /\ StepsTo(c, "mint")
  /\ UNCHANGED <<provider, home, store, dies, hour, minting>>

\* The second look, inside the flight.
LookAgain(c) ==
  /\ request[c].at = "look"
  /\ IF Cached THEN FlightEnds(c, store.token) ELSE StepsTo(c, "mint") /\ UNCHANGED minting
  /\ UNCHANGED <<provider, home, store, dies, hour>>

\* The provider issues a token, whose answer may never arrive, or refuses.
Issue(c) ==
  LET next == Cardinality(DOMAIN dies) + 1 IN
  /\ request[c].at = "mint"
  /\ \/ /\ next <= MaxMints
        /\ dies' = [t \in 1..next |-> IF t = next THEN hour + Life ELSE dies[t]]
        /\ \/ /\ request' = [request EXCEPT ![c].at = "keep", ![c].token = next] /\ UNCHANGED minting
           \/ FlightEnds(c, 0)
     \/ FlightEnds(c, 0) /\ UNCHANGED dies
  /\ UNCHANGED <<provider, home, store, hour>>

MintToken(c) == SharesStore /\ Issue(c)
FetchToken(c) == provider = "moneygram" /\ Issue(c)
\* SEP-10: a challenge is fetched, signed and exchanged.
Authenticate(c) == provider = "anchor" /\ Issue(c)

\* A lifetime counts from the answer, the anchor's token names its end.
tokenExpiry(t) == IF provider = "anchor" THEN dies[t] ELSE hour + Life

\* A store that cannot be written fails the mint and leaves the token unused;
\* the memory of one process is written.
KeepToken(c) ==
  /\ request[c].at = "keep"
  /\ \/ /\ store' = [token |-> request[c].token, until |-> tokenExpiry(request[c].token) - Margin]
        /\ FlightEnds(c, request[c].token)
     \/ SharesStore /\ FlightEnds(c, 0) /\ UNCHANGED store
  /\ UNCHANGED <<provider, home, dies, hour>>

Valid(t) == hour < dies[t] /\ (NewestOnly => t = Cardinality(DOMAIN dies))

\* The connection breaks: the request or its answer is lost.
Lost(c, at) == [request[c] EXCEPT !.sent = @ + 1, !.lost = TRUE, !.at = at]
Answered(c) ==
  IF Valid(request[c].token)
    THEN request' = [request EXCEPT ![c].at = "served", ![c].done = @ + 1]
    ELSE StepsTo(c, "refused")
Broken(c, at) ==
  \/ request' = [request EXCEPT ![c] = Lost(c, at)]
  \/ Valid(request[c].token) /\ request' = [request EXCEPT ![c] = [Lost(c, at) EXCEPT !.done = @ + 1]]

\* A lost answer is the caller's failure.
Attempt(c) ==
  /\ request[c].at = "send" /\ provider # "anchor"
  /\ Answered(c) \/ Broken(c, "failed")
  /\ UNCHANGED <<provider, home, store, dies, hour, minting>>

\* The anchor is sent the request again.
doHTTPWithRetry(c) ==
  /\ request[c].at = "send" /\ provider = "anchor"
  /\ Answered(c) \/ Broken(c, IF request[c].sent + 1 < HTTPMaxAttempts THEN "send" ELSE "failed")
  /\ UNCHANGED <<provider, home, store, dies, hour, minting>>

\* The first refusal drops the cached token, whichever it is by now, and asks
\* once more; the second is the caller's.  A delete that fails is ignored.
EvictToken(c) ==
  /\ request[c].at = "refused" /\ SharesStore
  /\ IF request[c].refused = 0
       THEN /\ request' = [request EXCEPT ![c].at = "ask", ![c].refused = 1]
            /\ store' = NoToken \/ UNCHANGED store
       ELSE StepsTo(c, "rejected") /\ UNCHANGED store
  /\ UNCHANGED <<provider, home, dies, hour, minting>>

\* MoneyGram's first refusal is the caller's.
Invalidate(c) ==
  /\ request[c].at = "refused" /\ provider = "moneygram"
  /\ store' = NoToken /\ StepsTo(c, "rejected")
  /\ UNCHANGED <<provider, home, dies, hour, minting>>

InvalidateJWT(c) ==
  /\ request[c].at = "refused" /\ provider = "anchor"
  /\ IF request[c].refused = 0
       THEN request' = [request EXCEPT ![c].at = "ask", ![c].refused = 1] /\ store' = NoToken
       ELSE StepsTo(c, "rejected") /\ UNCHANGED store
  /\ UNCHANGED <<provider, home, dies, hour, minting>>

TimePasses ==
  /\ hour < MaxTime /\ hour' = hour + 1
  /\ UNCHANGED <<provider, home, store, dies, minting, request>>

CredentialsNext ==
  \/ \E c \in Request :
       \/ AccessToken(c) \/ Token(c) \/ GetJWT(c) \/ Join(c) \/ LookAgain(c)
       \/ MintToken(c) \/ FetchToken(c) \/ Authenticate(c) \/ KeepToken(c)
       \/ Attempt(c) \/ doHTTPWithRetry(c)
       \/ EvictToken(c) \/ Invalidate(c) \/ InvalidateJWT(c)
  \/ TimePasses

-----------------------------------------------------------------------------
(* Properties *)

\* Tokens are issued ones, and nobody waits where nothing is in flight.
CredentialsTypeOK ==
  /\ {store.token} \cup {request[c].token : c \in Request} \subseteq {0} \cup DOMAIN dies
  /\ \A c \in Request : request[c].at \in {"wait", "look"} => minting[home[c]]
  /\ \A c \in Request : request[c].refused \in 0..1 /\ request[c].sent \in 0..HTTPMaxAttempts

\* A request is performed twice only at the anchor, and only after an answer
\* to it was lost: nothing but a refusal is repeated (mpesa.go:185-190,
\* airtel.go:226-232).
PerformedOnce ==
  \A c \in Request :
    /\ request[c].done > 1 => provider = "anchor" /\ request[c].lost
    /\ request[c].at = "rejected" /\ ~request[c].lost => request[c].done = 0

\* Calls of one process never work against each other: a token in the cache that
\* is not near its end is the newest the provider issued.
CacheIsNewest ==
  (provider # "anchor" /\ \A c, d \in Request : home[c] = home[d]) /\ Cached =>
    store.token = Cardinality(DOMAIN dies)

CredentialsSound == PerformedOnce /\ CacheIsNewest
=============================================================================
