-------------------------------- MODULE Boot --------------------------------
(***************************************************************************)
(* The core process from its settings to its end: what New and the two      *)
(* Validate functions refuse (config.go), the order in which main opens,    *)
(* serves and closes (cmd/microvault), the pool of named database           *)
(* connections (database.go), the readiness probe that reads it             *)
(* (health_checker.go), and the URLs mpesa-register binds with settings of  *)
(* its own, which Safaricom then posts payments to.                         *)
(*                                                                         *)
(* A process reads the environment once, when it starts.  Operators edit it *)
(* at any time.                                                             *)
(*                                                                         *)
(* Abstracted: a setting that only has to be present or well formed is in   *)
(* "wrong" when it is not, by the name of the check that would see it; the  *)
(* services main builds between opening and listening, which keep no state  *)
(* here; the Redis pool, whose Ready gives its read lock back.              *)
(***************************************************************************)
EXTENDS Integers, FiniteSets

CONSTANTS
  MaxSettings, \* bound: edits of the environment
  MaxInWork    \* bound: requests in work at once

ASSUME BootAssumption == MaxSettings \in Nat /\ MaxInWork \in Nat

VARIABLES
  env,     \* the environment operators edit
  edited,  \* edits so far
  core,    \* where main stands, and the settings it read
  pool,    \* the database pool: connected, and a read lock never given back
  inWork,  \* requests in work
  forced,  \* app.Shutdown reported an error in this process's life
  bound,   \* the URL Safaricom holds: where it was bound, and its slug
  unheard  \* history: a payment core should have heard of was turned away

bootVars == <<env, edited, core, pool, inWork, forced, bound, unheard>>

Environment == {"development", "staging", "production"}
Slug == {"unset", "first", "second"}

\* The peers a notification may come from.
Address == {"safaricom", "tunnel"}

\* What may be wrong with a setting, by the check that would see it.
Wrong ==
  {"number", "switch", "required", "issuer", "reserve", "key", "provider", "level",
   "prompt", "sandbox", "settlement", "callback base", "credentials", "airtel mode",
   "enquiry delay", "airtel callback", "index base", "no base", "blocked word"}

Settings ==
  [stage : Environment, wrong : SUBSET Wrong, slug : Slug, listed : SUBSET Address,
   trusted : BOOLEAN]

NoSettings ==
  [stage |-> "development", wrong |-> {}, slug |-> "unset", listed |-> {}, trusted |-> FALSE]

\* main: before config.New, then the steps named for what they are about to do.
Stage == {"down", "database", "redis", "indices", "listen", "serving", "deaf",
          "close database", "close redis"}

BootInit ==
  /\ env \in [stage : Environment, wrong : {{}}, slug : {"unset", "first"},
              listed : {{}, {"safaricom"}}, trusted : {TRUE}]
  /\ edited = 0 /\ core = [at |-> "down", loaded |-> NoSettings]
  /\ pool = [open |-> FALSE, held |-> FALSE] /\ inWork = 0 /\ forced = FALSE
  /\ bound = [stage |-> "none", slug |-> "unset"] /\ unheard = FALSE

-----------------------------------------------------------------------------
(* Settings *)

Production(s) == s.stage = "production"

Without(s, kinds) == s.wrong \cap kinds = {}

\* The checks of New, in its order: what does not parse, then what is absent, then
\* what is confused with something else, then the screening providers.
RailsParse(s)     == Without(s, {"number"})
SwitchesParse(s)  == Without(s, {"switch"})
RequiredSet(s)    == Without(s, {"required"})
NoSandbox(s)      == Production(s) => Without(s, {"prompt", "sandbox"})
KeysApart(s)      == Without(s, {"issuer", "reserve", "key"})
LevelsInRange(s)  == Without(s, {"level"})
ProvidersReady(s) == Without(s, {"provider"})

New(s) ==
  /\ RailsParse(s) /\ SwitchesParse(s) /\ RequiredSet(s) /\ NoSandbox(s)
  /\ KeysApart(s) /\ LevelsInRange(s) /\ ProvidersReady(s)

ValidateMpesa(s) ==
  /\ Without(s, {"settlement", "callback base"})
  /\ Production(s) => Without(s, {"credentials"}) /\ s.slug # "unset" /\ s.listed # {}

ValidateAirtel(s) ==
  /\ Without(s, {"airtel mode"})
  /\ Production(s) => Without(s, {"enquiry delay", "airtel callback"})

\* An operator changes one setting.
EditSettings ==
  /\ edited < MaxSettings /\ edited' = edited + 1
  /\ \/ \E e \in Environment : env' = [env EXCEPT !.stage = e]
     \/ \E w \in Wrong :
          env' = [env EXCEPT !.wrong = IF w \in env.wrong THEN env.wrong \ {w} ELSE env.wrong \cup {w}]
     \/ \E s \in Slug : env' = [env EXCEPT !.slug = s]
     \/ \E l \in SUBSET Address : env' = [env EXCEPT !.listed = l]
     \/ \E t \in BOOLEAN : env' = [env EXCEPT !.trusted = t]
  /\ UNCHANGED <<core, pool, inWork, forced, bound, unheard>>

-----------------------------------------------------------------------------
(* The connection pool *)

\* GetConnection opens the connection once; the write lock waits for readers.
GetConnection == ~pool.held /\ pool' = [pool EXCEPT !.open = TRUE]

\* Ready returns without its read lock when the connection is not there.
Ready == pool' = [pool EXCEPT !.held = pool.held \/ ~pool.open]

CloseAll == ~pool.held /\ pool' = [pool EXCEPT !.open = FALSE]

-----------------------------------------------------------------------------
(* main *)

Reach(place) == core' = [core EXCEPT !.at = place]

\* The process ends: what it held ends with it.
Exit ==
  /\ Reach("down") /\ pool' = [open |-> FALSE, held |-> FALSE] /\ inWork' = 0 /\ forced' = FALSE
  /\ UNCHANGED <<env, edited, bound, unheard>>

LoadSettings ==
  /\ core.at = "down" /\ New(env) /\ ValidateAirtel(env) /\ ValidateMpesa(env)
  /\ core' = [at |-> "database", loaded |-> env]
  /\ UNCHANGED <<env, edited, pool, inWork, forced, bound, unheard>>

OpenDatabase ==
  /\ core.at = "database" /\ GetConnection /\ Reach("redis")
  /\ UNCHANGED <<env, edited, inWork, forced, bound, unheard>>

OpenRedis ==
  /\ core.at = "redis" /\ Reach("indices")
  /\ UNCHANGED <<env, edited, pool, inWork, forced, bound, unheard>>

IndexBaseSet(s) == s.stage # "development" => Without(s, {"index base"})

\* The index sequence is re-armed; without a base that is refused.
EnsureIndices ==
  /\ core.at = "indices"
  /\ IndexBaseSet(core.loaded)
  /\ Reach("listen")
  /\ UNCHANGED <<env, edited, pool, inWork, forced, bound, unheard>>

\* A listener that fails, at once or later, is logged, and main waits for a
\* signal all the same.
Listen ==
  /\ \/ core.at = "listen" /\ Reach("serving")
     \/ core.at \in {"listen", "serving"} /\ Reach("deaf")
  /\ UNCHANGED <<env, edited, pool, inWork, forced, bound, unheard>>

\* A step that fails, a kill, or a signal before main listens for one.
Die == core.at # "down" /\ Exit

\* Mutant: the listener is closed and the requests in work are not waited for.
ShutdownAtOnce ==
  /\ core.at \in {"serving", "deaf"} /\ Reach("close database")
  /\ UNCHANGED <<env, edited, pool, inWork, forced, bound, unheard>>

\* A signal: Shutdown waits for the requests in work, or reports an error.
Shutdown ==
  /\ core.at \in {"serving", "deaf"} /\ Reach("close database")
  /\ \/ inWork = 0 /\ UNCHANGED forced
     \/ forced' = TRUE
  /\ UNCHANGED <<env, edited, pool, inWork, bound, unheard>>

CloseDatabase ==
  /\ core.at = "close database" /\ CloseAll /\ Reach("close redis")
  /\ UNCHANGED <<env, edited, inWork, forced, bound, unheard>>

CloseRedis == core.at = "close redis" /\ Exit

-----------------------------------------------------------------------------
(* Requests *)

StartRequest ==
  /\ \/ core.at = "serving"
     \/ core.at \in {"close database", "close redis"} /\ forced
  /\ inWork < MaxInWork /\ inWork' = inWork + 1
  /\ UNCHANGED <<env, edited, core, pool, forced, bound, unheard>>

\* A request in work asks whether the database is ready.
ReadinessProbe ==
  /\ inWork > 0 /\ Ready
  /\ UNCHANGED <<env, edited, core, inWork, forced, bound, unheard>>

EndRequest ==
  /\ inWork > 0 /\ inWork' = inWork - 1
  /\ UNCHANGED <<env, edited, core, pool, forced, bound, unheard>>

-----------------------------------------------------------------------------
(* Safaricom's notifications *)

\* A relative URL is refused by the client, and one with a word Daraja blocks.
AssertCallbackURL(s) == Without(s, {"blocked word"})
RegisterURL(s) == Without(s, {"no base"}) /\ AssertCallbackURL(s)

RegisterC2B ==
  /\ New(env) /\ ValidateMpesa(env) /\ RegisterURL(env)
  /\ bound' = [stage |-> env.stage, slug |-> env.slug]
  /\ UNCHANGED <<env, edited, core, pool, inWork, forced, unheard>>

\* The peer, or who the peer forwards for when it is a trusted proxy.
ClientIP(peer, s) == IF peer = "tunnel" /\ s.trusted THEN "safaricom" ELSE peer

allowedCIDR(peer, s) ==
  IF s.listed = {} THEN ~Production(s) ELSE ClientIP(peer, s) \in s.listed

\* The routes are mounted only under a slug.
Heard(peer) ==
  /\ core.loaded.slug # "unset" /\ bound.slug = core.loaded.slug
  /\ allowedCIDR(peer, core.loaded)

\* Safaricom posts to the URL it holds, directly or through the tunnel.  Core
\* should hear of it when both read the same slug in production, and its
\* settings name Safaricom, and the tunnel if it came that way.
Expected(peer) ==
  /\ bound.slug = core.loaded.slug
  /\ bound.stage = "production" /\ Production(core.loaded)
  /\ "safaricom" \in core.loaded.listed /\ (peer = "tunnel" => core.loaded.trusted)

Post(peer) ==
  /\ core.at = "serving" /\ bound.stage # "none"
  /\ unheard' = (unheard \/ (Expected(peer) /\ ~Heard(peer)))
  /\ UNCHANGED <<env, edited, core, pool, inWork, forced, bound>>

BootNext ==
  \/ EditSettings \/ LoadSettings \/ OpenDatabase \/ OpenRedis \/ EnsureIndices \/ Listen \/ Die
  \/ Shutdown \/ CloseDatabase \/ CloseRedis \/ StartRequest \/ ReadinessProbe \/ EndRequest \/ RegisterC2B
  \/ \E peer \in Address : Post(peer)

-----------------------------------------------------------------------------
(* Properties *)

BootTypeOK ==
  /\ env \in Settings /\ edited \in 0..MaxSettings
  /\ core \in [at : Stage, loaded : Settings]
  /\ pool \in [open : BOOLEAN, held : BOOLEAN] /\ inWork \in 0..MaxInWork
  /\ bound \in [stage : Environment \cup {"none"}, slug : Slug]
  /\ forced \in BOOLEAN /\ unheard \in BOOLEAN

\* In production, a payment Safaricom posts to a URL bound in production under
\* core's slug is heard, and nothing mpesa-register accepts is a URL core would
\* not mount (mpesa-register, config.go, daraja_callback_controller.go).
PaymentsHeard == ~unheard

\* The read lock Ready does not give back stops nobody: where it is held, no
\* step of main still waits for the pool (database.go, main.go).
LockStopsNobody == pool.held => core.at = "close redis"

\* A request finds the database open until it ends, unless Shutdown reported an
\* error (main.go, database.go).
RequestsKeepDatabase == inWork > 0 => pool.open \/ forced

BootSound == PaymentsHeard /\ LockStopsNobody /\ RequestsKeepDatabase
=============================================================================
