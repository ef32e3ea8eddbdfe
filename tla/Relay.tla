-------------------------------- MODULE Relay --------------------------------
(***************************************************************************)
(* The payment relay: the router that asks every rate source at once and    *)
(* takes the best answer, the round-trip margin it checks with later        *)
(* answers, the sources' own arithmetic, and the Fonbnk disbursement, which *)
(* opens an order, sends the treasury's USDC against it and confirms or     *)
(* cancels it.                                                             *)
(*                                                                         *)
(* Rates move between two questions, sources fail, and an answer of Fonbnk  *)
(* or of the ledger may be lost.  Abstracted: a rate is the fiat for the    *)
(* amount asked about, in whole units, where the code keeps a fraction of   *)
(* it; currencies, carriers, the fields of an order.                       *)
(***************************************************************************)
EXTENDS Integers, FiniteSets

CONSTANTS
  MaxRate,      \* bound: fiat a source answers
  MaxLoss,      \* the round-trip loss minRoundTripMarginPct allows, in hundredths
  MaxMoves,     \* bound: rates that move
  MaxOrders,    \* bound: orders opened for one loan
  RelayFaults   \* bound: answers lost, cancellations that fail

ASSUME RelayAssumption ==
  /\ MaxRate \in Nat /\ MaxLoss \in Int /\ MaxMoves \in Nat
  /\ MaxOrders \in Nat /\ RelayFaults \in Nat

VARIABLES
  setup,   \* whether the relay is enabled, the default source, who serves what
  rates,   \* what each source answers now, 0 for an error or nothing usable
  moves,   \* rates moved so far
  routing, \* the request in work and what it has heard
  shifted, \* an answer changed since this request began
  orders,  \* Fonbnk's orders of one loan
  landed,  \* orders whose USDC reached Fonbnk
  misread, \* orders whose transfer landed and was reported as failed
  till,    \* where Initiate stands: the order and its step
  heard,    \* what the caller was told
  relayFaults

routeVars == <<setup, rates, moves, routing, shifted>>
orderVars == <<orders, landed, misread, till, heard, relayFaults>>
relayVars == <<routeVars, orderVars>>

Source == {"yellowcard", "fonbnk"}
Direction == {"off_ramp", "on_ramp"}

-----------------------------------------------------------------------------
(* The sources *)

\* effectiveYCRate: the fiat for an amount, after the channel's fees.
YCFiat(direction, amount, headline, channel) ==
  IF direction = "on_ramp"
    THEN (amount + channel.feeUSD) * headline + channel.feeLocal
    ELSE (amount - channel.feeUSD) * headline - channel.feeLocal

\* The active channel of the direction with the lowest fee in dollars.
Cheapest(channels) == {c \in channels : \A d \in channels : c.feeUSD <= d.feeUSD}

\* What YellowCard's source answers: nothing without a rate, a channel or
\* anything left after fees.
YCAnswers(direction, amount, headline, channels) ==
  IF headline <= 0 \/ channels = {} THEN {0}
  ELSE {IF YCFiat(direction, amount, headline, c) <= 0 THEN 0
        ELSE YCFiat(direction, amount, headline, c) : c \in Cheapest(channels)}

Channel == [feeUSD : 0..1, feeLocal : 0..1]

\* One amount is enough: the router compares answers about the same one.
Fiat(source, direction) ==
  IF source = "fonbnk" THEN 0..MaxRate
  ELSE {rate \in 0..MaxRate : \E headline \in 0..MaxRate, c \in Channel :
          rate \in YCAnswers(direction, 2, headline, {c})}

-----------------------------------------------------------------------------
(* The router *)

NoQuote == [source |-> "none", rate |-> 0]
Quote == [source : Source, rate : 0..MaxRate]
Resting == [at |-> "idle", direction |-> "off_ramp", best |-> NoQuote, buy |-> NoQuote, sell |-> NoQuote]

RouteInit ==
  /\ setup \in [enabled : BOOLEAN, default : Source, serves : [Source -> SUBSET Direction \ {{}}]]
  /\ rates = [s \in Source |-> [d \in Direction |-> 0]]
  /\ moves = 0 /\ routing = Resting /\ shifted = FALSE

\* Better: more fiat for a sale, less for a purchase.
Better(direction, q, r) == IF direction = "on_ramp" THEN q.rate < r.rate ELSE q.rate > r.rate

\* quoteAll: the sources that serve the direction and answered something usable.
\* A source that fails or panics is left out.
Quotes(direction) ==
  {[source |-> s, rate |-> rates[s][direction]] :
     s \in {t \in Source : direction \in setup.serves[t] /\ rates[t][direction] > 0}}

\* Best: what it may answer, nothing when it refuses.  Disabled, the default
\* source is asked whatever it serves.
Best(direction) ==
  IF ~setup.enabled
    THEN {q \in {[source |-> setup.default, rate |-> rates[setup.default][direction]]} : q.rate > 0}
    ELSE {q \in Quotes(direction) : \A r \in Quotes(direction) : ~Better(direction, r, q)}

\* BestWithinMargin asks for the best and then, for the spread, for both
\* directions again.
BeginRoute(direction) ==
  /\ routing.at = "idle"
  /\ \E q \in Best(direction) :
       routing' = [Resting EXCEPT !.at = "buy", !.direction = direction, !.best = q]
  /\ shifted' = FALSE /\ UNCHANGED <<setup, rates, moves>>

AskBuy ==
  /\ routing.at = "buy"
  /\ \/ \E q \in Best("on_ramp") : routing' = [routing EXCEPT !.at = "sell", !.buy = q]
     \/ Best("on_ramp") = {} /\ routing' = Resting
  /\ UNCHANGED <<setup, rates, moves, shifted>>

AskSell ==
  /\ routing.at = "sell"
  /\ \/ \E q \in Best("off_ramp") : routing' = [routing EXCEPT !.at = "weigh", !.sell = q]
     \/ Best("off_ramp") = {} /\ routing' = Resting
  /\ UNCHANGED <<setup, rates, moves, shifted>>

\* The loss of a round trip is within the floor.
WithinMargin(buy, sell) == (sell.rate - buy.rate) * 100 >= -(MaxLoss * buy.rate)

Weigh ==
  /\ routing.at = "weigh"
  /\ routing' = IF WithinMargin(routing.buy, routing.sell)
                THEN [routing EXCEPT !.at = "given"] ELSE Resting
  /\ UNCHANGED <<setup, rates, moves, shifted>>

\* The caller takes the quote.
TakeQuote ==
  /\ routing.at = "given" /\ routing' = Resting /\ shifted' = FALSE
  /\ UNCHANGED <<setup, rates, moves>>

RateMoves(source, direction) ==
  /\ moves < MaxMoves /\ moves' = moves + 1
  /\ \E rate \in Fiat(source, direction) :
       rates' = [rates EXCEPT ![source] = [@ EXCEPT ![direction] = rate]]
  /\ shifted' = (routing.at # "idle")
  /\ UNCHANGED <<setup, routing>>

RoutingNext ==
  \/ \E d \in Direction : BeginRoute(d) \/ \E s \in Source : RateMoves(s, d)
  \/ AskBuy \/ AskSell \/ Weigh \/ TakeQuote

-----------------------------------------------------------------------------
(* A disbursement through Fonbnk *)

Order == 1..MaxOrders
Away == [order |-> 0, at |-> "away"]

OrdersInit ==
  /\ orders = [k \in Order |-> "none"] /\ landed = {} /\ misread = {}
  /\ till = Away /\ heard = "nothing" /\ relayFaults = 0

RelayFault == relayFaults < RelayFaults /\ relayFaults' = relayFaults + 1

Leaves(answer) == till' = Away /\ heard' = answer

\* Initiate opens an order: it is refused, its answer is lost, or it is open.  The
\* caller asks again only after an error.
CreateOrder(k) ==
  /\ till = Away /\ heard # "done" /\ orders[k] = "none" /\ \A j \in Order : j < k => orders[j] # "none"
  /\ \/ orders' = [orders EXCEPT ![k] = "refused"] /\ Leaves("error") /\ UNCHANGED relayFaults
     \/ orders' = [orders EXCEPT ![k] = "open"] /\ Leaves("error") /\ RelayFault
     \/ /\ orders' = [orders EXCEPT ![k] = "open"] /\ till' = [order |-> k, at |-> "send"]
        /\ UNCHANGED <<heard, relayFaults>>
  /\ UNCHANGED <<landed, misread>>

\* cancelQuietly: what it cannot cancel stays open.
cancelQuietly(k) == orders' = [orders EXCEPT ![k] = "cancelled"] \/ UNCHANGED orders

\* depositTarget: an order that names no address is cancelled.
NoTarget(k) ==
  /\ till = [order |-> k, at |-> "send"] /\ cancelQuietly(k) /\ Leaves("error")
  /\ UNCHANGED <<landed, misread, relayFaults>>

\* SendUSDC: sent, failed, or landed with its answer lost, which Initiate takes
\* for a failure.
SendToOrder(k) ==
  /\ till = [order |-> k, at |-> "send"]
  /\ \/ /\ landed' = landed \cup {k} /\ till' = [till EXCEPT !.at = "confirm"]
        /\ UNCHANGED <<orders, misread, heard, relayFaults>>
     \/ cancelQuietly(k) /\ Leaves("error") /\ UNCHANGED <<landed, misread, relayFaults>>
     \/ /\ landed' = landed \cup {k} /\ misread' = misread \cup {k}
        /\ cancelQuietly(k) /\ Leaves("error") /\ RelayFault

\* confirm: a refusal is raised with the operators and the loan is disbursed.
ConfirmOrder(k) ==
  /\ till = [order |-> k, at |-> "confirm"]
  /\ orders' = [orders EXCEPT ![k] = "confirmed"] \/ UNCHANGED orders
  /\ Leaves("done") /\ UNCHANGED <<landed, misread, relayFaults>>

OrdersNext ==
  \E k \in Order : CreateOrder(k) \/ NoTarget(k) \/ SendToOrder(k) \/ ConfirmOrder(k)

-----------------------------------------------------------------------------
(* Properties *)

RelayTypeOK ==
  /\ setup \in [enabled : BOOLEAN, default : Source, serves : [Source -> SUBSET Direction]]
  /\ rates \in [Source -> [Direction -> 0..MaxRate]]
  /\ moves \in 0..MaxMoves /\ shifted \in BOOLEAN
  /\ routing \in [at : {"idle", "buy", "sell", "weigh", "given"}, direction : Direction,
                  best : Quote \cup {NoQuote}, buy : Quote \cup {NoQuote}, sell : Quote \cup {NoQuote}]
  /\ orders \in [Order -> {"none", "refused", "open", "cancelled", "confirmed"}]
  /\ landed \subseteq Order /\ misread \subseteq Order
  /\ till \in [order : Order \cup {0}, at : {"away", "send", "confirm"}]
  /\ heard \in {"nothing", "error", "done"} /\ relayFaults \in Nat

\* A quote given out is positive, of a source that serves its direction unless the
\* relay is off, and within the margin: judged by the same quote's rate unless a rate
\* moved while the router was asking again (relay.go).
QuotesWeighed ==
  routing.at = "given" =>
    LET best == routing.best IN
    /\ best.rate > 0 /\ routing.buy.rate > 0
    /\ setup.enabled => routing.direction \in setup.serves[best.source]
    /\ ~setup.enabled => best.source = setup.default
    /\ ~shifted => IF routing.direction = "on_ramp"
                   THEN (routing.sell.rate - best.rate) * 100 >= -(MaxLoss * best.rate)
                   ELSE (best.rate - routing.buy.rate) * 100 >= -(MaxLoss * routing.buy.rate)

\* Of the orders opened for a loan the treasury paid one at most, the one the caller
\* was told of, and it is not cancelled: but for a transfer that landed and was
\* reported as failed (offramp_fonbnk.go).
OrdersPaidOnce ==
  /\ \A j, k \in landed : j # k => j \in misread \/ k \in misread
  /\ \A k \in landed : orders[k] = "cancelled" => k \in misread
  /\ heard = "done" => landed # {}
  /\ heard = "error" /\ till = Away => landed \subseteq misread

RelaySound == QuotesWeighed /\ OrdersPaidOnce
=============================================================================
