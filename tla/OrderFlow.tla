----------------------------- MODULE OrderFlow ------------------------------
(***************************************************************************)
(* The order path end to end: the trade engine's loop around one slot's    *)
(* order manager, the two queues it shares with the gateway thread, the    *)
(* gateway, its TCP session, and the exchange (external).                  *)
(*                                                                         *)
(* The strategy cancels a whole order unless PartialCancels.               *)
(***************************************************************************)
EXTENDS OrderManager

CONSTANTS
    ResponseCapacity,   \* capacity of the response queue
    MaxClosings,        \* times the market data may lose synchronization
    PartialCancels      \* the strategy may cancel part of an order

ASSUME FlowAssumption ==
    ResponseCapacity \in Nat \ {0} /\ MaxClosings \in Nat /\ PartialCancels \in BOOLEAN

VARIABLES
    engine,         \* where the engine is in its loop: "gate", "responses" or "market"
    gate,           \* market_data_synchronized, which the engine polls
    closings,       \* times the gate has closed
    to_exchange,    \* the TCP session, outbound
    from_exchange,  \* the TCP session, inbound
    responses,      \* the response queue to the engine
    open,           \* orders working at the exchange, by token
    executed,       \* the position the exchange has given the client, by ticker
    tokens,         \* tokens the exchange has received, in order
    lost            \* a response was dropped at a full queue

engineVars == <<engine, gate, closings>>
exchangeVars == <<open, executed, tokens>>
flowVars == <<omVars, requests, engineVars, to_exchange, from_exchange, responses, exchangeVars, lost>>

-----------------------------------------------------------------------------
(***************************************************************************)
(* TradeEngine::run: poll the gate, drain the responses, then the market   *)
(* updates, each of which may make the strategy send.                      *)
(***************************************************************************)
EngineEnters ==
    /\ engine = "gate" /\ gate
    /\ engine' = "responses"
    /\ UNCHANGED <<omVars, requests, gate, closings, to_exchange, from_exchange, responses, exchangeVars, lost>>

drainResponses ==
    /\ engine = "responses"
    /\ IF responses = << >>
       THEN engine' = "market" /\ UNCHANGED <<omVars, responses>>
       ELSE onOrderResponse(Head(responses)) /\ responses' = Tail(responses) /\ UNCHANGED engine
    /\ UNCHANGED <<requests, gate, closings, to_exchange, from_exchange, exchangeVars, lost>>

EngineFinishes ==
    /\ engine = "market"
    /\ engine' = "gate"
    /\ UNCHANGED <<omVars, requests, gate, closings, to_exchange, from_exchange, responses, exchangeVars, lost>>

CancelQuantities(o) == IF PartialCancels THEN Quantities ELSE {o.qty}

processSlotUpdate ==
    /\ engine = "market"
    /\ \/ StrategySendsNew
       \/ \E i \in DOMAIN orders : \E qty \in CancelQuantities(orders[i]) : sendCancel(i, qty)
       \/ StrategySendsReplace
    /\ UNCHANGED <<engineVars, to_exchange, from_exchange, responses, exchangeVars, lost>>

\* The market data consumer closes and reopens the gate.
GateCloses ==
    /\ gate /\ closings < MaxClosings
    /\ gate' = FALSE /\ closings' = closings + 1
    /\ UNCHANGED <<omVars, requests, engine, to_exchange, from_exchange, responses, exchangeVars, lost>>

GateOpens ==
    /\ ~gate /\ gate' = TRUE
    /\ UNCHANGED <<omVars, requests, engine, closings, to_exchange, from_exchange, responses, exchangeVars, lost>>

-----------------------------------------------------------------------------
(***************************************************************************)
(* OrderGateway::run and recvCallback                                      *)
(***************************************************************************)
GatewaySends ==
    /\ requests # << >>
    /\ requests' = Tail(requests) /\ to_exchange' = Append(to_exchange, Head(requests))
    /\ UNCHANGED <<omVars, engineVars, from_exchange, responses, exchangeVars, lost>>

\* A response that finds the queue full is dropped.
recvCallback ==
    /\ from_exchange # << >>
    /\ from_exchange' = Tail(from_exchange)
    /\ IF Len(responses) < ResponseCapacity
       THEN responses' = Append(responses, Head(from_exchange)) /\ UNCHANGED lost
       ELSE lost' = TRUE /\ UNCHANGED responses
    /\ UNCHANGED <<omVars, requests, engineVars, to_exchange, exchangeVars>>

-----------------------------------------------------------------------------
(***************************************************************************)
(* The exchange (external): what the gateway sends and what it decodes.    *)
(***************************************************************************)
Working(req) == [ticker |-> req.ticker, side |-> req.side, qty |-> req.qty, ioc |-> req.ioc]

Without(f, id) == [other \in DOMAIN f \ {id} |-> f[other]]

With(f, id, value) == [other \in DOMAIN f \cup {id} |-> IF other = id THEN value ELSE f[other]]

Reply(r) == from_exchange' = Append(from_exchange, r)

\* What is left of an order after qty of it is gone.
Reduced(id, qty) ==
    IF open[id].qty = qty THEN Without(open, id) ELSE [open EXCEPT ![id].qty = @ - qty]

ExchangeEnters(req) ==
    /\ req.type = "NEW"
    /\ open' = With(open, req.id, Working(req))
    /\ tokens' = Append(tokens, req.id)
    /\ Reply(Response("ACCEPTED", req.id, 0, TRUE))

ExchangeCancels(req) ==
    /\ req.type = "CANCEL" /\ req.id \in DOMAIN open
    /\ LET canceled == IF req.qty < open[req.id].qty THEN req.qty ELSE open[req.id].qty
       IN  /\ open' = Reduced(req.id, canceled)
           /\ Reply(Response("CANCELED", req.id, canceled, TRUE))
    /\ UNCHANGED tokens

ExchangeRefusesCancel(req) ==
    /\ req.type = "CANCEL" /\ req.id \notin DOMAIN open
    /\ Reply(Response("CANCEL_REJECTED", req.id, 0, TRUE))
    /\ UNCHANGED <<open, tokens>>

\* The replacement works for its own quantity; the gateway decodes the
\* confirmation as an acceptance of the new token.
ExchangeReplaces(req) ==
    /\ req.type = "REPLACE" /\ req.id \in DOMAIN open
    /\ open' = With(Without(open, req.id), req.new_id, Working(req))
    /\ tokens' = Append(tokens, req.new_id)
    /\ Reply(Response("ACCEPTED", req.new_id, 0, TRUE))

\* Nothing to replace: the request is ignored.
ExchangeIgnoresReplace(req) ==
    /\ req.type = "REPLACE" /\ req.id \notin DOMAIN open
    /\ UNCHANGED <<open, tokens, from_exchange>>

ExchangeReceives ==
    /\ to_exchange # << >>
    /\ to_exchange' = Tail(to_exchange)
    /\ LET req == Head(to_exchange)
       IN  \/ ExchangeEnters(req) \/ ExchangeCancels(req) \/ ExchangeRefusesCancel(req)
           \/ ExchangeReplaces(req) \/ ExchangeIgnoresReplace(req)
    /\ UNCHANGED <<omVars, requests, engineVars, responses, executed, lost>>

ExchangeExecutes(id, qty) ==
    /\ open' = Reduced(id, qty)
    /\ executed' = [executed EXCEPT ![open[id].ticker] = @ + Signed(open[id].side, qty)]
    /\ Reply(Response("EXECUTED", id, qty, TRUE))
    /\ UNCHANGED <<omVars, requests, engineVars, to_exchange, responses, tokens, lost>>

\* What an IOC order does not fill at once is canceled.
ExchangeExpires(id) ==
    /\ open[id].ioc
    /\ open' = Without(open, id)
    /\ Reply(Response("CANCELED", id, open[id].qty, TRUE))
    /\ UNCHANGED <<omVars, requests, engineVars, to_exchange, responses, executed, tokens, lost>>

ExchangeMatches ==
    \E id \in DOMAIN open :
        ExchangeExpires(id) \/ \E qty \in 1..open[id].qty : ExchangeExecutes(id, qty)

-----------------------------------------------------------------------------
FlowInit ==
    /\ Init
    /\ engine = "gate" /\ gate = TRUE /\ closings = 0
    /\ to_exchange = << >> /\ from_exchange = << >> /\ responses = << >>
    /\ open = [id \in {} |-> 0]
    /\ executed = [t \in Tickers |-> 0]
    /\ tokens = << >>
    /\ lost = FALSE

EngineLoop == EngineEnters \/ drainResponses \/ EngineFinishes

FlowNext ==
    \/ EngineLoop \/ processSlotUpdate
    \/ GateCloses \/ GateOpens
    \/ GatewaySends \/ recvCallback
    \/ ExchangeReceives \/ ExchangeMatches

FlowSpec == FlowInit /\ [][FlowNext]_flowVars

\* The engine and gateway threads loop for ever, the session is TCP, and the
\* exchange (external) answers and finishes an IOC order.  Nothing makes a closed
\* gate open again: a recovery may never end.
FairFlowSpec ==
    /\ FlowSpec
    /\ WF_flowVars(EngineLoop)
    /\ WF_flowVars(GatewaySends)
    /\ WF_flowVars(recvCallback)
    /\ WF_flowVars(ExchangeReceives)
    /\ WF_flowVars(ExchangeMatches)

-----------------------------------------------------------------------------
(***************************************************************************)
(* Properties                                                              *)
(***************************************************************************)

\* The type invariant of the queues, the session and the exchange.
FlowTypeOK ==
    /\ TypeOK
    /\ engine \in {"gate", "responses", "market"} /\ gate \in BOOLEAN /\ closings \in 0..MaxClosings
    /\ Len(responses) <= ResponseCapacity
    /\ \A id \in DOMAIN open : open[id].qty \in Nat \ {0}
    /\ executed \in [Tickers -> Int]
    /\ lost \in BOOLEAN

\* Quantity the client has asked for on one side that can still execute: working
\* at the exchange, or in a NEW request on its way there.
Outstanding(t, side) ==
    LET unsent == requests \o to_exchange
        news == {i \in DOMAIN unsent : unsent[i].type = "NEW" /\ unsent[i].ticker = t /\ unsent[i].side = side}
        working == {id \in DOMAIN open : open[id].ticker = t /\ open[id].side = side}
    IN  SumFunctionOnSet([i \in DOMAIN unsent |-> unsent[i].qty], news)
          + SumFunctionOnSet([id \in DOMAIN open |-> open[id].qty], working)

\* What the exchange has executed and may still execute is always inside what
\* the risk manager counts (position and reservations), even when responses are
\* late or dropped at a full queue: the risk check never works on too little.
ExposureCoversExchange ==
    \A t \in Tickers :
        /\ executed[t] + Outstanding(t, "BUY") <= net_qty[t] + Reserved(t, "BUY")
        /\ executed[t] - Outstanding(t, "SELL") >= net_qty[t] - Reserved(t, "SELL")

\* Once every response has been delivered and none was dropped, the PnL
\* tracker's position is the exchange's: onOrderResponse never refuses a fill
\* that happened, a fill that races a cancel included.
PositionAgrees ==
    from_exchange = << >> /\ responses = << >> /\ ~lost => net_qty = executed

\* No token is ever sent twice, in a NEW or as the replacement of a REPLACE: the
\* allocator consumes an id even when the request is refused.
TokensUnique ==
    LET unsent == requests \o to_exchange
        token(i) == IF unsent[i].type = "NEW" THEN unsent[i].id ELSE unsent[i].new_id
        fresh == {i \in DOMAIN unsent : unsent[i].type # "CANCEL"}
    IN  /\ IsInjective(tokens)
        /\ \A i, j \in fresh : token(i) = token(j) => i = j
        /\ \A i \in fresh : token(i) \notin Range(tokens)

\* If the gate is open from some point on, every IOC order is finished in the end
\* unless a response was dropped: what the exchange sent while the gate was closed,
\* when TradeEngine::run drains nothing, is applied afterwards.
OrdersSettle ==
    \A id \in 1..MaxId :
        LET working == \E i \in DOMAIN orders : orders[i].id = id /\ orders[i].state \in Live
        IN  <>[]gate => (working ~> (~working \/ lost))

\* README.md:474 says that a strategy cannot issue orders inside one round trip
\* that exceed its limits: the position at the exchange stays within max_abs_position.
PositionWithinLimit == \A t \in Tickers : executed[t] \in -max_abs_position..max_abs_position

=============================================================================
