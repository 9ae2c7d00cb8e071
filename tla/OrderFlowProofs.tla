--------------------------- MODULE OrderFlowProofs --------------------------
(***************************************************************************)
(* Proofs about the order path end to end, for every capacity and limit    *)
(* and every interleaving of the engine, the gateway and the exchange.     *)
(***************************************************************************)
EXTENDS OrderFlow, OrderLedgerProofs

-----------------------------------------------------------------------------
(***************************************************************************)
(* Types                                                                   *)
(***************************************************************************)

\* sendReplace does not look at the quantity, so only a strategy that never asks
\* for a replacement of nothing keeps empty orders from the exchange.
NoZeroReplace == UsesReplace => 0 \notin Quantities

Sizes == {n \in Nat : NoZeroReplace => n # 0}

OpenType == [ticker : Tickers, side : Sides, qty : Sizes, ioc : BOOLEAN]

\* A request that opens or replaces an order asks for something.
Positive(q) == \A i \in DOMAIN q : q[i].type # "CANCEL" => q[i].qty \in Sizes

\* FlowTypeOK, and the types of the messages under way and of the exchange's orders.
FlowTypes ==
    /\ TypeOK
    /\ engine \in {"gate", "responses", "market"} /\ gate \in BOOLEAN /\ closings \in 0..MaxClosings
    /\ Len(responses) <= ResponseCapacity
    /\ executed \in [Tickers -> Int]
    /\ lost \in BOOLEAN
    /\ to_exchange \in Seq(RequestType)
    /\ responses \in Seq(ResponseType) /\ from_exchange \in Seq(ResponseType)
    /\ open \in [DOMAIN open -> OpenType] /\ DOMAIN open \subseteq Nat
    /\ Positive(requests) /\ Positive(to_exchange)

\* The id a NEW or a REPLACE introduces.
Token(req) == IF req.type = "NEW" THEN req.id ELSE req.new_id

LEMMA SeqAppend ==
    ASSUME NEW S, NEW s \in Seq(S), NEW x \in S
    PROVE  /\ Append(s, x) \in Seq(S) /\ Len(Append(s, x)) = Len(s) + 1
           /\ Append(s, x)[Len(s) + 1] = x
           /\ \A i \in 1..Len(s) : Append(s, x)[i] = s[i]
OBVIOUS

LEMMA SeqShift ==
    ASSUME NEW S, NEW s \in Seq(S), s # << >>
    PROVE  /\ Tail(s) \in Seq(S) /\ Len(s) \in Nat \ {0} /\ Len(Tail(s)) = Len(s) - 1
           /\ Head(s) = s[1] /\ Head(s) \in S
           /\ \A i \in 1..Len(Tail(s)) : Tail(s)[i] = s[i + 1]
OBVIOUS

LEMMA PositiveAppend ==
    ASSUME NEW q \in Seq(RequestType), Positive(q), NEW req \in RequestType,
           req.type # "CANCEL" => req.qty \in Sizes
    PROVE  Positive(Append(q, req))
BY SeqAppend DEF Positive

LEMMA PositiveTail ==
    ASSUME NEW q \in Seq(RequestType), Positive(q), q # << >>
    PROVE  Positive(Tail(q)) /\ (Head(q).type # "CANCEL" => Head(q).qty \in Sizes)
BY SeqShift DEF Positive

\* What the engine's step on a market update does to the request queue: it pushes
\* at most one request, and an id that a request introduces is the allocator's next.
Pushes ==
    \/ UNCHANGED requests /\ counter' \in {counter, counter + 1}
    \/ \E req \in RequestType :
         /\ requests' = Append(requests, req)
         /\ req.type = "CANCEL" => counter' = counter
         /\ req.type # "CANCEL" => Token(req) = counter /\ counter' = counter + 1 /\ req.qty \in Sizes
         /\ req.type = "REPLACE" => UsesReplace

LEMMA SlotTypes ==
    ASSUME TypeOK, processSlotUpdate
    PROVE  TypeOK' /\ Pushes
<1> USE DEF TypeOK
<1>1. ASSUME NEW t \in Tickers, NEW side \in Sides, NEW qty \in Quantities, NEW price \in Prices,
             NEW ioc \in TimesInForce, sendNewOrder(t, side, qty, price, ioc)
      PROVE  TypeOK' /\ Pushes
    <2> DEFINE req == Request("NEW", counter, 0, t, side, qty, ioc)
    <2>1. req \in RequestType /\ req.type = "NEW" /\ Token(req) = counter
        BY QuantitiesAssumption, PricesAssumption DEF Request, RequestType, Token
    <2>2. counter' = counter + 1
        BY <1>1 DEF sendNewOrder
    <2>3. UNCHANGED requests \/ (canSubmit(req, price) /\ requests' = Append(requests, req))
        BY <1>1 DEF sendNewOrder, push
    <2>4. TypeOK'
        BY <1>1, NewOrderType
    <2> HIDE DEF req
    <2> QED
        BY <2>1, <2>2, <2>3, <2>4 DEF Pushes, canSubmit, Sizes, RequestType
<1>2. ASSUME NEW i \in DOMAIN orders, NEW qty \in CancelQuantities(orders[i]), sendCancel(i, qty)
      PROVE  TypeOK' /\ Pushes
    <2> DEFINE req == Request("CANCEL", orders[i].id, 0, orders[i].ticker, orders[i].side, qty, orders[i].ioc)
    <2>1. orders[i] \in OrderType
        OBVIOUS
    <2>2. qty \in Nat
        BY <2>1, QuantitiesAssumption DEF CancelQuantities, OrderType
    <2>3. req \in RequestType /\ req.type = "CANCEL"
        BY <2>1, <2>2 DEF Request, RequestType, OrderType
    <2>4. requests' = Append(requests, req) /\ counter' = counter
        BY <1>2 DEF sendCancel, push
    <2>5. TypeOK'
        BY <1>2, <2>2, CancelType
    <2> HIDE DEF req
    <2> QED
        BY <2>3, <2>4, <2>5 DEF Pushes
<1>3. ASSUME UsesReplace, NEW i \in DOMAIN orders, NEW qty \in Quantities, sendReplace(i, qty)
      PROVE  TypeOK' /\ Pushes
    <2> DEFINE req == Request("REPLACE", orders[i].id, counter, orders[i].ticker, orders[i].side, qty, orders[i].ioc)
    <2>1. orders[i] \in OrderType
        OBVIOUS
    <2>2. qty \in Nat /\ qty \in Sizes
        BY <1>3, QuantitiesAssumption DEF NoZeroReplace, Sizes
    <2>3. req \in RequestType /\ req.type = "REPLACE" /\ Token(req) = counter /\ req.qty \in Sizes
        BY <2>1, <2>2 DEF Request, RequestType, OrderType, Token
    <2>4. counter' = counter + 1 /\ (UNCHANGED requests \/ requests' = Append(requests, req))
        BY <1>3 DEF sendReplace, push
    <2>5. TypeOK'
        BY <1>3, ReplaceType
    <2> HIDE DEF req
    <2> QED
        BY <1>3, <2>3, <2>4, <2>5 DEF Pushes
<1> QED
    BY <1>1, <1>2, <1>3 DEF processSlotUpdate, StrategySendsNew, StrategySendsReplace

LEMMA FlowTypesStart == FlowInit => FlowTypes
<1> SUFFICES ASSUME FlowInit PROVE FlowTypes
    OBVIOUS
<1>1. TypeOK
    BY InitTypes DEF FlowInit
<1>2. closings \in 0..MaxClosings
    BY FlowAssumption DEF FlowInit
<1>5. engine = "gate" /\ gate \in BOOLEAN /\ lost \in BOOLEAN
    BY Zenon DEF FlowInit
<1>3. /\ responses \in Seq(ResponseType) /\ from_exchange \in Seq(ResponseType) /\ to_exchange \in Seq(RequestType)
      /\ Len(responses) <= ResponseCapacity /\ Positive(requests) /\ Positive(to_exchange)
    BY FlowAssumption DEF FlowInit, Init, Positive
<1>4. open \in [DOMAIN open -> OpenType] /\ DOMAIN open = {} /\ executed \in [Tickers -> Int]
    BY DEF FlowInit
<1> QED
    BY <1>1, <1>2, <1>3, <1>4, <1>5 DEF FlowTypes

\* The engine's and the consumer's steps that move no message.
LEMMA QuietTypes ==
    ASSUME FlowTypes, EngineEnters \/ EngineFinishes \/ GateCloses \/ GateOpens
    PROVE  FlowTypes'
<1>1. /\ UNCHANGED <<omVars, requests, to_exchange, from_exchange, responses, exchangeVars, lost>>
      /\ engine' \in {"gate", "responses", "market"} /\ gate' \in BOOLEAN /\ closings' \in 0..MaxClosings
    <2>1. engine \in {"gate", "responses", "market"} /\ gate \in BOOLEAN /\ closings \in 0..MaxClosings
        BY DEF FlowTypes
    <2>2. CASE EngineEnters
        BY <2>1, <2>2, Zenon DEF EngineEnters
    <2>3. CASE EngineFinishes
        BY <2>1, <2>3, Zenon DEF EngineFinishes
    <2>4. CASE GateCloses
        <3>1. closings' \in 0..MaxClosings
            BY <2>1, <2>4, FlowAssumption DEF GateCloses
        <3> QED
            BY <2>1, <2>4, <3>1, Zenon DEF GateCloses
    <2>5. CASE GateOpens
        BY <2>1, <2>5, Zenon DEF GateOpens
    <2> QED
        BY <2>2, <2>3, <2>4, <2>5
<1>2. TypeOK'
    BY <1>1 DEF FlowTypes, TypeOK, omVars
<1> QED
    BY <1>1, <1>2 DEF FlowTypes, exchangeVars

LEMMA DrainTypes ==
    ASSUME FlowTypes, drainResponses
    PROVE  FlowTypes'
<1>1. /\ UNCHANGED <<requests, gate, closings, to_exchange, from_exchange, exchangeVars, lost>>
      /\ engine' \in {"gate", "responses", "market"}
    BY DEF FlowTypes, drainResponses
<1>2. TypeOK' /\ responses' \in Seq(ResponseType) /\ Len(responses') <= ResponseCapacity
    <2>1. CASE responses = << >>
        BY <1>1, <2>1 DEF FlowTypes, TypeOK, drainResponses, omVars
    <2>2. CASE responses # << >>
        <3>1. Head(responses) \in ResponseType /\ responses' = Tail(responses) /\ onOrderResponse(Head(responses))
            BY <2>2, SeqShift DEF FlowTypes, drainResponses
        <3>2. TypeOK'
            BY <1>1, <3>1, ResponseStep DEF FlowTypes
        <3>3. responses' \in Seq(ResponseType) /\ Len(responses') <= Len(responses)
            BY <2>2, <3>1, SeqTail DEF FlowTypes
        <3> QED
            BY <3>2, <3>3, FlowAssumption DEF FlowTypes
    <2> QED
        BY <2>1, <2>2
<1> QED
    BY <1>1, <1>2 DEF FlowTypes, exchangeVars

LEMMA SlotFlowTypes ==
    ASSUME FlowTypes, processSlotUpdate
    PROVE  FlowTypes'
<1>1. TypeOK' /\ Pushes
    BY SlotTypes DEF FlowTypes
<1>2. Positive(requests')
    BY <1>1, PositiveAppend DEF Pushes, FlowTypes, TypeOK
<1> QED
    BY <1>1, <1>2 DEF processSlotUpdate, FlowTypes, engineVars, exchangeVars

LEMMA GatewayTypes ==
    ASSUME FlowTypes, GatewaySends \/ recvCallback
    PROVE  FlowTypes'
<1>1. CASE GatewaySends
    <2>1. /\ requests' = Tail(requests) /\ to_exchange' = Append(to_exchange, Head(requests)) /\ requests # << >>
          /\ UNCHANGED <<omVars, engineVars, from_exchange, responses, exchangeVars, lost>>
        BY <1>1 DEF GatewaySends
    <2>2. /\ requests \in Seq(RequestType) /\ Len(requests) <= QueueCapacity
          /\ Positive(requests) /\ Positive(to_exchange) /\ to_exchange \in Seq(RequestType)
        BY DEF FlowTypes, TypeOK
    <2>3. /\ requests' \in Seq(RequestType) /\ Len(requests') <= QueueCapacity /\ Head(requests) \in RequestType
          /\ Positive(requests')
        BY <2>1, <2>2, SeqShift, PositiveTail, CapacitiesAssumption
    <2>4. to_exchange' \in Seq(RequestType) /\ Positive(to_exchange')
        BY <2>1, <2>2, <2>3, SeqAppend, PositiveAppend, PositiveTail
    <2>5. TypeOK'
        BY <2>1, <2>3 DEF FlowTypes, TypeOK, omVars
    <2> QED
        BY <2>1, <2>3, <2>4, <2>5 DEF FlowTypes, engineVars, exchangeVars
<1>2. CASE recvCallback
    <2>1. /\ from_exchange' = Tail(from_exchange) /\ from_exchange # << >>
          /\ UNCHANGED <<omVars, requests, engineVars, to_exchange, exchangeVars>>
        BY <1>2 DEF recvCallback
    <2>2. from_exchange' \in Seq(ResponseType) /\ Head(from_exchange) \in ResponseType
        BY <2>1, SeqShift DEF FlowTypes
    <2>3. responses' \in Seq(ResponseType) /\ Len(responses') <= ResponseCapacity /\ lost' \in BOOLEAN
        <3>1. responses \in Seq(ResponseType) /\ Len(responses) <= ResponseCapacity /\ lost \in BOOLEAN
            BY DEF FlowTypes
        <3>2. CASE Len(responses) < ResponseCapacity
            <4>1. responses' = Append(responses, Head(from_exchange)) /\ lost' = lost
                BY <1>2, <3>2, Zenon DEF recvCallback
            <4>2. responses' \in Seq(ResponseType) /\ Len(responses') <= ResponseCapacity
                BY <2>2, <3>1, <3>2, <4>1, FlowAssumption
            <4> QED
                BY <3>1, <4>1, <4>2
        <3>3. CASE ~(Len(responses) < ResponseCapacity)
            BY <1>2, <3>1, <3>3, Zenon DEF recvCallback
        <3> QED
            BY <3>2, <3>3
    <2>4. TypeOK'
        BY <2>1 DEF FlowTypes, TypeOK, omVars
    <2> QED
        BY <2>1, <2>2, <2>3, <2>4 DEF FlowTypes, engineVars, exchangeVars
<1> QED
    BY <1>1, <1>2

\* The exchange's book of the client's orders, after each thing it does to it.
IsBook(f) == f \in [DOMAIN f -> OpenType] /\ DOMAIN f \subseteq Nat

LEMMA WithoutType == ASSUME IsBook(open), NEW id PROVE IsBook(Without(open, id))
BY DEF IsBook, Without

LEMMA WithType ==
    ASSUME NEW f, IsBook(f), NEW id \in Nat, NEW req \in RequestType, req.qty \in Sizes
    PROVE  IsBook(With(f, id, Working(req)))
<1>1. Working(req) \in OpenType
    BY DEF Working, OpenType, RequestType
<1> QED
    BY <1>1 DEF IsBook, With

LEMMA ReducedType ==
    ASSUME IsBook(open), NEW id \in DOMAIN open, NEW qty \in Nat, qty <= open[id].qty
    PROVE  IsBook(Reduced(id, qty))
<1>1. CASE open[id].qty = qty
    BY <1>1, WithoutType DEF Reduced
<1>2. CASE open[id].qty # qty
    <2>1. open[id] \in OpenType
        BY DEF IsBook
    <2>2. open[id].qty \in Nat /\ open[id].qty - qty \in Sizes
        BY <1>2, <2>1 DEF OpenType, Sizes
    <2>3. [open[id] EXCEPT !.qty = @ - qty] \in OpenType
        BY <2>1, <2>2 DEF OpenType
    <2>4. Reduced(id, qty) = [open EXCEPT ![id] = [open[id] EXCEPT !.qty = @ - qty]]
        BY <1>2 DEF Reduced, IsBook
    <2> QED
        BY <2>3, <2>4 DEF IsBook
<1> QED
    BY <1>1, <1>2

LEMMA ReplyTypes ==
    ASSUME from_exchange \in Seq(ResponseType), NEW status \in Statuses, NEW id \in Nat, NEW qty \in Nat,
           Reply(Response(status, id, qty, TRUE))
    PROVE  from_exchange' \in Seq(ResponseType)
<1>1. Response(status, id, qty, TRUE) \in ResponseType
    BY DEF Response, ResponseType
<1> QED
    BY <1>1, SeqAppend DEF Reply

LEMMA ReceiveTypes ==
    ASSUME FlowTypes, ExchangeReceives
    PROVE  FlowTypes'
<1> DEFINE req == Head(to_exchange)
<1>1. /\ to_exchange # << >> /\ to_exchange' = Tail(to_exchange)
      /\ UNCHANGED <<omVars, requests, engineVars, responses, executed, lost>>
      /\ \/ ExchangeEnters(req) \/ ExchangeCancels(req) \/ ExchangeRefusesCancel(req)
         \/ ExchangeReplaces(req) \/ ExchangeIgnoresReplace(req)
    BY DEF ExchangeReceives
<1>2. /\ to_exchange' \in Seq(RequestType) /\ Positive(to_exchange')
      /\ req \in RequestType /\ (req.type # "CANCEL" => req.qty \in Sizes)
    BY <1>1, SeqShift, PositiveTail DEF FlowTypes
<1> HIDE DEF req
<1>3. req.id \in Nat /\ req.new_id \in Nat /\ req.qty \in Nat
    BY <1>2 DEF RequestType
<1>4. IsBook(open) /\ from_exchange \in Seq(ResponseType)
    BY DEF FlowTypes, IsBook
<1>5. IsBook(open') /\ from_exchange' \in Seq(ResponseType)
    <2> USE DEF Statuses
    <2>1. CASE ExchangeEnters(req)
        <3>1. open' = With(open, req.id, Working(req)) /\ Reply(Response("ACCEPTED", req.id, 0, TRUE)) /\ req.qty \in Sizes
            BY <1>2, <2>1 DEF ExchangeEnters
        <3> QED
            BY <1>2, <1>3, <1>4, <3>1, WithType, ReplyTypes
    <2>2. CASE ExchangeCancels(req)
        <3> DEFINE canceled == IF req.qty < open[req.id].qty THEN req.qty ELSE open[req.id].qty
        <3>1. /\ req.id \in DOMAIN open /\ open' = Reduced(req.id, canceled)
              /\ Reply(Response("CANCELED", req.id, canceled, TRUE))
            BY <2>2 DEF ExchangeCancels
        <3>2. canceled \in Nat /\ canceled <= open[req.id].qty
            BY <1>3, <1>4, <3>1 DEF IsBook, OpenType, Sizes
        <3> HIDE DEF canceled
        <3> QED
            BY <1>3, <1>4, <3>1, <3>2, ReducedType, ReplyTypes
    <2>3. CASE ExchangeRefusesCancel(req)
        BY <1>3, <1>4, <2>3, ReplyTypes DEF ExchangeRefusesCancel
    <2>4. CASE ExchangeReplaces(req)
        <3>1. /\ open' = With(Without(open, req.id), req.new_id, Working(req)) /\ req.qty \in Sizes
              /\ Reply(Response("ACCEPTED", req.new_id, 0, TRUE))
            BY <1>2, <2>4 DEF ExchangeReplaces
        <3>2. IsBook(Without(open, req.id))
            BY <1>4, WithoutType
        <3> QED
            BY <1>2, <1>3, <1>4, <3>1, <3>2, WithType, ReplyTypes
    <2>5. CASE ExchangeIgnoresReplace(req)
        BY <1>4, <2>5 DEF ExchangeIgnoresReplace
    <2> QED
        BY <1>1, <2>1, <2>2, <2>3, <2>4, <2>5
<1>6. TypeOK'
    BY <1>1 DEF FlowTypes, TypeOK, omVars
<1> QED
    BY <1>1, <1>2, <1>5, <1>6 DEF FlowTypes, IsBook, engineVars

LEMMA MatchTypes ==
    ASSUME FlowTypes, ExchangeMatches
    PROVE  FlowTypes'
<1> USE DEF Statuses
<1>1. PICK id \in DOMAIN open : ExchangeExpires(id) \/ \E qty \in 1..open[id].qty : ExchangeExecutes(id, qty)
    BY DEF ExchangeMatches
<1>2. /\ IsBook(open) /\ from_exchange \in Seq(ResponseType) /\ executed \in [Tickers -> Int]
      /\ id \in Nat /\ open[id] \in OpenType /\ open[id].qty \in Nat
    BY DEF FlowTypes, IsBook, OpenType, Sizes
<1>3. /\ IsBook(open') /\ from_exchange' \in Seq(ResponseType) /\ executed' \in [Tickers -> Int]
      /\ UNCHANGED <<omVars, requests, engineVars, to_exchange, responses, tokens, lost>>
    <2>1. CASE ExchangeExpires(id)
        BY <1>2, <2>1, WithoutType, ReplyTypes DEF ExchangeExpires
    <2>2. ASSUME NEW qty \in 1..open[id].qty, ExchangeExecutes(id, qty)
          PROVE  /\ IsBook(open') /\ from_exchange' \in Seq(ResponseType) /\ executed' \in [Tickers -> Int]
                 /\ UNCHANGED <<omVars, requests, engineVars, to_exchange, responses, tokens, lost>>
        <3>1. qty \in Nat /\ qty <= open[id].qty
            BY <1>2
        <3>2. /\ open' = Reduced(id, qty) /\ Reply(Response("EXECUTED", id, qty, TRUE))
              /\ executed' = [executed EXCEPT ![open[id].ticker] = @ + Signed(open[id].side, qty)]
              /\ UNCHANGED <<omVars, requests, engineVars, to_exchange, responses, tokens, lost>>
            BY <2>2 DEF ExchangeExecutes
        <3>3. Signed(open[id].side, qty) \in Int /\ open[id].ticker \in Tickers
            BY <1>2, <3>1 DEF Signed, OpenType
        <3>4. executed' \in [Tickers -> Int]
            BY <1>2, <3>2, <3>3
        <3> QED
            BY <1>2, <3>1, <3>2, <3>4, ReducedType, ReplyTypes
    <2> QED
        BY <1>1, <2>1, <2>2
<1>4. TypeOK'
    BY <1>3 DEF FlowTypes, TypeOK, omVars
<1> QED
    BY <1>3, <1>4 DEF FlowTypes, IsBook, engineVars

LEMMA FlowTypesStep == FlowTypes /\ [FlowNext]_flowVars => FlowTypes'
<1> SUFFICES ASSUME FlowTypes, [FlowNext]_flowVars PROVE FlowTypes'
    OBVIOUS
<1>1. CASE UNCHANGED flowVars
    <2>1. TypeOK'
        BY <1>1 DEF FlowTypes, TypeOK, flowVars, omVars
    <2> QED
        BY <1>1, <2>1 DEF FlowTypes, flowVars, engineVars, exchangeVars
<1>2. CASE FlowNext
    BY <1>2, QuietTypes, DrainTypes, SlotFlowTypes, GatewayTypes, ReceiveTypes, MatchTypes DEF FlowNext, EngineLoop
<1> QED
    BY <1>1, <1>2

\* The queues stay within their capacities and an order working at the exchange
\* has something left, whatever the interleaving: the flow of requests through
\* sendNewOrder, the gateway and the exchange keeps its types.
THEOREM FlowIsTyped == ASSUME NoZeroReplace PROVE FlowSpec => []FlowTypeOK
<1>1. FlowTypes => FlowTypeOK
    BY DEF FlowTypes, FlowTypeOK, OpenType, Sizes
<1> QED
    BY <1>1, FlowTypesStart, FlowTypesStep, PTL DEF FlowSpec

-----------------------------------------------------------------------------
(***************************************************************************)
(* Ids                                                                     *)
(***************************************************************************)
\* The requests of a queue that introduce an id, and the ids they introduce.
Fresh(q) == {i \in DOMAIN q : q[i].type # "CANCEL"}

Introduced(q) == {Token(q[i]) : i \in Fresh(q)}

Distinct(q) == \A i, j \in Fresh(q) : Token(q[i]) = Token(q[j]) => i = j

\* The inductive form of TokensUnique: an id is in one place only, once, and was
\* handed out by the allocator.
TokensInv ==
    /\ FlowTypes
    /\ tokens \in Seq(Nat) /\ IsInjective(tokens)
    /\ Distinct(requests) /\ Distinct(to_exchange)
    /\ Introduced(requests) \cap Introduced(to_exchange) = {}
    /\ (Introduced(requests) \cup Introduced(to_exchange)) \cap Range(tokens) = {}
    /\ \A id \in Introduced(requests) \cup Introduced(to_exchange) \cup Range(tokens) : id < counter

LEMMA TokenType == ASSUME NEW req \in RequestType PROVE Token(req) \in Nat
BY DEF Token, RequestType

LEMMA DistinctAppend ==
    ASSUME NEW q \in Seq(RequestType), NEW req \in RequestType, Distinct(q),
           req.type # "CANCEL" => Token(req) \notin Introduced(q)
    PROVE  /\ Distinct(Append(q, req))
           /\ Introduced(Append(q, req)) = Introduced(q) \cup (IF req.type = "CANCEL" THEN {} ELSE {Token(req)})
<1> DEFINE p == Append(q, req)
<1>1. /\ DOMAIN p = 1..(Len(q) + 1) /\ DOMAIN q = 1..Len(q) /\ Len(q) \in Nat
      /\ p[Len(q) + 1] = req /\ \A i \in DOMAIN q : p[i] = q[i]
    BY SeqAppend
<1>2. Fresh(p) = Fresh(q) \cup (IF req.type = "CANCEL" THEN {} ELSE {Len(q) + 1})
    BY <1>1 DEF Fresh
<1>3. Fresh(q) \subseteq DOMAIN q /\ Len(q) + 1 \notin DOMAIN q
    BY <1>1 DEF Fresh
<1> HIDE DEF p
<1>4. Introduced(p) = Introduced(q) \cup (IF req.type = "CANCEL" THEN {} ELSE {Token(req)})
    BY <1>1, <1>2, <1>3 DEF Introduced
<1>5. Distinct(p)
    <2> SUFFICES ASSUME NEW i \in Fresh(p), NEW j \in Fresh(p), Token(p[i]) = Token(p[j]) PROVE i = j
        BY DEF Distinct
    <2>1. CASE i \in Fresh(q) /\ j \in Fresh(q)
        BY <1>1, <1>3, <2>1 DEF Distinct
    <2>2. ASSUME NEW k \in Fresh(q) PROVE Token(p[k]) \in Introduced(q)
        BY <1>1, <1>3 DEF Introduced
    <2>3. CASE req.type = "CANCEL"
        BY <1>2, <2>1, <2>3
    <2>4. CASE req.type # "CANCEL"
        BY <1>1, <1>2, <2>1, <2>2, <2>4
    <2> QED
        BY <2>3, <2>4
<1> QED
    BY <1>4, <1>5 DEF p

LEMMA DistinctTail ==
    ASSUME NEW q \in Seq(RequestType), q # << >>, Distinct(q)
    PROVE  /\ Distinct(Tail(q)) /\ Introduced(Tail(q)) \subseteq Introduced(q)
           /\ Head(q).type # "CANCEL" => Token(Head(q)) \in Introduced(q) \ Introduced(Tail(q))
<1> DEFINE p == Tail(q)
<1>1. /\ Len(q) \in Nat \ {0} /\ DOMAIN q = 1..Len(q) /\ DOMAIN p = 1..(Len(q) - 1)
      /\ Head(q) = q[1] /\ \A i \in DOMAIN p : p[i] = q[i + 1]
    BY SeqShift
<1> HIDE DEF p
<1>2. \A i \in Fresh(p) : i \in Nat /\ i + 1 \in Fresh(q) /\ p[i] = q[i + 1] /\ i # 0
    BY <1>1 DEF Fresh
<1>3. Distinct(p) /\ Introduced(p) \subseteq Introduced(q)
    <2>1. ASSUME NEW i \in Fresh(p), NEW j \in Fresh(p), Token(p[i]) = Token(p[j]) PROVE i = j
        <3>1. i + 1 = j + 1
            BY <1>2, <2>1 DEF Distinct
        <3> QED
            BY <1>2, <3>1
    <2> QED
        BY <1>2, <2>1 DEF Distinct, Introduced
<1>4. ASSUME Head(q).type # "CANCEL" PROVE Token(Head(q)) \in Introduced(q) \ Introduced(p)
    <2>1. 1 \in Fresh(q)
        BY <1>1, <1>4 DEF Fresh
    <2>2. ASSUME NEW i \in Fresh(p), Token(p[i]) = Token(Head(q)) PROVE FALSE
        BY <1>1, <1>2, <2>1, <2>2 DEF Distinct
    <2> QED
        BY <1>1, <2>1, <2>2 DEF Introduced
<1> QED
    BY <1>3, <1>4 DEF p

\* The two queues in line, as TokensUnique looks at them.
LEMMA TokensFollow == TokensInv => TokensUnique
<1> SUFFICES ASSUME TokensInv PROVE TokensUnique
    OBVIOUS
<1> DEFINE unsent == requests \o to_exchange
           m == Len(requests)
           n == Len(to_exchange)
           token(i) == IF unsent[i].type = "NEW" THEN unsent[i].id ELSE unsent[i].new_id
           fresh == {i \in DOMAIN unsent : unsent[i].type # "CANCEL"}
<1>1. requests \in Seq(RequestType) /\ to_exchange \in Seq(RequestType)
    BY DEF TokensInv, FlowTypes, TypeOK
<1>2. /\ m \in Nat /\ n \in Nat /\ DOMAIN requests = 1..m /\ DOMAIN to_exchange = 1..n
      /\ DOMAIN unsent = 1..(m + n)
      /\ \A i \in 1..m : unsent[i] = requests[i]
      /\ \A i \in (m + 1)..(m + n) : unsent[i] = to_exchange[i - m]
    BY <1>1
<1>3. ASSUME NEW i \in fresh PROVE token(i) = Token(unsent[i]) /\ i \in 1..(m + n) /\ unsent[i].type # "CANCEL"
    BY <1>2 DEF Token
<1> HIDE DEF unsent, m, n
<1>4. ASSUME NEW i \in fresh, i <= m
      PROVE  i \in Fresh(requests) /\ token(i) = Token(requests[i]) /\ token(i) \in Introduced(requests)
    <2>1. i \in 1..m /\ unsent[i] = requests[i]
        BY <1>2, <1>3, <1>4
    <2> QED
        BY <1>2, <1>3, <2>1 DEF Fresh, Introduced
<1>5. ASSUME NEW i \in fresh, ~(i <= m)
      PROVE  /\ i - m \in Fresh(to_exchange) /\ token(i) = Token(to_exchange[i - m])
             /\ token(i) \in Introduced(to_exchange)
    <2>1. i \in (m + 1)..(m + n) /\ i - m \in 1..n /\ unsent[i] = to_exchange[i - m]
        BY <1>2, <1>3, <1>5
    <2> QED
        BY <1>2, <1>3, <2>1 DEF Fresh, Introduced
<1>6. ASSUME NEW i \in fresh, NEW j \in fresh, token(i) = token(j) PROVE i = j
    <2> HIDE DEF token, fresh
    <2>1. CASE i <= m /\ j <= m
        BY <1>4, <1>6, <2>1 DEF TokensInv, Distinct
    <2>2. CASE ~(i <= m) /\ ~(j <= m)
        <3>1. i - m = j - m
            BY <1>5, <1>6, <2>2 DEF TokensInv, Distinct
        <3> QED
            BY <1>2, <1>3, <3>1
    <2>3. CASE i <= m /\ ~(j <= m)
        BY <1>4, <1>5, <1>6, <2>3 DEF TokensInv
    <2>4. CASE ~(i <= m) /\ j <= m
        BY <1>4, <1>5, <1>6, <2>4 DEF TokensInv
    <2> QED
        BY <2>1, <2>2, <2>3, <2>4
<1>7. ASSUME NEW i \in fresh PROVE token(i) \notin Range(tokens)
    <2> HIDE DEF token, fresh
    <2> QED
        BY <1>4, <1>5, <1>7 DEF TokensInv
<1>8. IsInjective(tokens)
    BY DEF TokensInv
<1> QED
    BY <1>6, <1>7, <1>8 DEF TokensUnique, unsent

LEMMA SlotTokens ==
    ASSUME TokensInv, FlowTypes', processSlotUpdate
    PROVE  TokensInv'
<1>1. Pushes /\ UNCHANGED <<to_exchange, tokens>>
    BY SlotTypes DEF processSlotUpdate, TokensInv, FlowTypes, exchangeVars
<1>2. counter \in Nat /\ requests \in Seq(RequestType) /\ to_exchange \in Seq(RequestType) /\ tokens \in Seq(Nat)
    BY DEF TokensInv, FlowTypes, TypeOK
<1>3. Introduced(requests) \subseteq Nat /\ Introduced(to_exchange) \subseteq Nat /\ Range(tokens) \subseteq Nat
    BY <1>2, TokenType DEF Introduced, Fresh, Range
<1>4. CASE UNCHANGED requests /\ counter' \in {counter, counter + 1}
    BY <1>1, <1>2, <1>3, <1>4 DEF TokensInv
<1>5. ASSUME NEW req \in RequestType, requests' = Append(requests, req), req.type = "CANCEL", counter' = counter
      PROVE  TokensInv'
    <2>1. /\ Distinct(requests')
          /\ Introduced(requests') = Introduced(requests) \cup (IF req.type = "CANCEL" THEN {} ELSE {Token(req)})
        BY <1>2, <1>5, DistinctAppend, Zenon DEF TokensInv
    <2> QED
        BY <1>1, <1>5, <2>1 DEF TokensInv
<1>6. ASSUME NEW req \in RequestType, requests' = Append(requests, req), req.type # "CANCEL",
             Token(req) = counter, counter' = counter + 1
      PROVE  TokensInv'
    <2>1. counter \notin Introduced(requests) \cup Introduced(to_exchange) \cup Range(tokens)
        BY <1>2 DEF TokensInv
    <2>2. Distinct(requests') /\ Introduced(requests') = Introduced(requests) \cup {counter}
        BY <1>2, <1>6, <2>1, DistinctAppend DEF TokensInv
    <2>3. \A id \in Introduced(requests') \cup Introduced(to_exchange) \cup Range(tokens) : id < counter'
        BY <1>2, <1>3, <1>6, <2>2 DEF TokensInv
    <2> QED
        BY <1>1, <2>1, <2>2, <2>3 DEF TokensInv
<1> QED
    BY <1>1, <1>4, <1>5, <1>6 DEF Pushes

LEMMA GatewayTokens ==
    ASSUME TokensInv, FlowTypes', GatewaySends
    PROVE  TokensInv'
<1> DEFINE req == Head(requests)
<1>1. /\ requests # << >> /\ requests' = Tail(requests) /\ to_exchange' = Append(to_exchange, req)
      /\ UNCHANGED <<tokens, counter>>
    BY DEF GatewaySends, omVars, exchangeVars
<1>2. requests \in Seq(RequestType) /\ to_exchange \in Seq(RequestType)
    BY DEF TokensInv, FlowTypes, TypeOK
<1>3. req \in RequestType
    BY <1>1, <1>2, SeqShift
<1>4. /\ Distinct(requests') /\ Introduced(requests') \subseteq Introduced(requests)
      /\ req.type # "CANCEL" => Token(req) \in Introduced(requests) \ Introduced(requests')
    BY <1>1, <1>2, DistinctTail DEF TokensInv
<1> HIDE DEF req
<1>5. /\ Distinct(to_exchange')
      /\ Introduced(to_exchange') = Introduced(to_exchange) \cup (IF req.type = "CANCEL" THEN {} ELSE {Token(req)})
    <2>1. req.type # "CANCEL" => Token(req) \notin Introduced(to_exchange)
        BY <1>4 DEF TokensInv
    <2> QED
        BY <1>1, <1>2, <1>3, <2>1, DistinctAppend DEF TokensInv
<1>6. CASE req.type = "CANCEL"
    BY <1>1, <1>4, <1>5, <1>6 DEF TokensInv
<1>7. CASE req.type # "CANCEL"
    BY <1>1, <1>4, <1>5, <1>7 DEF TokensInv
<1> QED
    BY <1>6, <1>7

LEMMA ExchangeTokens ==
    ASSUME TokensInv, FlowTypes', ExchangeReceives
    PROVE  TokensInv'
<1> DEFINE req == Head(to_exchange)
<1>1. to_exchange # << >> /\ to_exchange' = Tail(to_exchange) /\ UNCHANGED <<requests, counter>>
    BY DEF ExchangeReceives, omVars
<1>2. to_exchange \in Seq(RequestType) /\ req \in RequestType /\ tokens \in Seq(Nat)
    BY <1>1, SeqShift DEF TokensInv, FlowTypes
<1>3. \/ req.type # "CANCEL" /\ tokens' = Append(tokens, Token(req))
      \/ UNCHANGED tokens
    BY DEF ExchangeReceives, ExchangeEnters, ExchangeCancels, ExchangeRefusesCancel, ExchangeReplaces,
           ExchangeIgnoresReplace, Token
<1>4. /\ Distinct(to_exchange') /\ Introduced(to_exchange') \subseteq Introduced(to_exchange)
      /\ req.type # "CANCEL" => Token(req) \in Introduced(to_exchange) \ Introduced(to_exchange')
    BY <1>1, <1>2, DistinctTail DEF TokensInv
<1> HIDE DEF req
<1>5. CASE UNCHANGED tokens
    BY <1>1, <1>4, <1>5 DEF TokensInv
<1>6. CASE req.type # "CANCEL" /\ tokens' = Append(tokens, Token(req))
    <2> DEFINE id == Token(req)
    <2>1. id \in Nat /\ id \in Introduced(to_exchange) /\ id \notin Introduced(to_exchange') /\ id \notin Range(tokens)
        BY <1>2, <1>4, <1>6, TokenType DEF TokensInv
    <2> HIDE DEF id
    <2>2. /\ tokens' \in Seq(Nat) /\ Len(tokens) \in Nat /\ DOMAIN tokens = 1..Len(tokens)
          /\ DOMAIN tokens' = 1..(Len(tokens) + 1) /\ tokens'[Len(tokens) + 1] = id
          /\ \A i \in 1..Len(tokens) : tokens'[i] = tokens[i]
        BY <1>2, <1>6, <2>1, SeqAppend DEF id
    <2>3. Range(tokens') = Range(tokens) \cup {id}
        BY <2>2 DEF Range
    <2>4. IsInjective(tokens')
        BY <2>1, <2>2 DEF TokensInv, IsInjective, Range
    <2> QED
        BY <1>1, <1>4, <2>1, <2>2, <2>3, <2>4 DEF TokensInv
<1> QED
    BY <1>3, <1>5, <1>6

LEMMA TokensStep == TokensInv /\ [FlowNext]_flowVars => TokensInv'
<1> SUFFICES ASSUME TokensInv, [FlowNext]_flowVars PROVE TokensInv'
    OBVIOUS
<1>1. FlowTypes'
    BY FlowTypesStep DEF TokensInv
<1>2. CASE UNCHANGED <<requests, to_exchange, tokens, counter>>
    BY <1>1, <1>2 DEF TokensInv
<1>3. CASE drainResponses
    <2>1. UNCHANGED counter
        BY <1>3 DEF drainResponses, onOrderResponse, omVars
    <2> QED
        BY <1>2, <1>3, <2>1 DEF drainResponses, exchangeVars
<1>4. CASE EngineEnters \/ EngineFinishes \/ GateCloses \/ GateOpens \/ recvCallback \/ UNCHANGED flowVars
    BY <1>2, <1>4 DEF EngineEnters, EngineFinishes, GateCloses, GateOpens, recvCallback, flowVars, omVars, exchangeVars
<1>5. CASE ExchangeMatches
    BY <1>2, <1>5 DEF ExchangeMatches, ExchangeExpires, ExchangeExecutes, omVars
<1> QED
    BY <1>1, <1>3, <1>4, <1>5, SlotTokens, GatewayTokens, ExchangeTokens DEF FlowNext, EngineLoop

LEMMA TokensStart == FlowInit => TokensInv
<1> SUFFICES ASSUME FlowInit PROVE TokensInv
    OBVIOUS
<1>1. FlowTypes
    BY FlowTypesStart
<1>2. requests = << >> /\ to_exchange = << >> /\ tokens = << >>
    BY DEF FlowInit, Init
<1>3. Fresh(requests) = {} /\ Fresh(to_exchange) = {} /\ Range(tokens) = {} /\ DOMAIN tokens = {}
    BY <1>2 DEF Fresh, Range
<1>4. Introduced(requests) = {} /\ Introduced(to_exchange) = {}
    BY <1>3 DEF Introduced
<1> QED
    BY <1>1, <1>2, <1>3, <1>4 DEF TokensInv, Distinct, IsInjective

\* No id is ever sent twice, replacements included, for every capacity, limit and
\* interleaving: OrderIdAllocator::next hands each out once and sendNewOrder and
\* sendReplace consume it even when the request is refused.
THEOREM TokensAreUnique == FlowSpec => []TokensUnique
BY TokensStart, TokensStep, TokensFollow, PTL DEF FlowSpec

=============================================================================
