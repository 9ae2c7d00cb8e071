-------------------------- MODULE OrderManagerProofs ------------------------
(***************************************************************************)
(* Proofs about one slot's order manager, risk manager and position, for   *)
(* every capacity, every limit and any sequence of calls and responses.    *)
(***************************************************************************)
EXTENDS OrderManager, TLAPS

\* Writing one element of a sequence keeps its length and its type.
LEMMA SeqUpdate ==
    ASSUME NEW S, NEW s \in Seq(S), NEW i \in DOMAIN s, NEW x \in S
    PROVE  /\ [s EXCEPT ![i] = x] \in Seq(S)
           /\ Len([s EXCEPT ![i] = x]) = Len(s)
           /\ DOMAIN [s EXCEPT ![i] = x] = DOMAIN s
OBVIOUS

LEMMA SeqTail ==
    ASSUME NEW S, NEW s \in Seq(S), s # << >>
    PROVE  Tail(s) \in Seq(S) /\ Len(Tail(s)) <= Len(s)
OBVIOUS

LEMMA InitTypes == Init => TypeOK
BY CapacitiesAssumption DEF Init, TypeOK

-----------------------------------------------------------------------------
(***************************************************************************)
(* The risk manager's operations keep the type of pending_.                *)
(***************************************************************************)
PendingOK(p, n) == p \in [DOMAIN p -> PendingType] /\ DOMAIN p \subseteq 1..(n - 1)

LEMMA ErasePending ==
    ASSUME NEW n \in Nat, PendingOK(pending, n), NEW id, erasePending(id)
    PROVE  PendingOK(pending', n)
BY DEF PendingOK, erasePending

\* A release of a covered, positive quantity leaves no empty reservation.
LEMMA ReleasePending ==
    ASSUME NEW n \in Nat, PendingOK(pending, n), NEW id, NEW qty \in Nat \ {0},
           covered(id, qty), releasePending(id, qty)
    PROVE  PendingOK(pending', n)
<1>1. CASE pending[id].reserved_qty = qty
    BY <1>1, ErasePending DEF releasePending
<1>2. CASE pending[id].reserved_qty # qty
    <2>1. pending[id] \in PendingType /\ id \in DOMAIN pending
        BY DEF PendingOK, covered
    <2>2. pending[id].reserved_qty - qty \in Nat \ {0}
        BY <2>1, <1>2 DEF covered, PendingType
    <2>3. pending' = [pending EXCEPT ![id].reserved_qty = pending[id].reserved_qty - qty]
        BY <1>2 DEF releasePending
    <2> QED
        BY <2>1, <2>2, <2>3 DEF PendingOK, PendingType
<1> QED
    BY <1>1, <1>2

LEMMA OnSubmitted ==
    ASSUME NEW n \in Nat \ {0}, PendingOK(pending, n), NEW req \in RequestType,
           req.id = n, req.qty # 0, onSubmitted(req)
    PROVE  PendingOK(pending', n + 1)
BY DEF PendingOK, PendingType, RequestType, onSubmitted

LEMMA OnReplaced ==
    ASSUME NEW n \in Nat \ {0}, PendingOK(pending, n), NEW id \in DOMAIN pending, onReplaced(id, n)
    PROVE  PendingOK(pending', n + 1)
BY DEF PendingOK, onReplaced

-----------------------------------------------------------------------------
(***************************************************************************)
(* Type correctness                                                        *)
(***************************************************************************)
LEMMA PushType ==
    ASSUME TypeOK, NEW req \in RequestType, push(req)
    PROVE  requests' \in Seq(RequestType) /\ Len(requests') <= QueueCapacity
BY CapacitiesAssumption DEF TypeOK, push

LEMMA RecordedType ==
    ASSUME TypeOK, NEW o \in OrderType, NEW slot \in 1..(Len(orders) + 1), slot <= MaxOrders,
           Recorded(slot, o)
    PROVE  orders' \in Seq(OrderType) /\ Len(orders') <= MaxOrders
<1>1. CASE slot = Len(orders) + 1
    BY <1>1, CapacitiesAssumption DEF TypeOK, Recorded
<1>2. CASE slot # Len(orders) + 1
    <2>1. slot \in DOMAIN orders /\ orders \in Seq(OrderType)
        BY <1>2 DEF TypeOK
    <2> QED
        BY <1>2, <2>1, SeqUpdate DEF TypeOK, Recorded
<1> QED
    BY <1>1, <1>2

\* sendNewOrder, accepted or not.
LEMMA NewOrderType ==
    ASSUME TypeOK, NEW ticker \in Tickers, NEW side \in Sides, NEW qty \in Quantities,
           NEW price \in Prices, NEW ioc \in TimesInForce, sendNewOrder(ticker, side, qty, price, ioc)
    PROVE  TypeOK'
<1> DEFINE req == Request("NEW", counter, 0, ticker, side, qty, ioc)
<1>1. req \in RequestType /\ req.id = counter
    BY QuantitiesAssumption, PricesAssumption DEF TypeOK, Request, RequestType
<1>2. NewOrder(req) \in OrderType
    BY <1>1 DEF NewOrder, OrderType, RequestType, Live, Finished
<1>3. counter' = counter + 1 /\ UNCHANGED <<net_qty, trading_enabled>>
    BY DEF sendNewOrder
<1>4. PICK slot \in 1..(Len(orders) + 1) :
          /\ slot <= MaxOrders
          /\ \/ /\ canSubmit(req, price) /\ push(req)
                /\ IF submittable(req)
                   THEN onSubmitted(req) /\ Recorded(slot, NewOrder(req))
                   ELSE UNCHANGED <<pending, orders>>
             \/ UNCHANGED <<pending, orders, requests>>
    BY DEF sendNewOrder
<1>a. ASSUME UNCHANGED <<pending, orders>>,
             requests' \in Seq(RequestType), Len(requests') <= QueueCapacity
      PROVE  TypeOK'
    <2>1. counter' \in Nat \ {0} /\ DOMAIN pending' \subseteq 1..(counter' - 1)
        BY <1>3, <1>a DEF TypeOK
    <2> QED
        BY <1>3, <1>a, <2>1 DEF TypeOK
<1>5. CASE UNCHANGED <<pending, orders, requests>>
    <2>1. requests' \in Seq(RequestType) /\ Len(requests') <= QueueCapacity
        BY <1>5 DEF TypeOK
    <2> QED
        BY <1>5, <1>a, <2>1
<1>6. CASE push(req) /\ UNCHANGED <<pending, orders>>
    <2> HIDE DEF req
    <2>1. requests' \in Seq(RequestType) /\ Len(requests') <= QueueCapacity
        BY <1>1, <1>6, PushType
    <2> QED
        BY <1>6, <1>a, <2>1
<1>7. CASE canSubmit(req, price) /\ push(req) /\ onSubmitted(req) /\ Recorded(slot, NewOrder(req))
    <2>1. requests' \in Seq(RequestType) /\ Len(requests') <= QueueCapacity
        BY <1>1, <1>7, PushType
    <2>2. orders' \in Seq(OrderType) /\ Len(orders') <= MaxOrders
        BY <1>2, <1>4, <1>7, RecordedType
    <2>3. PendingOK(pending', counter + 1)
        BY <1>1, <1>7, OnSubmitted DEF TypeOK, PendingOK, canSubmit
    <2> QED
        BY <1>3, <2>1, <2>2, <2>3 DEF TypeOK, PendingOK
<1> QED
    BY <1>4, <1>5, <1>6, <1>7

\* sendCancel marks one order.
LEMMA CancelType ==
    ASSUME TypeOK, NEW i \in DOMAIN orders, NEW qty \in Nat, sendCancel(i, qty)
    PROVE  TypeOK'
<1> DEFINE o == orders[i]
           req == Request("CANCEL", o.id, 0, o.ticker, o.side, qty, o.ioc)
           marked == [o EXCEPT !.is_cancel_requested = TRUE]
<1>1. o \in OrderType
    BY DEF TypeOK
<1>2. req \in RequestType
    BY <1>1 DEF Request, RequestType, OrderType
<1>3. requests' \in Seq(RequestType) /\ Len(requests') <= QueueCapacity
    BY <1>2, PushType DEF sendCancel
<1>4. marked \in OrderType
    BY <1>1 DEF OrderType
<1>5. orders' = [orders EXCEPT ![i] = marked]
    BY DEF sendCancel
<1>6. orders' \in Seq(OrderType) /\ Len(orders') = Len(orders)
    BY <1>4, <1>5, SeqUpdate DEF TypeOK
<1> QED
    BY <1>3, <1>6 DEF TypeOK, sendCancel

\* sendReplace moves an order and its reservation to a new id.
LEMMA ReplaceType ==
    ASSUME TypeOK, NEW i \in DOMAIN orders, NEW qty \in Quantities, sendReplace(i, qty)
    PROVE  TypeOK'
<1> DEFINE o == orders[i]
           req == Request("REPLACE", o.id, counter, o.ticker, o.side, qty, o.ioc)
           moved == [o EXCEPT !.id = counter, !.qty = qty]
<1>1. o \in OrderType
    BY DEF TypeOK
<1>2. req \in RequestType
    BY <1>1, QuantitiesAssumption DEF Request, RequestType, OrderType, TypeOK
<1>3. moved \in OrderType
    BY <1>1, QuantitiesAssumption DEF OrderType, TypeOK
<1>4. counter' = counter + 1 /\ UNCHANGED <<net_qty, trading_enabled>>
    BY DEF sendReplace
<1>5. CASE UNCHANGED <<pending, orders, requests>>
    BY <1>4, <1>5 DEF TypeOK
<1>6. CASE push(req) /\ UNCHANGED <<pending, orders>>
    BY <1>2, <1>4, <1>6, PushType DEF TypeOK
<1>7. CASE /\ push(req) /\ o.id \in DOMAIN pending /\ onReplaced(o.id, counter)
           /\ orders' = [orders EXCEPT ![i] = moved]
    <2>1. requests' \in Seq(RequestType) /\ Len(requests') <= QueueCapacity
        BY <1>2, <1>7, PushType
    <2>2. orders' \in Seq(OrderType) /\ Len(orders') = Len(orders)
        BY <1>3, <1>7, SeqUpdate DEF TypeOK
    <2>3. PendingOK(pending', counter + 1)
        BY <1>7, OnReplaced DEF TypeOK, PendingOK
    <2> QED
        BY <1>4, <2>1, <2>2, <2>3 DEF TypeOK, PendingOK
<1>8. \/ UNCHANGED <<pending, orders, requests>>
      \/ push(req) /\ UNCHANGED <<pending, orders>>
      \/ /\ push(req) /\ o.id \in DOMAIN pending /\ onReplaced(o.id, counter)
         /\ orders' = [orders EXCEPT ![i].id = counter, ![i].qty = qty]
    BY DEF sendReplace
<1>9. [orders EXCEPT ![i].id = counter, ![i].qty = qty] = [orders EXCEPT ![i] = moved]
    BY <1>1 DEF TypeOK, OrderType
<1> QED
    BY <1>5, <1>6, <1>7, <1>8, <1>9

\* The part of the type invariant that a response can disturb.
ResponseKeepsTypes ==
    /\ orders' \in Seq(OrderType) /\ Len(orders') = Len(orders)
    /\ PendingOK(pending', counter)
    /\ net_qty' \in [Tickers -> Int]

ResponseType ==
    [status : Statuses, id : Nat, qty : Nat, priced : BOOLEAN]

\* A response that onOrderResponse acts on.
LEMMA AppliedType ==
    ASSUME TypeOK, NEW r \in ResponseType, NEW i \in DOMAIN orders, Applies(orders[i], r),
           OnAccepted(i, r) \/ OnExecuted(i, r) \/ OnCanceled(i, r) \/ OnCancelRejected(i, r) \/ OnRejected(i, r)
    PROVE  ResponseKeepsTypes
<1>0. orders[i] \in OrderType /\ orders \in Seq(OrderType) /\ PendingOK(pending, counter) /\ counter \in Nat
    BY DEF TypeOK, PendingOK
<1>1. CASE OnAccepted(i, r)
    <2> DEFINE x == [orders[i] EXCEPT !.state = IF orders[i].state = "NOT_ACTIVE" THEN "ACTIVE" ELSE orders[i].state]
    <2>1. x \in OrderType
        BY <1>0 DEF OrderType, Live
    <2>2. orders' = [orders EXCEPT ![i] = x]
        BY <1>1 DEF OnAccepted
    <2> QED
        BY <1>0, <1>1, <2>1, <2>2, SeqUpdate DEF OnAccepted, ResponseKeepsTypes, TypeOK, PendingOK
<1>2. CASE OnExecuted(i, r)
    <2> DEFINE filled == orders[i].filled_qty + r.qty
               x == [orders[i] EXCEPT !.filled_qty = filled,
                                      !.state = IF filled = orders[i].qty THEN "COMPLETED" ELSE "PARTIALLY_FILLED"]
               dead == [orders[i] EXCEPT !.state = "DEAD"]
    <2>1. CASE covered(r.id, r.qty) /\ r.priced
        <3>0. /\ filled \in Nat
              /\ (IF filled = orders[i].qty THEN "COMPLETED" ELSE "PARTIALLY_FILLED") \in Live \cup Finished
            <4>1. orders[i].filled_qty \in Nat /\ r.qty \in Nat
                BY <1>0 DEF OrderType, ResponseType
            <4>2. filled \in Nat
                BY ONLY <4>1
            <4> HIDE DEF filled
            <4> QED
                BY ONLY <4>2 DEF Live, Finished
        <3>1. x \in OrderType
            BY <1>0, <3>0 DEF OrderType
        <3>2. /\ orders' = [orders EXCEPT ![i] = x]
              /\ net_qty' = [net_qty EXCEPT ![pending[r.id].ticker] = @ + Signed(pending[r.id].side, r.qty)]
              /\ releasePending(r.id, r.qty)
            BY <1>0, <1>2, <2>1 DEF OnExecuted, OrderType
        <3>3. r.qty \in Nat \ {0}
            BY <1>2 DEF ResponseType, Applies, OnExecuted
        <3>4. PendingOK(pending', counter)
            BY <1>0, <2>1, <3>2, <3>3, ReleasePending
        <3>5. Signed(pending[r.id].side, r.qty) \in Int
            BY <3>3 DEF Signed
        <3>6. pending[r.id].ticker \in Tickers
            BY <1>0, <2>1 DEF PendingOK, PendingType, covered
        <3>7. net_qty[pending[r.id].ticker] + Signed(pending[r.id].side, r.qty) \in Int
            BY <3>5, <3>6 DEF TypeOK
        <3>8. net_qty' \in [Tickers -> Int]
            BY <3>2, <3>7 DEF TypeOK
        <3> QED
            BY <1>0, <3>1, <3>2, <3>4, <3>8, SeqUpdate DEF ResponseKeepsTypes
    <2>2. CASE ~(covered(r.id, r.qty) /\ r.priced)
        <3>1. dead \in OrderType
            BY <1>0 DEF OrderType, Finished
        <3>2. orders' = [orders EXCEPT ![i] = dead] /\ UNCHANGED <<pending, net_qty>>
            BY <1>2, <2>2 DEF OnExecuted
        <3> QED
            BY <1>0, <3>1, <3>2, SeqUpdate DEF ResponseKeepsTypes, TypeOK, PendingOK
    <2> QED
        BY <2>1, <2>2
<1>3. CASE OnCanceled(i, r)
    <2> DEFINE x == [orders[i] EXCEPT !.is_cancel_requested = FALSE,
                        !.state = IF orders[i].filled_qty = orders[i].qty THEN "COMPLETED" ELSE "CANCELLED"]
    <2>1. x \in OrderType
        BY <1>0 DEF OrderType, Finished
    <2>2. orders' = [orders EXCEPT ![i] = x] /\ UNCHANGED net_qty
        BY <1>0, <1>3 DEF OnCanceled, OrderType
    <2>3. CASE r.qty = 0
        <3>1. PendingOK(pending', counter)
            BY <1>0, <1>3, <2>3 DEF OnCanceled
        <3> QED
            BY <1>0, <2>1, <2>2, <3>1, SeqUpdate DEF ResponseKeepsTypes, TypeOK
    <2>4. CASE r.qty # 0
        <3>1. r.qty \in Nat \ {0} /\ covered(r.id, r.qty) /\ releasePending(r.id, r.qty)
            BY <1>3, <2>4 DEF OnCanceled, Applies, ResponseType
        <3>2. PendingOK(pending', counter)
            BY <1>0, <3>1, ReleasePending
        <3> QED
            BY <1>0, <2>1, <2>2, <3>2, SeqUpdate DEF ResponseKeepsTypes, TypeOK
    <2> QED
        BY <2>3, <2>4
<1>4. CASE OnCancelRejected(i, r)
    <2> DEFINE x == [orders[i] EXCEPT !.is_cancel_requested = FALSE]
    <2>1. x \in OrderType
        BY <1>0 DEF OrderType
    <2>2. orders' = [orders EXCEPT ![i] = x]
        BY <1>4 DEF OnCancelRejected
    <2> QED
        BY <1>0, <1>4, <2>1, <2>2, SeqUpdate DEF OnCancelRejected, ResponseKeepsTypes, TypeOK, PendingOK
<1>5. CASE OnRejected(i, r)
    <2> DEFINE x == [orders[i] EXCEPT !.state = "DEAD"]
    <2>1. x \in OrderType
        BY <1>0 DEF OrderType, Finished
    <2>2. orders' = [orders EXCEPT ![i] = x] /\ erasePending(r.id) /\ UNCHANGED net_qty
        BY <1>5 DEF OnRejected
    <2>3. PendingOK(pending', counter)
        BY <1>0, <2>2, ErasePending
    <2> QED
        BY <1>0, <2>1, <2>2, <2>3, SeqUpdate DEF ResponseKeepsTypes, TypeOK
<1> QED
    BY <1>1, <1>2, <1>3, <1>4, <1>5

LEMMA ResponsesTyped ==
    ASSUME TypeOK, NEW r \in PossibleResponses
    PROVE  r \in ResponseType
BY QuantitiesAssumption DEF PossibleResponses, ResponseType, TypeOK

LEMMA ResponseStep ==
    ASSUME TypeOK, NEW r \in ResponseType, onOrderResponse(r), UNCHANGED requests
    PROVE  TypeOK'
<1>1. CASE UNCHANGED <<orders, pending, net_qty>>
    BY <1>1 DEF TypeOK, onOrderResponse
<1>2. CASE ResponseKeepsTypes
    BY <1>2 DEF TypeOK, onOrderResponse, ResponseKeepsTypes, PendingOK
<1> QED
    BY <1>1, <1>2, AppliedType DEF onOrderResponse

\* Every call and every response keeps the types.
LEMMA TypeStep == TypeOK /\ [Next]_vars => TypeOK'
<1> SUFFICES ASSUME TypeOK, [Next]_vars PROVE TypeOK'
    OBVIOUS
<1>1. CASE StrategySendsNew
    BY <1>1, NewOrderType DEF StrategySendsNew
<1>2. CASE StrategySendsCancel
    BY <1>2, CancelType, QuantitiesAssumption DEF StrategySendsCancel
<1>3. CASE StrategySendsReplace
    BY <1>3, ReplaceType DEF StrategySendsReplace
<1>4. CASE GatewayPops
    <2>1. requests' \in Seq(RequestType) /\ Len(requests') <= Len(requests)
        BY <1>4, SeqTail DEF GatewayPops, TypeOK
    <2>2. Len(requests') <= QueueCapacity
        BY <2>1, CapacitiesAssumption DEF TypeOK
    <2> QED
        BY <1>4, <2>1, <2>2 DEF GatewayPops, omVars, TypeOK
<1>5. CASE EngineDeliversResponse
    BY <1>5, ResponsesTyped, ResponseStep DEF EngineDeliversResponse
<1>6. CASE OperatorSetsTrading
    BY <1>6 DEF OperatorSetsTrading, SetTrading, TypeOK
<1>7. CASE UNCHANGED vars
    BY <1>7 DEF vars, omVars, TypeOK
<1> QED
    BY <1>1, <1>2, <1>3, <1>4, <1>5, <1>6, <1>7 DEF Next

\* The order manager and the risk manager stay within their types and capacities:
\* no reservation is ever empty or negative, whatever the gateway delivers.
THEOREM TypeCorrect == Spec => []TypeOK
BY InitTypes, TypeStep, PTL DEF Spec

-----------------------------------------------------------------------------
(***************************************************************************)
(* Live orders and reservations, when the strategy does not replace        *)
(***************************************************************************)
\* What OrdersInv says of one order o and the reservations p.
InStep(o, p) ==
    /\ o.state \in Live =>
         /\ o.id \in DOMAIN p
         /\ p[o.id].ticker = o.ticker /\ p[o.id].side = o.side
         /\ p[o.id].reserved_qty = o.qty - o.filled_qty
    /\ o.state = "COMPLETED" => o.id \notin DOMAIN p
    /\ o.state \in Live \cup {"CANCELLED"} => o.filled_qty < o.qty

\* Reservations other than id's are left alone.
OnlyTouches(id) ==
    \A other : other # id =>
        /\ other \in DOMAIN pending' <=> other \in DOMAIN pending
        /\ other \in DOMAIN pending => pending'[other] = pending[other]

LEMMA EraseTouches == ASSUME NEW id, erasePending(id) PROVE OnlyTouches(id) /\ id \notin DOMAIN pending'
BY DEF erasePending, OnlyTouches

\* A partial release leaves the rest of the reservation.
LEMMA ReleaseTouches ==
    ASSUME NEW n \in Nat, PendingOK(pending, n), NEW id, NEW qty \in Nat \ {0},
           covered(id, qty), releasePending(id, qty)
    PROVE  /\ OnlyTouches(id)
           /\ pending[id].reserved_qty = qty => id \notin DOMAIN pending'
           /\ pending[id].reserved_qty # qty =>
                /\ id \in DOMAIN pending'
                /\ pending'[id].ticker = pending[id].ticker /\ pending'[id].side = pending[id].side
                /\ pending'[id].reserved_qty = pending[id].reserved_qty - qty
<1>1. CASE pending[id].reserved_qty = qty
    BY <1>1, EraseTouches DEF releasePending
<1>2. CASE pending[id].reserved_qty # qty
    <2>1. pending[id] \in PendingType /\ id \in DOMAIN pending
        BY DEF PendingOK, covered
    <2>2. pending' = [pending EXCEPT ![id] = [pending[id] EXCEPT !.reserved_qty = pending[id].reserved_qty - qty]]
        BY <1>2 DEF releasePending
    <2>3. pending'[id] = [pending[id] EXCEPT !.reserved_qty = pending[id].reserved_qty - qty]
        BY <2>1, <2>2
    <2>4. OnlyTouches(id) /\ id \in DOMAIN pending'
        BY <2>1, <2>2 DEF OnlyTouches
    <2> QED
        BY <1>2, <2>1, <2>3, <2>4 DEF PendingType
<1> QED
    BY <1>1, <1>2

\* A step that changes one order, keeps its id and touches only its reservation.
LEMMA OneOrder ==
    ASSUME OrdersInv, TypeOK', UNCHANGED counter, NEW i \in DOMAIN orders, NEW x,
           orders' = [orders EXCEPT ![i] = x], x.id = orders[i].id, InStep(x, pending'),
           OnlyTouches(orders[i].id)
    PROVE  OrdersInv'
<1>1. DOMAIN orders' = DOMAIN orders /\ orders'[i] = x
    BY DEF OrdersInv, TypeOK
<1>2. \A j \in DOMAIN orders : j # i => orders'[j] = orders[j]
    BY DEF OrdersInv, TypeOK
<1>3. \A j \in DOMAIN orders : orders'[j].id = orders[j].id
    BY <1>1, <1>2
<1>4. \A j \in DOMAIN orders : InStep(orders'[j], pending')
    <2> SUFFICES ASSUME NEW j \in DOMAIN orders, j # i PROVE InStep(orders[j], pending')
        BY <1>1, <1>2
    <2>1. orders[j].id # orders[i].id
        BY DEF OrdersInv
    <2>2. InStep(orders[j], pending)
        BY DEF OrdersInv, LiveOrdersReserved, InStep
    <2> QED
        BY <2>1, <2>2 DEF InStep, OnlyTouches
<1>5. LiveOrdersReserved'
    BY <1>1, <1>4 DEF LiveOrdersReserved, InStep
<1>6. \A j \in DOMAIN orders' : orders'[j].state \in Live \cup {"CANCELLED"} => orders'[j].filled_qty < orders'[j].qty
    BY <1>1, <1>4 DEF InStep
<1> QED
    BY <1>1, <1>3, <1>5, <1>6 DEF OrdersInv

\* Any response that onOrderResponse acts on keeps order and reservation in step.
LEMMA AppliedInStep ==
    ASSUME OrdersInv, TypeOK', UNCHANGED counter, NEW r \in ResponseType, NEW i \in DOMAIN orders,
           orders[i].id = r.id, Applies(orders[i], r),
           OnAccepted(i, r) \/ OnExecuted(i, r) \/ OnCanceled(i, r) \/ OnCancelRejected(i, r) \/ OnRejected(i, r)
    PROVE  OrdersInv'
<1> DEFINE o == orders[i]
<1>0. /\ o \in OrderType /\ PendingOK(pending, counter) /\ counter \in Nat
      /\ InStep(o, pending) /\ o.id = r.id
    BY DEF OrdersInv, LiveOrdersReserved, InStep, TypeOK, PendingOK
<1>1. CASE OnAccepted(i, r)
    <2> DEFINE x == [o EXCEPT !.state = IF o.state = "NOT_ACTIVE" THEN "ACTIVE" ELSE o.state]
    <2>1. orders' = [orders EXCEPT ![i] = x] /\ UNCHANGED pending
        BY <1>1 DEF OnAccepted
    <2>2. InStep(x, pending') /\ x.id = o.id
        BY <1>0, <1>1, <2>1 DEF InStep, Applies, OnAccepted, OrderType, Live
    <2>3. OnlyTouches(o.id)
        BY <2>1 DEF OnlyTouches
    <2> QED
        BY <2>1, <2>2, <2>3, OneOrder
<1>2. CASE OnExecuted(i, r) /\ covered(r.id, r.qty) /\ r.priced
    <2> DEFINE filled == o.filled_qty + r.qty
               state == IF filled = o.qty THEN "COMPLETED" ELSE "PARTIALLY_FILLED"
               x == [o EXCEPT !.filled_qty = filled, !.state = state]
    <2>1. orders' = [orders EXCEPT ![i] = x] /\ releasePending(r.id, r.qty)
        BY <1>0, <1>2 DEF OnExecuted, OrderType
    <2>2. r.qty \in Nat \ {0} /\ o.state \in Live /\ filled <= o.qty
        BY <1>0, <1>2 DEF Applies, OnExecuted, ResponseType, OrderType, Live, Finished
    <2>3. pending[r.id].reserved_qty = o.qty - o.filled_qty /\ o.qty \in Nat /\ o.filled_qty \in Nat
        BY <1>0, <2>2 DEF InStep, OrderType
    <2>4. /\ OnlyTouches(r.id)
          /\ filled = o.qty => r.id \notin DOMAIN pending'
          /\ filled # o.qty =>
               /\ r.id \in DOMAIN pending'
               /\ pending'[r.id].ticker = o.ticker /\ pending'[r.id].side = o.side
               /\ pending'[r.id].reserved_qty = o.qty - filled
        BY <1>0, <1>2, <2>1, <2>2, <2>3, ReleaseTouches DEF InStep
    <2>5. x.id = o.id /\ x.state = state /\ x.filled_qty = filled /\ x.qty = o.qty /\ x.ticker = o.ticker /\ x.side = o.side
        BY <1>0 DEF OrderType
    <2>6. CASE filled = o.qty
        <3>1. InStep(x, pending')
            BY <1>0, <2>4, <2>5, <2>6 DEF InStep, Live
        <3> QED
            BY <1>0, <2>1, <2>4, <2>5, <3>1, OneOrder
    <2>7. CASE filled # o.qty
        <3>1. filled < o.qty
            BY <2>2, <2>3, <2>7
        <3>2. InStep(x, pending')
            BY <1>0, <2>4, <2>5, <2>7, <3>1 DEF InStep, Live
        <3> QED
            BY <1>0, <2>1, <2>4, <2>5, <3>2, OneOrder
    <2> QED
        BY <2>6, <2>7
<1>3. CASE OnExecuted(i, r) /\ ~(covered(r.id, r.qty) /\ r.priced)
    <2> DEFINE x == [o EXCEPT !.state = "DEAD"]
    <2>1. orders' = [orders EXCEPT ![i] = x] /\ UNCHANGED pending
        BY <1>3 DEF OnExecuted
    <2>2. InStep(x, pending') /\ x.id = o.id /\ OnlyTouches(o.id)
        BY <1>0, <2>1 DEF InStep, OnlyTouches, OrderType, Live
    <2> QED
        BY <2>1, <2>2, OneOrder
<1>4. CASE OnCanceled(i, r)
    <2> DEFINE x == [o EXCEPT !.is_cancel_requested = FALSE,
                              !.state = IF o.filled_qty = o.qty THEN "COMPLETED" ELSE "CANCELLED"]
    <2>1. orders' = [orders EXCEPT ![i] = x]
        BY <1>0, <1>4 DEF OnCanceled, OrderType
    <2>2. o.filled_qty < o.qty /\ o.qty \in Nat /\ o.filled_qty \in Nat
        BY <1>0, <1>4 DEF Applies, OnCanceled, InStep, OrderType, Live, Finished
    <2>3. x.id = o.id /\ x.state = "CANCELLED" /\ x.filled_qty = o.filled_qty /\ x.qty = o.qty
        BY <1>0, <2>2 DEF OrderType
    <2>4. InStep(x, pending')
        BY <2>2, <2>3 DEF InStep, Live
    <2>5. OnlyTouches(r.id)
        <3>1. CASE r.qty = 0
            BY <1>4, <3>1 DEF OnCanceled, OnlyTouches
        <3>2. CASE r.qty # 0
            <4>1. r.qty \in Nat \ {0} /\ covered(r.id, r.qty) /\ releasePending(r.id, r.qty)
                BY <1>4, <3>2 DEF OnCanceled, Applies, ResponseType
            <4> QED
                BY <1>0, <4>1, ReleaseTouches
        <3> QED
            BY <3>1, <3>2
    <2> QED
        BY <1>0, <2>1, <2>3, <2>4, <2>5, OneOrder
<1>5. CASE OnCancelRejected(i, r)
    <2> DEFINE x == [o EXCEPT !.is_cancel_requested = FALSE]
    <2>1. orders' = [orders EXCEPT ![i] = x] /\ UNCHANGED pending
        BY <1>5 DEF OnCancelRejected
    <2>2. InStep(x, pending') /\ x.id = o.id /\ OnlyTouches(o.id)
        BY <1>0, <2>1 DEF InStep, OnlyTouches, OrderType
    <2> QED
        BY <2>1, <2>2, OneOrder
<1>6. CASE OnRejected(i, r)
    <2> DEFINE x == [o EXCEPT !.state = "DEAD"]
    <2>1. orders' = [orders EXCEPT ![i] = x] /\ erasePending(r.id)
        BY <1>6 DEF OnRejected
    <2>2. InStep(x, pending') /\ x.id = o.id
        BY <1>0 DEF InStep, OrderType, Live
    <2> QED
        BY <1>0, <2>1, <2>2, EraseTouches, OneOrder
<1> QED
    BY <1>1, <1>2, <1>3, <1>4, <1>5, <1>6

\* sendNewOrder: the order and its reservation appear together, under an id that
\* no order and no reservation has.
LEMMA NewOrderInStep ==
    ASSUME OrdersInv, TypeOK', NEW ticker \in Tickers, NEW side \in Sides, NEW qty \in Quantities,
           NEW price \in Prices, NEW ioc \in TimesInForce, sendNewOrder(ticker, side, qty, price, ioc)
    PROVE  OrdersInv'
<1> DEFINE req == Request("NEW", counter, 0, ticker, side, qty, ioc)
           new == NewOrder(req)
<1>0. counter' = counter + 1 /\ counter \in Nat /\ orders \in Seq(OrderType) /\ DOMAIN pending \subseteq 1..(counter - 1)
    BY DEF sendNewOrder, OrdersInv, TypeOK
<1>1. PICK slot \in 1..(Len(orders) + 1) :
          \/ canSubmit(req, price) /\ onSubmitted(req) /\ Recorded(slot, new)
          \/ UNCHANGED <<pending, orders>>
    BY DEF sendNewOrder
<1>2. CASE UNCHANGED <<pending, orders>>
    <2>1. \A j \in DOMAIN orders : orders[j].id < counter /\ orders[j].id \in Nat
        <3> SUFFICES ASSUME NEW j \in DOMAIN orders PROVE orders[j].id < counter /\ orders[j].id \in Nat
            OBVIOUS
        <3>1. orders[j] \in OrderType
            BY <1>0
        <3> QED
            BY <3>1 DEF OrdersInv, OrderType
    <2>2. \A j \in DOMAIN orders' : orders'[j].id < counter'
        BY <1>0, <1>2, <2>1
    <2>3. LiveOrdersReserved'
        BY <1>2 DEF OrdersInv, LiveOrdersReserved
    <2> QED
        BY <1>2, <2>2, <2>3 DEF OrdersInv
<1>3. CASE canSubmit(req, price) /\ onSubmitted(req) /\ Recorded(slot, new)
    <2>1. /\ new.id = counter /\ new.state = "NOT_ACTIVE" /\ new.filled_qty = 0
          /\ new.qty = qty /\ new.ticker = ticker /\ new.side = side /\ qty \in Nat \ {0}
        BY <1>3, QuantitiesAssumption DEF NewOrder, Request, canSubmit
    <2>2. /\ DOMAIN pending' = DOMAIN pending \cup {counter}
          /\ pending'[counter] = [ticker |-> ticker, side |-> side, reserved_qty |-> qty]
          /\ \A id \in DOMAIN pending : pending'[id] = pending[id]
        <3>1. /\ req.id = counter /\ req.ticker = ticker /\ req.side = side /\ req.qty = qty
              /\ counter \notin DOMAIN pending
            BY <1>0 DEF Request
        <3>2. pending' = [id \in DOMAIN pending \cup {counter} |->
                            IF id = counter
                            THEN [ticker |-> ticker, side |-> side, reserved_qty |-> qty]
                            ELSE pending[id]]
            BY <1>3, <3>1 DEF onSubmitted
        <3> HIDE DEF req
        <3> QED
            BY ONLY <3>1, <3>2
    <2>3. /\ slot \in DOMAIN orders' /\ orders'[slot] = new
          /\ \A j \in DOMAIN orders' : j # slot => j \in DOMAIN orders /\ orders'[j] = orders[j]
        BY <1>0, <1>3 DEF Recorded
    <2>4. InStep(new, pending')
        <3>1. /\ counter \in DOMAIN pending' /\ pending'[counter].ticker = ticker
              /\ pending'[counter].side = side /\ pending'[counter].reserved_qty = qty
            BY ONLY <2>2
        <3>2. new.qty - new.filled_qty = qty /\ new.filled_qty < new.qty
            BY ONLY <2>1
        <3> HIDE DEF new
        <3> QED
            BY ONLY <2>1, <3>1, <3>2 DEF InStep
    <2>5. \A j \in DOMAIN orders : InStep(orders[j], pending') /\ orders[j].id < counter /\ orders[j].id \in Nat
        <3> SUFFICES ASSUME NEW j \in DOMAIN orders
                     PROVE  InStep(orders[j], pending') /\ orders[j].id < counter /\ orders[j].id \in Nat
            OBVIOUS
        <3>1. InStep(orders[j], pending) /\ orders[j].id < counter /\ orders[j].id \in Nat
            <4>1. orders[j] \in OrderType
                BY <1>0
            <4>2. InStep(orders[j], pending)
                BY DEF OrdersInv, LiveOrdersReserved, InStep
            <4> QED
                BY <4>1, <4>2 DEF OrdersInv, OrderType
        <3> QED
            BY <1>0, <2>2, <3>1 DEF InStep
    <2>6. \A j \in DOMAIN orders' : InStep(orders'[j], pending') /\ orders'[j].id < counter'
        BY <1>0, <2>1, <2>3, <2>4, <2>5
    <2>7. \A j, k \in DOMAIN orders' : orders'[j].id = orders'[k].id => j = k
        BY <1>0, <2>1, <2>3, <2>5 DEF OrdersInv
    <2>8. LiveOrdersReserved'
        BY <2>6 DEF LiveOrdersReserved, InStep
    <2> QED
        BY <2>6, <2>7, <2>8 DEF OrdersInv, InStep
<1> QED
    BY <1>1, <1>2, <1>3

\* sendCancel only sets the order's flag.
LEMMA CancelInStep ==
    ASSUME OrdersInv, TypeOK', NEW i \in DOMAIN orders, NEW qty \in Nat, sendCancel(i, qty)
    PROVE  OrdersInv'
<1> DEFINE x == [orders[i] EXCEPT !.is_cancel_requested = TRUE]
<1>1. orders' = [orders EXCEPT ![i] = x] /\ UNCHANGED <<pending, counter>>
    BY DEF sendCancel
<1>2. orders[i] \in OrderType /\ InStep(orders[i], pending)
    BY DEF OrdersInv, TypeOK, LiveOrdersReserved, InStep
<1>3. InStep(x, pending') /\ x.id = orders[i].id /\ OnlyTouches(orders[i].id)
    BY <1>1, <1>2 DEF InStep, OrderType, OnlyTouches
<1> QED
    BY <1>1, <1>3, OneOrder

LEMMA OrdersStep == ~UsesReplace /\ OrdersInv /\ [Next]_vars => OrdersInv'
<1> SUFFICES ASSUME ~UsesReplace, OrdersInv, [Next]_vars PROVE OrdersInv'
    OBVIOUS
<1>0. TypeOK'
    BY TypeStep DEF OrdersInv
<1>1. CASE StrategySendsNew
    BY <1>0, <1>1, NewOrderInStep DEF StrategySendsNew
<1>2. CASE StrategySendsCancel
    BY <1>0, <1>2, CancelInStep, QuantitiesAssumption DEF StrategySendsCancel
<1>3. CASE EngineDeliversResponse
    <2>1. PICK r \in PossibleResponses : onOrderResponse(r)
        BY <1>3 DEF EngineDeliversResponse
    <2>2. r \in ResponseType /\ UNCHANGED counter
        BY <2>1, ResponsesTyped DEF OrdersInv, onOrderResponse
    <2>3. CASE UNCHANGED <<orders, pending>>
        BY <1>0, <2>2, <2>3 DEF OrdersInv, LiveOrdersReserved
    <2> QED
        BY <1>0, <2>1, <2>2, <2>3, AppliedInStep DEF onOrderResponse
<1>4. CASE UNCHANGED <<orders, pending, counter>>
    BY <1>0, <1>4 DEF OrdersInv, LiveOrdersReserved
<1>5. GatewayPops \/ OperatorSetsTrading \/ UNCHANGED vars => UNCHANGED <<orders, pending, counter>>
    BY DEF GatewayPops, OperatorSetsTrading, SetTrading, vars, omVars
<1> QED
    BY <1>1, <1>2, <1>3, <1>4, <1>5 DEF Next, StrategySendsReplace

\* As long as the strategy never replaces an order, onOrderResponse keeps orders and
\* reservations in step, whatever responses arrive and in whatever order: a live
\* order has reserved exactly its unfilled quantity, a completed one nothing.
THEOREM OrdersStayReserved == ASSUME ~UsesReplace PROVE Spec => []LiveOrdersReserved
<1>1. Init => OrdersInv
    BY InitTypes DEF Init, OrdersInv, LiveOrdersReserved
<1>2. OrdersInv /\ [Next]_vars => OrdersInv'
    BY OrdersStep
<1>3. OrdersInv => LiveOrdersReserved
    BY DEF OrdersInv
<1> QED
    BY <1>1, <1>2, <1>3, PTL DEF Spec

=============================================================================
