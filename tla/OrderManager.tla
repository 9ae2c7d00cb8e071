---------------------------- MODULE OrderManager ----------------------------
(***************************************************************************)
(* One strategy slot: the order manager (order_manager.h), its risk        *)
(* manager (risk_manager.h) and the net position of its PnL tracker        *)
(* (pnl_tracker.h).  The three are called in one thread and change state   *)
(* together, so each handler is one action.                                *)
(*                                                                         *)
(* The array pending_ is a function from client order ids to reservations: *)
(* ids are unique in it and every use is a search by id or a sum.          *)
(* Ids come from the slot's counter (the slot bits are left out).  Of an   *)
(* order, the average fill price and is_cancel_rejected are left out:      *)
(* nothing reads them.                                                     *)
(***************************************************************************)
EXTENDS Integers, Sequences, FiniteSets, Functions

CONSTANTS
    Tickers,            \* registered tickers
    Quantities,         \* quantities a strategy asks for
    Prices,             \* limit prices a strategy asks for
    TimesInForce,       \* IOC (TRUE), resting (FALSE), or both
    MaxOrders,          \* capacity of orders_
    MaxPendingOrders,   \* capacity of pending_
    max_abs_position,
    max_order_qty,
    max_order_notional,
    QueueCapacity,      \* capacity of the request queue
    MaxId,              \* bound on the ids handed out
    ResponseQuantities, \* executed and canceled quantities of responses
    UsesReplace         \* the strategy calls sendReplace

ASSUME QuantitiesAssumption == Quantities \subseteq Nat /\ ResponseQuantities \subseteq Nat
ASSUME PricesAssumption == Prices \subseteq Nat /\ TimesInForce \subseteq BOOLEAN
ASSUME CapacitiesAssumption ==
    /\ MaxOrders \in Nat \ {0} /\ MaxPendingOrders \in Nat \ {0} /\ QueueCapacity \in Nat \ {0}
    /\ MaxId \in Nat
ASSUME LimitsAssumption ==
    max_abs_position \in Nat /\ max_order_qty \in Nat /\ max_order_notional \in Nat

VARIABLES
    orders,     \* orders_[0 .. count_ - 1]
    pending,    \* pending_, by client order id
    net_qty,    \* net position by ticker
    counter,    \* the id allocator's counter_
    trading_enabled,
    requests    \* the request queue to the gateway

omVars == <<orders, pending, net_qty, counter, trading_enabled>>
vars == <<omVars, requests>>

Sides == {"BUY", "SELL"}
Live == {"NOT_ACTIVE", "ACTIVE", "PARTIALLY_FILLED"}
Finished == {"COMPLETED", "CANCELLED", "DEAD"}

Request(type, id, new_id, ticker, side, qty, ioc) ==
    [type |-> type, id |-> id, new_id |-> new_id, ticker |-> ticker, side |-> side, qty |-> qty, ioc |-> ioc]

-----------------------------------------------------------------------------
(***************************************************************************)
(* RiskManager                                                             *)
(***************************************************************************)
Signed(side, qty) == IF side = "BUY" THEN qty ELSE -qty

Reserved(ticker, side) ==
    SumFunctionOnSet([id \in DOMAIN pending |-> pending[id].reserved_qty],
                     {id \in DOMAIN pending : pending[id].ticker = ticker /\ pending[id].side = side})

pendingExposure(ticker) == Reserved(ticker, "BUY") - Reserved(ticker, "SELL")

\* Mutant: pending orders are not counted.
canSubmit_IgnoresPending(req, price) ==
    /\ trading_enabled
    /\ req.id # 0 /\ req.qty # 0
    /\ req.ticker \in Tickers
    /\ req.id \notin DOMAIN pending
    /\ Cardinality(DOMAIN pending) < MaxPendingOrders
    /\ req.qty <= max_order_qty
    /\ price * req.qty <= max_order_notional
    /\ LET projected == net_qty[req.ticker] + Signed(req.side, req.qty)
       IN  -max_abs_position <= projected /\ projected <= max_abs_position

\* Mutant: the position limit bounds buys only.
canSubmit_BuysOnly(req, price) ==
    /\ trading_enabled
    /\ req.id # 0 /\ req.qty # 0
    /\ req.ticker \in Tickers
    /\ req.id \notin DOMAIN pending
    /\ Cardinality(DOMAIN pending) < MaxPendingOrders
    /\ req.qty <= max_order_qty
    /\ price * req.qty <= max_order_notional
    /\ net_qty[req.ticker] + pendingExposure(req.ticker) + Signed(req.side, req.qty) <= max_abs_position

canSubmit(req, price) ==
    /\ trading_enabled
    /\ req.id # 0 /\ req.qty # 0
    /\ req.ticker \in Tickers
    /\ req.id \notin DOMAIN pending
    /\ Cardinality(DOMAIN pending) < MaxPendingOrders
    /\ req.qty <= max_order_qty
    /\ price * req.qty <= max_order_notional
    /\ LET projected == net_qty[req.ticker] + pendingExposure(req.ticker) + Signed(req.side, req.qty)
       IN  -max_abs_position <= projected /\ projected <= max_abs_position

\* onSubmitted repeats two of the checks before it records the reservation.
submittable(req) ==
    req.id \notin DOMAIN pending /\ Cardinality(DOMAIN pending) < MaxPendingOrders

onSubmitted(req) ==
    pending' = [id \in DOMAIN pending \cup {req.id} |->
                  IF id = req.id
                  THEN [ticker |-> req.ticker, side |-> req.side, reserved_qty |-> req.qty]
                  ELSE pending[id]]

erasePending(id) == pending' = [other \in DOMAIN pending \ {id} |-> pending[other]]

\* Mutant: an entry with nothing left stays.
releasePending_KeepsEmpty(id, qty) == pending' = [pending EXCEPT ![id].reserved_qty = @ - qty]

\* Mutant: any release gives back everything.
releasePending_Everything(id, qty) == erasePending(id)

\* Gives back qty of a reservation; the entry goes when nothing is left.
releasePending(id, qty) ==
    IF pending[id].reserved_qty = qty
    THEN erasePending(id)
    ELSE pending' = [pending EXCEPT ![id].reserved_qty = @ - qty]

\* onOrderResponse accepts a quantity only out of the reservation.
covered(id, qty) == id \in DOMAIN pending /\ qty <= pending[id].reserved_qty

-----------------------------------------------------------------------------
(***************************************************************************)
(* OrderManager                                                            *)
(***************************************************************************)

\* allocSlot returns slot: the first finished order's, or the next one if there is none.
allocSlot(slot) ==
    /\ \A i \in DOMAIN orders : i < slot => orders[i].state \notin Finished
    /\ slot \in DOMAIN orders => orders[slot].state \in Finished

push(req) == Len(requests) < QueueCapacity /\ requests' = Append(requests, req)

NewOrder(req) ==
    [id |-> req.id, ticker |-> req.ticker, side |-> req.side, qty |-> req.qty, ioc |-> req.ioc,
     state |-> "NOT_ACTIVE", is_cancel_requested |-> FALSE, filled_qty |-> 0]

Recorded(slot, order) ==
    orders' = IF slot = Len(orders) + 1 THEN Append(orders, order) ELSE [orders EXCEPT ![slot] = order]

\* The id is consumed whether or not the order goes out.
sendNewOrder(ticker, side, qty, price, ioc) ==
    LET req == Request("NEW", counter, 0, ticker, side, qty, ioc)
    IN  \E slot \in 1..(Len(orders) + 1) :
            /\ slot <= MaxOrders /\ allocSlot(slot)
            /\ counter' = counter + 1
            /\ \/ /\ canSubmit(req, price)
                  /\ push(req)
                  /\ IF submittable(req)
                     THEN onSubmitted(req) /\ Recorded(slot, NewOrder(req))
                     ELSE UNCHANGED <<pending, orders>>
               \/ /\ ~canSubmit(req, price) \/ Len(requests) = QueueCapacity
                  /\ UNCHANGED <<pending, orders, requests>>
            /\ UNCHANGED <<net_qty, trading_enabled>>

sendCancel(i, qty) ==
    LET o == orders[i]
    IN  /\ o.state \notin Finished /\ ~o.is_cancel_requested
        /\ push(Request("CANCEL", o.id, 0, o.ticker, o.side, qty, o.ioc))
        /\ orders' = [orders EXCEPT ![i].is_cancel_requested = TRUE]
        /\ UNCHANGED <<pending, net_qty, counter, trading_enabled>>

\* The reservation and the order move to the new id when the request is sent;
\* the quantity reserved does not change.
onReplaced(id, new_id) ==
    pending' = [other \in (DOMAIN pending \ {id}) \cup {new_id} |->
                  IF other = new_id THEN pending[id] ELSE pending[other]]

\* Mutant: the replacement's id is peeked at and not consumed.
sendReplace_PeeksId(i, qty) ==
    LET o == orders[i]
    IN  /\ o.state \notin Finished /\ ~o.is_cancel_requested
        /\ push(Request("REPLACE", o.id, counter, o.ticker, o.side, qty, o.ioc))
        /\ IF o.id \in DOMAIN pending /\ counter \notin DOMAIN pending
           THEN /\ onReplaced(o.id, counter)
                /\ orders' = [orders EXCEPT ![i].id = counter, ![i].qty = qty]
           ELSE UNCHANGED <<pending, orders>>
        /\ UNCHANGED <<net_qty, trading_enabled, counter>>

sendReplace(i, qty) ==
    LET o == orders[i]
    IN  /\ o.state \notin Finished /\ ~o.is_cancel_requested
        /\ counter' = counter + 1
        /\ \/ /\ push(Request("REPLACE", o.id, counter, o.ticker, o.side, qty, o.ioc))
              /\ IF o.id \in DOMAIN pending /\ counter \notin DOMAIN pending
                 THEN /\ onReplaced(o.id, counter)
                      /\ orders' = [orders EXCEPT ![i].id = counter, ![i].qty = qty]
                 ELSE UNCHANGED <<pending, orders>>
           \/ Len(requests) = QueueCapacity /\ UNCHANGED <<pending, orders, requests>>
        /\ UNCHANGED <<net_qty, trading_enabled>>

\* Mutant: no fill is applied while a cancel is in flight.
Applies_NoFillInCancel(o, r) ==
    \/ r.status = "ACCEPTED" /\ o.state \in Live
    \/ /\ r.status = "EXECUTED" /\ r.qty # 0 /\ ~o.is_cancel_requested
       /\ o.state \notin Finished /\ o.filled_qty + r.qty <= o.qty
    \/ /\ r.status = "CANCELED" /\ o.state \notin {"COMPLETED", "DEAD"}
       /\ r.qty # 0 => covered(r.id, r.qty)
    \/ r.status = "CANCEL_REJECTED" /\ o.state \notin {"COMPLETED", "DEAD"}
    \/ r.status = "REJECTED" /\ r.id \in DOMAIN pending

\* When onOrderResponse acts on a response rather than returning false at once.
\* The qty of a response is its executed or canceled quantity.
Applies(o, r) ==
    \/ r.status = "ACCEPTED" /\ o.state \in Live
    \/ /\ r.status = "EXECUTED" /\ r.qty # 0
       /\ o.state \notin Finished /\ o.filled_qty + r.qty <= o.qty
    \/ /\ r.status = "CANCELED" /\ o.state \notin {"COMPLETED", "DEAD"}
       /\ r.qty # 0 => covered(r.id, r.qty)
    \/ r.status = "CANCEL_REJECTED" /\ o.state \notin {"COMPLETED", "DEAD"}
    \/ r.status = "REJECTED" /\ r.id \in DOMAIN pending

OnAccepted(i, r) ==
    /\ r.status = "ACCEPTED"
    /\ orders' = [orders EXCEPT ![i].state = IF @ = "NOT_ACTIVE" THEN "ACTIVE" ELSE @]
    /\ UNCHANGED <<pending, net_qty>>

\* pnl_tracker refuses a fill at Price_INVALID (~r.priced).
OnExecuted(i, r) ==
    /\ r.status = "EXECUTED"
    /\ IF covered(r.id, r.qty) /\ r.priced
       THEN LET filled == orders[i].filled_qty + r.qty
            IN  /\ orders' = [orders EXCEPT
                     ![i].filled_qty = filled,
                     ![i].state = IF filled = orders[i].qty THEN "COMPLETED" ELSE "PARTIALLY_FILLED"]
                /\ net_qty' = [net_qty EXCEPT ![pending[r.id].ticker] = @ + Signed(pending[r.id].side, r.qty)]
                /\ releasePending(r.id, r.qty)
       ELSE orders' = [orders EXCEPT ![i].state = "DEAD"] /\ UNCHANGED <<pending, net_qty>>

\* Mutant: only a cancel that was asked for finishes the order.
OnCanceled_OnlyRequested(i, r) ==
    /\ r.status = "CANCELED"
    /\ IF r.qty = 0 THEN UNCHANGED pending ELSE releasePending(r.id, r.qty)
    /\ orders' = [orders EXCEPT
         ![i].is_cancel_requested = FALSE,
         ![i].state = IF orders[i].is_cancel_requested THEN "CANCELLED" ELSE @]
    /\ UNCHANGED net_qty

OnCanceled(i, r) ==
    /\ r.status = "CANCELED"
    /\ IF r.qty = 0 THEN UNCHANGED pending ELSE releasePending(r.id, r.qty)
    /\ orders' = [orders EXCEPT
         ![i].is_cancel_requested = FALSE,
         ![i].state = IF orders[i].filled_qty = orders[i].qty THEN "COMPLETED" ELSE "CANCELLED"]
    /\ UNCHANGED net_qty

OnCancelRejected(i, r) ==
    /\ r.status = "CANCEL_REJECTED"
    /\ orders' = [orders EXCEPT ![i].is_cancel_requested = FALSE]
    /\ UNCHANGED <<pending, net_qty>>

OnRejected(i, r) ==
    /\ r.status = "REJECTED"
    /\ erasePending(r.id)
    /\ orders' = [orders EXCEPT ![i].state = "DEAD"]
    /\ UNCHANGED net_qty

\* find: ids are distinct, so at most one order has the id of the response.
onOrderResponse(r) ==
    /\ \/ \E i \in DOMAIN orders :
             /\ orders[i].id = r.id /\ Applies(orders[i], r)
             /\ OnAccepted(i, r) \/ OnExecuted(i, r) \/ OnCanceled(i, r)
                  \/ OnCancelRejected(i, r) \/ OnRejected(i, r)
       \/ /\ \A i \in DOMAIN orders : orders[i].id = r.id => ~Applies(orders[i], r)
          /\ UNCHANGED <<orders, pending, net_qty>>
    /\ UNCHANGED <<counter, trading_enabled>>

SetTrading == trading_enabled' = ~trading_enabled /\ UNCHANGED <<orders, pending, net_qty, counter>>

-----------------------------------------------------------------------------
(***************************************************************************)
(* The order manager by itself.  The strategy may make any call; the       *)
(* gateway may deliver any response for any id ever handed out, in any     *)
(* order and any number of times.                                          *)
(***************************************************************************)
Init ==
    /\ orders = << >>
    /\ pending = [id \in {} |-> 0]
    /\ net_qty = [t \in Tickers |-> 0]
    /\ counter = 1
    /\ trading_enabled = TRUE
    /\ requests = << >>

Response(status, id, qty, priced) == [status |-> status, id |-> id, qty |-> qty, priced |-> priced]

StrategySendsNew ==
    /\ counter <= MaxId
    /\ \E t \in Tickers, side \in Sides, qty \in Quantities, price \in Prices, ioc \in TimesInForce :
          sendNewOrder(t, side, qty, price, ioc)

StrategySendsCancel == \E i \in DOMAIN orders, qty \in Quantities : sendCancel(i, qty)

StrategySendsReplace ==
    /\ UsesReplace /\ counter <= MaxId
    /\ \E i \in DOMAIN orders, qty \in Quantities : sendReplace(i, qty)

GatewayPops == requests # << >> /\ requests' = Tail(requests) /\ UNCHANGED omVars

Statuses == {"ACCEPTED", "EXECUTED", "CANCELED", "CANCEL_REJECTED", "REJECTED"}

\* Only executions and cancellations carry a quantity, only executions a price.
PossibleResponses ==
    {r \in [status : Statuses, id : 1..(counter - 1), qty : ResponseQuantities \cup {0}, priced : BOOLEAN] :
        /\ r.qty # 0 => r.status \in {"EXECUTED", "CANCELED"}
        /\ ~r.priced => r.status = "EXECUTED"}

EngineDeliversResponse ==
    /\ \E r \in PossibleResponses : onOrderResponse(r)
    /\ UNCHANGED requests

OperatorSetsTrading == SetTrading /\ UNCHANGED requests

Next ==
    \/ StrategySendsNew \/ StrategySendsCancel \/ StrategySendsReplace
    \/ GatewayPops \/ EngineDeliversResponse \/ OperatorSetsTrading

Spec == Init /\ [][Next]_vars

-----------------------------------------------------------------------------
(***************************************************************************)
(* Properties                                                              *)
(***************************************************************************)

OrderType ==
    [id : Nat, ticker : Tickers, side : Sides, qty : Nat, ioc : BOOLEAN,
     state : Live \cup Finished, is_cancel_requested : BOOLEAN, filled_qty : Nat]

RequestType ==
    [type : {"NEW", "CANCEL", "REPLACE"}, id : Nat, new_id : Nat, ticker : Tickers,
     side : Sides, qty : Nat, ioc : BOOLEAN]

PendingType == [ticker : Tickers, side : Sides, reserved_qty : Nat \ {0}]

\* The type invariant of the order manager and its risk manager: no reservation
\* is empty, and every id in use was handed out by the allocator.
TypeOK ==
    /\ orders \in Seq(OrderType) /\ Len(orders) <= MaxOrders
    /\ pending \in [DOMAIN pending -> PendingType]
    /\ DOMAIN pending \subseteq 1..(counter - 1)
    /\ net_qty \in [Tickers -> Int]
    /\ counter \in Nat \ {0}
    /\ trading_enabled \in BOOLEAN
    /\ requests \in Seq(RequestType) /\ Len(requests) <= QueueCapacity

\* Whatever responses arrive, a live order that was never replaced holds a
\* reservation of exactly what it can still fill, and a completed order holds
\* none: onOrderResponse keeps the order state and the risk manager in step.
LiveOrdersReserved ==
    \A i \in DOMAIN orders :
        /\ orders[i].state \in Live =>
             /\ orders[i].id \in DOMAIN pending
             /\ pending[orders[i].id].ticker = orders[i].ticker
             /\ pending[orders[i].id].side = orders[i].side
             /\ pending[orders[i].id].reserved_qty = orders[i].qty - orders[i].filled_qty
        /\ orders[i].state = "COMPLETED" => orders[i].id \notin DOMAIN pending

\* The strengthening that makes LiveOrdersReserved inductive: ids are distinct
\* and handed out, and an order that is not complete has something left to fill.
OrdersInv ==
    /\ TypeOK
    /\ LiveOrdersReserved
    /\ \A i, j \in DOMAIN orders : orders[i].id = orders[j].id => i = j
    /\ \A i \in DOMAIN orders :
          /\ orders[i].id < counter
          /\ orders[i].state \in Live \cup {"CANCELLED"} => orders[i].filled_qty < orders[i].qty

=============================================================================
