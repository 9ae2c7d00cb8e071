-------------------------- MODULE OrderLedgerProofs -------------------------
(***************************************************************************)
(* The order manager implements the ledger of every ticker, and hence has  *)
(* its bound, for every capacity and limit and any calls and responses.    *)
(***************************************************************************)
EXTENDS OrderLedger, OrderManagerProofs, SumLemmas

-----------------------------------------------------------------------------
(***************************************************************************)
(* What is reserved, as a function of the reservations p                   *)
(***************************************************************************)
Quantity(p) == [id \in DOMAIN p |-> p[id].reserved_qty]
Entries(p, t, side) == {id \in DOMAIN p : p[id].ticker = t /\ p[id].side = side}
ReservedIn(p, t, side) == SumFunctionOnSet(Quantity(p), Entries(p, t, side))

Minus(p, id) == [other \in DOMAIN p \ {id} |-> p[other]]

\* What one entry adds to the reservations of a ticker and side.
Share(e, t, side) == IF e.ticker = t /\ e.side = side THEN e.reserved_qty ELSE 0

IsReservations(p) == p \in [DOMAIN p -> PendingType] /\ IsFiniteSet(DOMAIN p)

LEMMA MinusType ==
    ASSUME NEW p, IsReservations(p), NEW id
    PROVE  IsReservations(Minus(p, id))
BY FS_Subset DEF IsReservations, Minus

LEMMA ReservedType ==
    ASSUME NEW p, IsReservations(p), NEW t, NEW side
    PROVE  ReservedIn(p, t, side) \in Nat
<1>1. IsFiniteSet(Entries(p, t, side)) /\ Entries(p, t, side) \subseteq DOMAIN p
    BY FS_Subset DEF IsReservations, Entries
<1>2. \A id \in Entries(p, t, side) : Quantity(p)[id] \in Nat
    BY <1>1 DEF IsReservations, PendingType, Quantity
<1> QED
    BY <1>1, <1>2, SumNat DEF ReservedIn

\* Every entry counts once, for its own ticker and side.
LEMMA ReservedSplit ==
    ASSUME NEW p, IsReservations(p), NEW id \in DOMAIN p, NEW t, NEW side
    PROVE  ReservedIn(p, t, side) = ReservedIn(Minus(p, id), t, side) + Share(p[id], t, side)
<1> DEFINE all == Entries(p, t, side)
           rest == Entries(Minus(p, id), t, side)
<1>1. IsFiniteSet(all) /\ IsFiniteSet(rest) /\ all \subseteq DOMAIN p /\ rest = all \ {id}
    BY FS_Subset DEF IsReservations, Entries, Minus
<1>2. \A x \in all : Quantity(p)[x] \in Int
    BY <1>1 DEF IsReservations, PendingType, Quantity
<1>3. SumFunctionOnSet(Quantity(p), rest) = SumFunctionOnSet(Quantity(Minus(p, id)), rest)
    <2>1. \A x \in rest : Quantity(p)[x] \in Int /\ Quantity(p)[x] = Quantity(Minus(p, id))[x]
        BY <1>1, <1>2 DEF Quantity, Minus, Entries
    <2> QED
        BY <1>1, <2>1, SumEqual
<1>4. SumFunctionOnSet(Quantity(p), rest) \in Int
    BY <1>1, <1>2, SumType
<1>5. CASE id \in all
    <2>1. SumFunctionOnSet(Quantity(p), all) = Quantity(p)[id] + SumFunctionOnSet(Quantity(p), all \ {id})
        BY <1>1, <1>2, <1>5, SumRemove
    <2>2. Quantity(p)[id] = Share(p[id], t, side) /\ Quantity(p)[id] \in Int
        BY <1>2, <1>5 DEF Quantity, Share, Entries
    <2> QED
        BY <1>1, <1>3, <1>4, <2>1, <2>2 DEF ReservedIn
<1>6. CASE id \notin all
    <2>1. Share(p[id], t, side) = 0 /\ rest = all
        BY <1>1, <1>6 DEF Share, Entries
    <2> QED
        BY <1>3, <1>4, <2>1 DEF ReservedIn
<1> QED
    BY <1>5, <1>6

LEMMA ReservedNow ==
    ASSUME NEW t, NEW side
    PROVE  /\ Reserved(t, side) = ReservedIn(pending, t, side)
           /\ Reserved(t, side)' = ReservedIn(pending', t, side)
BY DEF Reserved, ReservedIn, Quantity, Entries

LEMMA PendingReservations ==
    /\ TypeOK => IsReservations(pending)
    /\ TypeOK' => IsReservations(pending')
<1>1. ASSUME NEW p, NEW n \in Nat \ {0}, p \in [DOMAIN p -> PendingType], DOMAIN p \subseteq 1..(n - 1)
      PROVE  IsReservations(p)
    BY <1>1, FS_Interval, FS_Subset DEF IsReservations
<1> QED
    BY <1>1 DEF TypeOK

\* One entry less: a reservation that is given back or filled completely.
LEMMA ReservedErased ==
    ASSUME TypeOK, NEW id \in DOMAIN pending, erasePending(id), NEW t, NEW side
    PROVE  Reserved(t, side) = Reserved(t, side)' + Share(pending[id], t, side)
<1>1. pending' = Minus(pending, id)
    BY DEF erasePending, Minus
<1> QED
    BY <1>1, PendingReservations, ReservedSplit, ReservedNow

\* A release of qty lowers what is reserved for its ticker and side by qty.
LEMMA ReservedReleased ==
    ASSUME TypeOK, NEW id, NEW qty \in Nat \ {0}, covered(id, qty), releasePending(id, qty),
           NEW t, NEW side
    PROVE  Reserved(t, side)' =
             IF pending[id].ticker = t /\ pending[id].side = side
             THEN Reserved(t, side) - qty ELSE Reserved(t, side)
<1>0. id \in DOMAIN pending /\ pending[id] \in PendingType /\ IsReservations(pending)
    BY PendingReservations DEF TypeOK, covered
<1>a. Reserved(t, side) \in Nat
    BY <1>0, ReservedType, ReservedNow
<1>1. CASE pending[id].reserved_qty = qty
    <2>1. Reserved(t, side) = Reserved(t, side)' + Share(pending[id], t, side)
        BY <1>0, <1>1, ReservedErased DEF releasePending
    <2>2. Reserved(t, side)' \in Nat
        <3>1. pending' = Minus(pending, id)
            BY <1>1 DEF releasePending, erasePending, Minus
        <3> QED
            BY <1>0, <3>1, MinusType, ReservedType, ReservedNow
    <2> QED
        BY <1>a, <1>1, <2>1, <2>2 DEF Share
<1>2. CASE pending[id].reserved_qty # qty
    <2> DEFINE e == [pending[id] EXCEPT !.reserved_qty = pending[id].reserved_qty - qty]
    <2>1. pending' = [pending EXCEPT ![id] = e]
        BY <1>2 DEF releasePending
    <2>2. e \in PendingType
        BY <1>0, <1>2 DEF covered, PendingType
    <2>3. /\ IsReservations(pending') /\ pending'[id] = e /\ id \in DOMAIN pending'
          /\ Minus(pending', id) = Minus(pending, id)
        BY <1>0, <2>1, <2>2 DEF IsReservations, Minus
    <2>4. Reserved(t, side) = ReservedIn(Minus(pending, id), t, side) + Share(pending[id], t, side)
        BY <1>0, ReservedSplit, ReservedNow
    <2>5. Reserved(t, side)' = ReservedIn(Minus(pending, id), t, side) + Share(e, t, side)
        BY <2>3, ReservedSplit, ReservedNow
    <2>6. ReservedIn(Minus(pending, id), t, side) \in Nat
        BY <1>0, MinusType, ReservedType
    <2>7. /\ e.ticker = pending[id].ticker /\ e.side = pending[id].side
          /\ e.reserved_qty = pending[id].reserved_qty - qty /\ pending[id].reserved_qty \in Nat
        BY <1>0 DEF PendingType
    <2> HIDE DEF e
    <2> QED
        BY <2>4, <2>5, <2>6, <2>7 DEF Share
<1> QED
    BY <1>1, <1>2

\* A new entry adds its quantity.
LEMMA ReservedSubmitted ==
    ASSUME TypeOK, TypeOK', NEW req, req.id \notin DOMAIN pending, onSubmitted(req), NEW t, NEW side
    PROVE  Reserved(t, side)' =
             Reserved(t, side) + (IF req.ticker = t /\ req.side = side THEN req.qty ELSE 0)
<1> DEFINE e == [ticker |-> req.ticker, side |-> req.side, reserved_qty |-> req.qty]
<1>1. /\ req.id \in DOMAIN pending' /\ pending'[req.id] = e
      /\ Minus(pending', req.id) = pending
    <2>1. DOMAIN Minus(pending', req.id) = DOMAIN pending
        BY DEF onSubmitted, Minus
    <2>2. \A id \in DOMAIN pending : Minus(pending', req.id)[id] = pending[id]
        BY DEF onSubmitted, Minus
    <2>3. pending = [id \in DOMAIN pending |-> pending[id]]
        BY DEF TypeOK
    <2> QED
        BY <2>1, <2>2, <2>3 DEF onSubmitted, Minus
<1>2. Share(e, t, side) = IF req.ticker = t /\ req.side = side THEN req.qty ELSE 0
    BY DEF Share
<1> QED
    BY <1>1, <1>2, PendingReservations, ReservedSplit, ReservedNow

\* A replacement moves the entry to another id and changes no sum.
LEMMA ReservedReplaced ==
    ASSUME TypeOK, TypeOK', NEW id \in DOMAIN pending, NEW new_id, new_id \notin DOMAIN pending,
           onReplaced(id, new_id), NEW t, NEW side
    PROVE  Reserved(t, side)' = Reserved(t, side)
<1>1. /\ new_id \in DOMAIN pending' /\ pending'[new_id] = pending[id]
      /\ Minus(pending', new_id) = Minus(pending, id)
    BY DEF onReplaced, Minus
<1> QED
    BY <1>1, PendingReservations, ReservedSplit, ReservedNow

-----------------------------------------------------------------------------
(***************************************************************************)
(* Each step is a step of the ledger                                       *)
(***************************************************************************)
LedgerTurn(t) == UNCHANGED Ledger(t)!lvars \/ Ledger(t)!LNext

\* A step that changes neither the position nor what is reserved.
LEMMA LedgerIdle ==
    ASSUME NEW t, UNCHANGED net_qty, \A side \in Sides : Reserved(t, side)' = Reserved(t, side)
    PROVE  LedgerTurn(t)
BY DEF LedgerTurn, Ledger!lvars, Sides

LEMMA ReservedNat ==
    ASSUME NEW t, NEW side
    PROVE  (TypeOK => Reserved(t, side) \in Nat) /\ (TypeOK' => Reserved(t, side)' \in Nat)
BY PendingReservations, ReservedType, ReservedNow

\* A cancel gives part of a reservation back.
LEMMA LedgerReleases ==
    ASSUME TypeOK, TypeOK', NEW id, NEW qty \in Nat \ {0}, covered(id, qty), releasePending(id, qty),
           UNCHANGED net_qty, NEW t
    PROVE  LedgerTurn(t)
<1>1. pending[id] \in PendingType
    BY DEF TypeOK, covered
<1>2. \A side \in Sides : /\ Reserved(t, side) \in Nat /\ Reserved(t, side)' \in Nat
                          /\ Reserved(t, side)' = IF pending[id].ticker = t /\ pending[id].side = side
                                                  THEN Reserved(t, side) - qty ELSE Reserved(t, side)
    BY ReservedNat, ReservedReleased
<1>3. CASE pending[id].ticker # t
    BY <1>2, <1>3, LedgerIdle
<1>4. CASE pending[id].ticker = t /\ pending[id].side = "BUY"
    <2>1. /\ qty \in 1..Reserved(t, "BUY") /\ Reserved(t, "BUY")' = Reserved(t, "BUY") - qty
          /\ Reserved(t, "SELL")' = Reserved(t, "SELL") /\ net_qty'[t] = net_qty[t]
        BY <1>2, <1>4 DEF Sides
    <2> QED
        BY <2>1 DEF LedgerTurn, Ledger!LNext, Ledger!ReleaseBuy
<1>5. CASE pending[id].ticker = t /\ pending[id].side = "SELL"
    <2>1. /\ qty \in 1..Reserved(t, "SELL") /\ Reserved(t, "SELL")' = Reserved(t, "SELL") - qty
          /\ Reserved(t, "BUY")' = Reserved(t, "BUY") /\ net_qty'[t] = net_qty[t]
        BY <1>2, <1>5 DEF Sides
    <2> QED
        BY <2>1 DEF LedgerTurn, Ledger!LNext, Ledger!ReleaseSell
<1> QED
    BY <1>1, <1>3, <1>4, <1>5 DEF PendingType, Sides

\* A fill moves it to the position.
LEMMA LedgerFills ==
    ASSUME TypeOK, TypeOK', NEW id, NEW qty \in Nat \ {0}, covered(id, qty), releasePending(id, qty),
           net_qty' = [net_qty EXCEPT ![pending[id].ticker] = @ + Signed(pending[id].side, qty)],
           NEW t \in Tickers
    PROVE  LedgerTurn(t)
<1>1. pending[id] \in PendingType /\ net_qty \in [Tickers -> Int]
    BY DEF TypeOK, covered
<1>2. \A side \in Sides : /\ Reserved(t, side) \in Nat /\ Reserved(t, side)' \in Nat
                          /\ Reserved(t, side)' = IF pending[id].ticker = t /\ pending[id].side = side
                                                  THEN Reserved(t, side) - qty ELSE Reserved(t, side)
    BY ReservedNat, ReservedReleased
<1>3. net_qty'[t] = IF pending[id].ticker = t THEN net_qty[t] + Signed(pending[id].side, qty) ELSE net_qty[t]
    BY <1>1
<1>4. CASE pending[id].ticker # t
    BY <1>2, <1>3, <1>4 DEF LedgerTurn, Ledger!lvars, Sides
<1>5. CASE pending[id].ticker = t /\ pending[id].side = "BUY"
    <2>1. /\ qty \in 1..Reserved(t, "BUY") /\ Reserved(t, "BUY")' = Reserved(t, "BUY") - qty
          /\ Reserved(t, "SELL")' = Reserved(t, "SELL") /\ net_qty'[t] = net_qty[t] + qty
        BY <1>2, <1>3, <1>5 DEF Sides, Signed
    <2> QED
        BY <2>1 DEF LedgerTurn, Ledger!LNext, Ledger!FillBuy
<1>6. CASE pending[id].ticker = t /\ pending[id].side = "SELL"
    <2>1. /\ qty \in 1..Reserved(t, "SELL") /\ Reserved(t, "SELL")' = Reserved(t, "SELL") - qty
          /\ Reserved(t, "BUY")' = Reserved(t, "BUY") /\ net_qty'[t] = net_qty[t] - qty
        BY <1>1, <1>2, <1>3, <1>6 DEF Sides, Signed
    <2> QED
        BY <2>1 DEF LedgerTurn, Ledger!LNext, Ledger!FillSell
<1> QED
    BY <1>1, <1>4, <1>5, <1>6 DEF PendingType, Sides

\* A reject gives a whole reservation back: the release of all that is reserved.
LEMMA LedgerErases ==
    ASSUME TypeOK, TypeOK', NEW id \in DOMAIN pending, erasePending(id), UNCHANGED net_qty, NEW t
    PROVE  LedgerTurn(t)
<1>1. pending[id].reserved_qty \in Nat \ {0}
    BY DEF TypeOK, PendingType
<1>2. covered(id, pending[id].reserved_qty) /\ releasePending(id, pending[id].reserved_qty)
    BY <1>1 DEF covered, releasePending
<1> QED
    BY <1>1, <1>2, LedgerReleases

-----------------------------------------------------------------------------
\* No reservation is larger than the largest order, whatever the replaces.
LedgerInv ==
    /\ TypeOK
    /\ \A id \in DOMAIN pending : pending[id].reserved_qty <= max_order_qty
    /\ PositionBound

\* Before a reservation, the pending orders are one fewer than pending_ holds.
LEMMA OtherSideBound ==
    ASSUME LedgerInv, Cardinality(DOMAIN pending) < MaxPendingOrders, NEW t, NEW side
    PROVE  Reserved(t, side) <= (MaxPendingOrders - 1) * max_order_qty
<1> DEFINE S == Entries(pending, t, side)
<1>1. /\ IsReservations(pending) /\ S \subseteq DOMAIN pending
      /\ max_order_qty \in Nat /\ MaxPendingOrders \in Nat
    BY PendingReservations, CapacitiesAssumption, LimitsAssumption DEF LedgerInv, Entries
<1>2. /\ IsFiniteSet(S) /\ Cardinality(S) \in Nat /\ Cardinality(S) <= Cardinality(DOMAIN pending)
      /\ Cardinality(DOMAIN pending) \in Nat
    BY <1>1, FS_Subset, FS_CardinalityType DEF IsReservations
<1>3. \A id \in S : Quantity(pending)[id] \in 0..max_order_qty
    BY <1>1 DEF LedgerInv, IsReservations, PendingType, Quantity
<1>4. Reserved(t, side) \in Nat /\ Reserved(t, side) <= Cardinality(S) * max_order_qty
    BY <1>1, <1>2, <1>3, SumBounds, ReservedNow DEF ReservedIn
<1>5. Cardinality(S) * max_order_qty <= (MaxPendingOrders - 1) * max_order_qty
    <2>1. ASSUME NEW a \in Nat, NEW b \in Nat, NEW c \in Nat, a <= b PROVE a * c <= b * c
        <3>1. b * c = a * c + (b - a) * c
            OBVIOUS
        <3>2. (b - a) * c \in Nat /\ a * c \in Nat
            BY <2>1
        <3> QED
            BY <3>1, <3>2
    <2>2. Cardinality(S) <= MaxPendingOrders - 1 /\ MaxPendingOrders - 1 \in Nat
        BY <1>1, <1>2
    <2> QED
        BY <1>1, <1>2, <2>1, <2>2
<1>6. Cardinality(S) * max_order_qty \in Nat /\ (MaxPendingOrders - 1) * max_order_qty \in Int
    BY <1>1, <1>2
<1> QED
    BY <1>4, <1>5, <1>6

\* canSubmit and onSubmitted are a reservation of the ledger.
LEMMA LedgerReserves ==
    ASSUME LedgerInv, TypeOK', NEW req \in RequestType, NEW price, canSubmit(req, price),
           onSubmitted(req), UNCHANGED net_qty, NEW t \in Tickers
    PROVE  LedgerTurn(t)
<1>1. /\ req.id \notin DOMAIN pending /\ Cardinality(DOMAIN pending) < MaxPendingOrders
      /\ req.qty \in 1..max_order_qty /\ req.side \in Sides
    BY LimitsAssumption DEF canSubmit, RequestType
<1>2. \A side \in Sides :
        /\ Reserved(t, side) \in Nat
        /\ Reserved(t, side) <= (MaxPendingOrders - 1) * max_order_qty
        /\ Reserved(t, side)' = Reserved(t, side) + (IF req.ticker = t /\ req.side = side THEN req.qty ELSE 0)
    BY <1>1, ReservedNat, ReservedSubmitted, OtherSideBound DEF LedgerInv
<1>3. CASE req.ticker # t
    BY <1>2, <1>3, LedgerIdle
<1>4. /\ net_qty[t] \in Int /\ req.qty \in Int /\ max_abs_position \in Int
      /\ Reserved(t, "BUY") \in Int /\ Reserved(t, "SELL") \in Int
    BY <1>1, <1>2, LimitsAssumption DEF LedgerInv, TypeOK, Sides
<1>5. ASSUME req.ticker = t
      PROVE  LET projected == net_qty[t] + (Reserved(t, "BUY") - Reserved(t, "SELL")) + Signed(req.side, req.qty)
             IN  -max_abs_position <= projected /\ projected <= max_abs_position
    BY <1>5 DEF canSubmit, pendingExposure
<1>6. CASE req.ticker = t /\ req.side = "BUY"
    <2>0. Signed(req.side, req.qty) = req.qty
        BY <1>6 DEF Signed
    <2>1. -max_abs_position <= net_qty[t] + Reserved(t, "BUY") - Reserved(t, "SELL") + req.qty
        BY <1>4, <1>5, <1>6, <2>0
    <2>2. net_qty[t] + Reserved(t, "BUY") - Reserved(t, "SELL") + req.qty <= max_abs_position
        BY <1>4, <1>5, <1>6, <2>0
    <2>3. /\ Reserved(t, "BUY")' = Reserved(t, "BUY") + req.qty /\ Reserved(t, "SELL")' = Reserved(t, "SELL")
          /\ net_qty'[t] = net_qty[t] /\ Reserved(t, "SELL") <= (MaxPendingOrders - 1) * max_order_qty
        BY <1>2, <1>6 DEF Sides
    <2> QED
        BY <1>1, <2>1, <2>2, <2>3 DEF LedgerTurn, Ledger!LNext, Ledger!ReserveBuy, Ledger!WithinLimit
<1>7. CASE req.ticker = t /\ req.side = "SELL"
    <2>0. Signed(req.side, req.qty) = -req.qty
        BY <1>7 DEF Signed
    <2>1. -max_abs_position <= net_qty[t] + Reserved(t, "BUY") - Reserved(t, "SELL") - req.qty
        BY <1>4, <1>5, <1>7, <2>0
    <2>2. net_qty[t] + Reserved(t, "BUY") - Reserved(t, "SELL") - req.qty <= max_abs_position
        BY <1>4, <1>5, <1>7, <2>0
    <2>3. /\ Reserved(t, "SELL")' = Reserved(t, "SELL") + req.qty /\ Reserved(t, "BUY")' = Reserved(t, "BUY")
          /\ net_qty'[t] = net_qty[t] /\ Reserved(t, "BUY") <= (MaxPendingOrders - 1) * max_order_qty
        BY <1>2, <1>7 DEF Sides
    <2> QED
        BY <1>1, <2>1, <2>2, <2>3 DEF LedgerTurn, Ledger!LNext, Ledger!ReserveSell, Ledger!WithinLimit
<1> QED
    BY <1>1, <1>3, <1>6, <1>7 DEF Sides

-----------------------------------------------------------------------------
\* onOrderResponse: a fill, a release, or neither.
LEMMA LedgerResponds ==
    ASSUME TypeOK, TypeOK', NEW r \in ResponseType, onOrderResponse(r), NEW t \in Tickers
    PROVE  LedgerTurn(t)
<1>0. CASE UNCHANGED <<pending, net_qty>>
    <2>1. \A side \in Sides : Reserved(t, side)' = Reserved(t, side)
        BY <1>0 DEF Reserved
    <2> QED
        BY <1>0, <2>1, LedgerIdle
<1>1. SUFFICES ASSUME NEW i \in DOMAIN orders, Applies(orders[i], r),
                      OnExecuted(i, r) \/ OnCanceled(i, r) \/ OnRejected(i, r)
               PROVE  LedgerTurn(t)
    BY <1>0 DEF onOrderResponse, OnAccepted, OnCancelRejected
<1>2. CASE OnExecuted(i, r) /\ covered(r.id, r.qty) /\ r.priced
    <2>1. r.qty \in Nat \ {0}
        BY <1>1, <1>2 DEF Applies, OnExecuted, ResponseType
    <2> QED
        BY <1>2, <2>1, LedgerFills DEF OnExecuted
<1>3. CASE OnExecuted(i, r) /\ ~(covered(r.id, r.qty) /\ r.priced)
    BY <1>0, <1>3 DEF OnExecuted
<1>4. CASE OnCanceled(i, r) /\ r.qty # 0
    <2>1. r.qty \in Nat \ {0} /\ covered(r.id, r.qty) /\ releasePending(r.id, r.qty) /\ UNCHANGED net_qty
        BY <1>1, <1>4 DEF Applies, OnCanceled, ResponseType
    <2> QED
        BY <2>1, LedgerReleases
<1>5. CASE OnCanceled(i, r) /\ r.qty = 0
    BY <1>0, <1>5 DEF OnCanceled
<1>6. CASE OnRejected(i, r)
    <2>1. r.id \in DOMAIN pending /\ erasePending(r.id) /\ UNCHANGED net_qty
        BY <1>1, <1>6 DEF Applies, OnRejected
    <2> QED
        BY <2>1, LedgerErases
<1> QED
    BY <1>1, <1>2, <1>3, <1>4, <1>5, <1>6

\* sendNewOrder: a reservation, or nothing when the order is refused.
LEMMA LedgerSendsNew ==
    ASSUME LedgerInv, TypeOK', NEW ticker \in Tickers, NEW side \in Sides, NEW qty \in Quantities,
           NEW price \in Prices, NEW ioc \in TimesInForce, sendNewOrder(ticker, side, qty, price, ioc),
           NEW t \in Tickers
    PROVE  LedgerTurn(t)
<1> DEFINE req == Request("NEW", counter, 0, ticker, side, qty, ioc)
<1>1. req \in RequestType
    BY QuantitiesAssumption, PricesAssumption DEF LedgerInv, TypeOK, Request, RequestType
<1>2. \/ canSubmit(req, price) /\ onSubmitted(req) /\ UNCHANGED net_qty
      \/ UNCHANGED <<pending, net_qty>>
    BY DEF sendNewOrder
<1> HIDE DEF req
<1>3. CASE UNCHANGED <<pending, net_qty>>
    <2>1. \A s \in Sides : Reserved(t, s)' = Reserved(t, s)
        BY <1>3 DEF Reserved
    <2> QED
        BY <1>3, <2>1, LedgerIdle
<1> QED
    BY <1>1, <1>2, <1>3, LedgerReserves

LEMMA LedgerSendsReplace ==
    ASSUME TypeOK, TypeOK', NEW i \in DOMAIN orders, NEW qty \in Quantities, sendReplace(i, qty), NEW t
    PROVE  LedgerTurn(t)
<1>1. CASE UNCHANGED pending
    <2>1. \A s \in Sides : Reserved(t, s)' = Reserved(t, s)
        BY <1>1 DEF Reserved
    <2> QED
        BY <2>1, LedgerIdle DEF sendReplace
<1>2. CASE /\ orders[i].id \in DOMAIN pending /\ counter \notin DOMAIN pending
           /\ onReplaced(orders[i].id, counter)
    <2>1. \A s \in Sides : Reserved(t, s)' = Reserved(t, s)
        BY <1>2, ReservedReplaced
    <2> QED
        BY <2>1, LedgerIdle DEF sendReplace
<1> QED
    BY <1>1, <1>2 DEF sendReplace

LEMMA LedgerTurns ==
    ASSUME LedgerInv, TypeOK', [Next]_vars, NEW t \in Tickers
    PROVE  LedgerTurn(t)
<1>1. CASE StrategySendsNew
    BY <1>1, LedgerSendsNew DEF StrategySendsNew
<1>2. CASE StrategySendsReplace
    BY <1>2, LedgerSendsReplace DEF StrategySendsReplace, LedgerInv
<1>3. CASE EngineDeliversResponse
    BY <1>3, ResponsesTyped, LedgerResponds DEF EngineDeliversResponse, LedgerInv
<1>4. CASE UNCHANGED <<pending, net_qty>>
    <2>1. \A side \in Sides : Reserved(t, side)' = Reserved(t, side)
        BY <1>4 DEF Reserved
    <2> QED
        BY <1>4, <2>1, LedgerIdle
<1>5. StrategySendsCancel \/ GatewayPops \/ OperatorSetsTrading \/ UNCHANGED vars => UNCHANGED <<pending, net_qty>>
    BY DEF StrategySendsCancel, sendCancel, GatewayPops, OperatorSetsTrading, SetTrading, vars, omVars
<1> QED
    BY <1>1, <1>2, <1>3, <1>4, <1>5 DEF Next

\* The ledger's own step lemma, for the order manager's state.
LEMMA BoundKept ==
    ASSUME TypeOK, TypeOK', NEW t \in Tickers, Ledger(t)!ExposureBound, LedgerTurn(t)
    PROVE  Ledger(t)!ExposureBound'
<1> DEFINE other == (MaxPendingOrders - 1) * max_order_qty
<1>1. /\ max_abs_position \in Nat /\ max_order_qty \in Nat /\ other \in Nat
      /\ net_qty[t] \in Int /\ net_qty'[t] \in Int
      /\ Reserved(t, "BUY") \in Nat /\ Reserved(t, "SELL") \in Nat
      /\ Reserved(t, "BUY")' \in Nat /\ Reserved(t, "SELL")' \in Nat
    <2>1. MaxPendingOrders - 1 \in Nat /\ max_order_qty \in Nat
        BY CapacitiesAssumption, LimitsAssumption
    <2>2. other \in Nat
        BY ONLY <2>1
    <2> HIDE DEF other
    <2> QED
        BY <2>1, <2>2, LimitsAssumption, ReservedNat DEF TypeOK
<1> HIDE DEF other
<1> USE <1>1 DEF Ledger!ExposureBound, other
<1>2. ASSUME NEW q \in 1..max_order_qty, Ledger(t)!ReserveBuy(q) PROVE Ledger(t)!ExposureBound'
    BY <1>2 DEF Ledger!ReserveBuy, Ledger!WithinLimit
<1>3. ASSUME NEW q \in 1..max_order_qty, Ledger(t)!ReserveSell(q) PROVE Ledger(t)!ExposureBound'
    BY <1>3 DEF Ledger!ReserveSell, Ledger!WithinLimit
<1>4. ASSUME NEW q \in 1..Reserved(t, "BUY"), Ledger(t)!FillBuy(q) \/ Ledger(t)!ReleaseBuy(q)
      PROVE  Ledger(t)!ExposureBound'
    BY <1>4 DEF Ledger!FillBuy, Ledger!ReleaseBuy
<1>5. ASSUME NEW q \in 1..Reserved(t, "SELL"), Ledger(t)!FillSell(q) \/ Ledger(t)!ReleaseSell(q)
      PROVE  Ledger(t)!ExposureBound'
    BY <1>5 DEF Ledger!FillSell, Ledger!ReleaseSell
<1>6. CASE UNCHANGED Ledger(t)!lvars
    BY <1>6 DEF Ledger!lvars
<1> QED
    BY <1>2, <1>3, <1>4, <1>5, <1>6 DEF LedgerTurn, Ledger!LNext

\* No step makes a reservation larger than max_order_qty.
Small(p) == \A id \in DOMAIN p : p[id].reserved_qty <= max_order_qty

LEMMA SmallReleased ==
    ASSUME TypeOK, Small(pending), NEW id, NEW qty \in Nat, covered(id, qty), releasePending(id, qty)
    PROVE  Small(pending')
<1>1. CASE pending[id].reserved_qty = qty
    BY <1>1 DEF releasePending, erasePending, Small
<1>2. CASE pending[id].reserved_qty # qty
    <2>1. id \in DOMAIN pending /\ pending[id] \in PendingType /\ pending[id].reserved_qty <= max_order_qty
        BY DEF covered, TypeOK, Small
    <2>2. /\ DOMAIN pending' = DOMAIN pending
          /\ pending'[id].reserved_qty = pending[id].reserved_qty - qty
          /\ \A other \in DOMAIN pending : other # id => pending'[other] = pending[other]
        BY <1>2, <2>1 DEF releasePending, PendingType
    <2>3. pending'[id].reserved_qty <= max_order_qty
        BY <2>1, <2>2, LimitsAssumption DEF PendingType
    <2> QED
        BY <2>2, <2>3 DEF Small
<1> QED
    BY <1>1, <1>2

LEMMA SmallStep ==
    ASSUME TypeOK, Small(pending), [Next]_vars
    PROVE  Small(pending')
<1>0. CASE UNCHANGED pending
    BY <1>0 DEF Small
<1>1. CASE StrategySendsNew
    <2>1. PICK ticker \in Tickers, side \in Sides, qty \in Quantities, price \in Prices, ioc \in TimesInForce :
              sendNewOrder(ticker, side, qty, price, ioc)
        BY <1>1 DEF StrategySendsNew
    <2>2. \/ qty <= max_order_qty /\ onSubmitted(Request("NEW", counter, 0, ticker, side, qty, ioc))
          \/ UNCHANGED pending
        BY <2>1 DEF sendNewOrder, canSubmit, Request
    <2> QED
        BY <1>0, <2>2 DEF onSubmitted, Request, Small
<1>2. CASE StrategySendsReplace
    <2>1. UNCHANGED pending \/ \E i \in DOMAIN orders : /\ orders[i].id \in DOMAIN pending
                                                         /\ onReplaced(orders[i].id, counter)
        BY <1>2 DEF StrategySendsReplace, sendReplace
    <2> QED
        BY <1>0, <2>1 DEF onReplaced, Small
<1>3. CASE EngineDeliversResponse
    <2>1. PICK r \in PossibleResponses : onOrderResponse(r)
        BY <1>3 DEF EngineDeliversResponse
    <2>2. r \in ResponseType
        BY <2>1, ResponsesTyped
    <2>3. \/ UNCHANGED pending
          \/ covered(r.id, r.qty) /\ releasePending(r.id, r.qty)
          \/ erasePending(r.id)
        BY <2>1 DEF onOrderResponse, Applies, OnAccepted, OnExecuted, OnCanceled, OnCancelRejected, OnRejected
    <2>4. CASE erasePending(r.id)
        BY <2>4 DEF erasePending, Small
    <2> QED
        BY <1>0, <2>2, <2>3, <2>4, SmallReleased DEF ResponseType
<1>4. StrategySendsCancel \/ GatewayPops \/ OperatorSetsTrading \/ UNCHANGED vars => UNCHANGED pending
    BY DEF StrategySendsCancel, sendCancel, GatewayPops, OperatorSetsTrading, SetTrading, vars, omVars
<1> QED
    BY <1>0, <1>1, <1>2, <1>3, <1>4 DEF Next

-----------------------------------------------------------------------------
LEMMA LedgerStart == Init => LedgerInv /\ \A t \in Tickers : Ledger(t)!LInit
<1> SUFFICES ASSUME Init PROVE LedgerInv /\ \A t \in Tickers : Ledger(t)!LInit
    OBVIOUS
<1>1. TypeOK /\ DOMAIN pending = {}
    BY InitTypes DEF Init
<1>2. \A t \in Tickers, side \in Sides : Reserved(t, side) = 0
    <2> SUFFICES ASSUME NEW t \in Tickers, NEW side \in Sides PROVE Reserved(t, side) = 0
        OBVIOUS
    <2>1. Entries(pending, t, side) = {}
        BY <1>1 DEF Entries
    <2> QED
        BY <2>1, ReservedNow, SumEmpty DEF ReservedIn
<1>3. \A t \in Tickers : net_qty[t] = 0 /\ Reserved(t, "BUY") = 0 /\ Reserved(t, "SELL") = 0
    BY <1>2 DEF Init, Sides
<1>4. max_abs_position \in Nat /\ (MaxPendingOrders - 1) * max_order_qty \in Nat
    <2>1. MaxPendingOrders - 1 \in Nat /\ max_order_qty \in Nat
        BY CapacitiesAssumption, LimitsAssumption
    <2> QED
        BY <2>1, LimitsAssumption
<1> QED
    BY <1>1, <1>3, <1>4 DEF LedgerInv, PositionBound, Ledger!LInit, Ledger!ExposureBound

LEMMA LedgerNext ==
    LedgerInv /\ [Next]_vars => LedgerInv' /\ \A t \in Tickers : LedgerTurn(t)
<1> SUFFICES ASSUME LedgerInv, [Next]_vars PROVE LedgerInv' /\ \A t \in Tickers : LedgerTurn(t)
    OBVIOUS
<1>1. TypeOK'
    BY TypeStep DEF LedgerInv
<1>2. \A t \in Tickers : LedgerTurn(t)
    BY <1>1, LedgerTurns
<1>3. Small(pending')
    BY SmallStep DEF LedgerInv, Small
<1>4. PositionBound'
    BY <1>1, <1>2, BoundKept DEF LedgerInv, PositionBound
<1> QED
    BY <1>1, <1>2, <1>3, <1>4 DEF LedgerInv, Small

\* Every step of the order manager and risk manager is, for each ticker, a
\* reservation that canSubmit checked, a fill or a release out of a reservation,
\* or leaves the ticker alone: replaces and stray responses included.
THEOREM LedgerImplemented == Spec => ImplementsLedger
<1>1. LedgerInv /\ [Next]_vars => LedgerInv'
    BY LedgerNext
<1>2. LedgerInv /\ [Next]_vars => [\A t \in Tickers : UNCHANGED Ledger(t)!lvars \/ Ledger(t)!LNext]_vars
    BY LedgerNext DEF LedgerTurn
<1>3. Init => LedgerInv /\ \A t \in Tickers : Ledger(t)!LInit
    BY LedgerStart
<1> QED
    BY <1>1, <1>2, <1>3, PTL DEF Spec, ImplementsLedger

\* The position and what is reserved on one side stay within max_abs_position plus
\* what the other pending orders can have reserved (canSubmit nets the two sides),
\* for every limit and capacity, with replaces and any responses.
THEOREM PositionIsBounded == Spec => []PositionBound
<1>1. Init => LedgerInv
    BY LedgerStart
<1>2. LedgerInv /\ [Next]_vars => LedgerInv'
    BY LedgerNext
<1>3. LedgerInv => PositionBound
    BY DEF LedgerInv
<1> QED
    BY <1>1, <1>2, <1>3, PTL DEF Spec

=============================================================================
