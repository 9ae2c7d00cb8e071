----------------------------- MODULE TradeEngine -----------------------------
(***************************************************************************)
(* The trade engine's strategy slots (src/src/trading/trade_engine.h): the *)
(* registration of tickers, the fan-out of a book update to the slots, and *)
(* the way an execution finds its slot through the id and changes its      *)
(* position.                                                               *)
(*                                                                         *)
(* The slots' order managers and the session are OrderManager and          *)
(* OrderFlow; here an order is sent or refused, works at the exchange      *)
(* (external), and is executed or canceled there.                          *)
(***************************************************************************)
EXTENDS PnLTracker, OrderBook, FiniteSets

CONSTANTS
    Tickers,        \* tickers that may be registered
    MaxTickers,     \* capacity of every table of tickers
    MaxSlots,       \* capacity of the table of slots
    slot_count,     \* slots asked for in the constructor
    CounterSize,    \* 2^COUNTER_BITS
    Quotes,         \* best quotes of a book, as records
    FillPrices,     \* prices of executions
    order_qty,      \* IocSignalConfig of the strategy
    entry_imbalance,
    MaxFills        \* bound on the executions

ASSUME EngineAssumption ==
    /\ MaxTickers \in Nat /\ MaxSlots \in Nat /\ slot_count \in Nat
    /\ CounterSize \in Nat \ {0} /\ order_qty \in Nat \ {0} /\ entry_imbalance \in Nat
    /\ FillPrices \subseteq Nat /\ MaxFills \in Nat

VARIABLES
    running,    \* the engine thread has been started
    books,      \* tickers_: tickers with a book
    pnl,        \* pnl[slot]: positions of the tickers in the slot's PnL tracker
    risk,       \* risk[slot]: tickers with limits
    entries,    \* entries[slot]: tickers in the slot's entries_
    counter,    \* the id allocator's counter
    update,     \* the book update in processBookUpdate, or Idle
    working,    \* orders at the exchange, by id
    fills,      \* executions so far
    history     \* history[slot][ticker]: the executions of the slot's orders

registryVars == <<books, risk, entries>>
vars == <<running, registryVars, pnl, counter, update, working, fills, history>>

\* slot_count_: the constructor clamps the number of slots.
Slots == 0..((IF slot_count < MaxSlots THEN slot_count ELSE MaxSlots) - 1)

Idle == [busy |-> FALSE]

Init ==
    /\ running = FALSE
    /\ books = {}
    /\ pnl = [s \in Slots |-> NoOrders]
    /\ risk = [s \in Slots |-> {}]
    /\ entries = [s \in Slots |-> {}]
    /\ counter = 1
    /\ update = Idle
    /\ working = NoOrders
    /\ fills = 0
    /\ history = [s \in Slots |-> [t \in Tickers |-> [cash |-> 0, slack |-> 0, paid |-> {}, overflow |-> FALSE]]]

-----------------------------------------------------------------------------
(***************************************************************************)
(* Registration                                                            *)
(***************************************************************************)
Full(tickers) == Cardinality(tickers) = MaxTickers

\* Mutant: the entry is made before the limits are accepted.
registerTicker_EntryFirst(s, t, limits_ok) ==
    /\ ~running
    /\ t \notin entries[s] /\ ~Full(entries[s])
    /\ t \in books \/ ~Full(books)
    /\ books' = books \cup {t}
    /\ pnl' = [pnl EXCEPT ![s] = IF t \in DOMAIN @ THEN @ ELSE With(@, t, NoPosition)]
    /\ risk' = [risk EXCEPT ![s] = IF limits_ok THEN @ \cup {t} ELSE @]
    /\ entries' = [entries EXCEPT ![s] = @ \cup {t}]
    /\ UNCHANGED <<running, counter, update, working, fills, history>>

\* registerTicker: a book, a position, the limits and the entry, each of which may
\* be refused; what was done before the refusal stays.
registerTicker(s, t, limits_ok) ==
    /\ ~running
    /\ t \notin entries[s] /\ ~Full(entries[s])
    /\ t \in books \/ ~Full(books)
    /\ books' = books \cup {t}
    /\ LET tracked == t \in DOMAIN pnl[s] \/ ~Full(DOMAIN pnl[s])
           limited == tracked /\ limits_ok /\ t \notin risk[s] /\ ~Full(risk[s])
       IN  /\ pnl' = [pnl EXCEPT ![s] = IF tracked /\ t \notin DOMAIN @ THEN With(@, t, NoPosition) ELSE @]
           /\ risk' = [risk EXCEPT ![s] = IF limited THEN @ \cup {t} ELSE @]
           /\ entries' = [entries EXCEPT ![s] = IF limited THEN @ \cup {t} ELSE @]
    /\ UNCHANGED <<running, counter, update, working, fills, history>>

start ==
    /\ ~running /\ running' = TRUE
    /\ UNCHANGED <<registryVars, pnl, counter, update, working, fills, history>>

-----------------------------------------------------------------------------
(***************************************************************************)
(* Order ids                                                               *)
(***************************************************************************)
\* Mutant: the slot is not put into the id.
nextId_NoSlot(s) == counter % CounterSize

nextId(s) == s * CounterSize + (counter % CounterSize)

ownerOf(id) == IF id \div CounterSize < slot_count THEN id \div CounterSize ELSE slot_count

-----------------------------------------------------------------------------
(***************************************************************************)
(* Book updates, fanned out to the slots one after the other               *)
(***************************************************************************)
processBookUpdate(t, bbo, in_snapshot) ==
    /\ running /\ update = Idle
    /\ t \in books
    /\ update' = [busy |-> TRUE, ticker |-> t, bbo |-> bbo, in_snapshot |-> in_snapshot, slot |-> 0]
    /\ UNCHANGED <<running, registryVars, pnl, counter, working, fills, history>>

\* Mutant: the loop runs to the number of slots asked for, not to the clamped one.
NextSlot_Unclamped == IF update.slot + 1 < slot_count THEN [update EXCEPT !.slot = @ + 1] ELSE Idle

NextSlot == IF update.slot + 1 \in Slots THEN [update EXCEPT !.slot = @ + 1] ELSE Idle

\* sendNewOrder takes an id, and is refused or makes the order work.
Send(s, t, order) ==
    /\ counter < CounterSize
    /\ counter' = counter + 1
    /\ \/ working' = working
       \/ /\ t \in risk[s]
          /\ working' = With(working, nextId(s), [slot |-> s, ticker |-> t, side |-> order.side, qty |-> order_qty])

processSlotUpdate ==
    /\ update # Idle
    /\ LET s == update.slot
           t == update.ticker
           mark == MktPrice(update.bbo)
           signals == IF update.in_snapshot THEN {} ELSE Signals(update.bbo, entry_imbalance)
       IN  IF t \notin entries[s]
           THEN UNCHANGED <<pnl, counter, working>>
           ELSE /\ pnl' = IF mark # Price_INVALID THEN [pnl EXCEPT ![s][t] = onMark(@, mark)] ELSE pnl
                /\ IF signals = {} THEN UNCHANGED <<counter, working>>
                   ELSE \E order \in signals : Send(s, t, order)
    /\ update' = NextSlot
    /\ UNCHANGED <<running, registryVars, fills, history>>

-----------------------------------------------------------------------------
(***************************************************************************)
(* Responses: the exchange executes or cancels, drainResponses routes      *)
(***************************************************************************)
\* The executions of the slot's orders: the cash they cost or brought, the most
\* that truncated averages can hide, the prices paid for the open position, and
\* whether one was refused because a profit did not fit.
Recorded(h, pos, side, price, qty) ==
    LET open_qty == absQty(pos.net_qty)
        left == absQty(pos.net_qty + Signed(side, qty))
    IN  [cash     |-> h.cash - Signed(side, qty) * price,
         slack    |-> IF Extends(pos, side) /\ open_qty > 0 THEN h.slack + left - 1 ELSE h.slack,
         paid     |-> IF left = 0 THEN {} ELSE IF Extends(pos, side) THEN h.paid \cup {price}
                      ELSE IF qty > open_qty THEN {price} ELSE h.paid,
         overflow |-> h.overflow \/ ~Fits(Executed(pos, side, price, qty))]

\* An EXECUTED response reaches the slot that ownerOf finds, whose order manager
\* refuses an id it does not know.  A refused profit leaves the order DEAD.
drainExecution(id, price, qty) ==
    LET order == working[id]
        owner == ownerOf(id)
        pos == pnl[order.slot][order.ticker]
        fits == Fits(Executed(pos, order.side, price, qty))
    IN  /\ running /\ update = Idle /\ fills < MaxFills
        /\ fills' = fills + 1
        /\ working' = IF fits THEN Reduced(working, id, qty) ELSE Without(working, id)
        /\ pnl' = IF owner = order.slot /\ owner \in Slots
                  THEN [pnl EXCEPT ![owner][order.ticker] = onExecution(@, order.side, price, qty)]
                  ELSE pnl
        /\ history' = [history EXCEPT ![order.slot][order.ticker] = Recorded(@, pos, order.side, price, qty)]
        /\ UNCHANGED <<running, registryVars, counter, update>>

drainCanceled(id) ==
    /\ running /\ update = Idle
    /\ working' = Without(working, id)
    /\ UNCHANGED <<running, registryVars, pnl, counter, update, fills, history>>

Next ==
    \/ \E s \in Slots, t \in Tickers, limits_ok \in BOOLEAN : registerTicker(s, t, limits_ok)
    \/ start
    \/ \E t \in Tickers, bbo \in Quotes, in_snapshot \in BOOLEAN : processBookUpdate(t, bbo, in_snapshot)
    \/ processSlotUpdate
    \/ \E id \in DOMAIN working :
        \/ drainCanceled(id)
        \/ \E price \in FillPrices, qty \in 1..working[id].qty : drainExecution(id, price, qty)

Spec == Init /\ [][Next]_vars

-----------------------------------------------------------------------------
(***************************************************************************)
(* Properties                                                              *)
(***************************************************************************)

\* The type invariant: an update in progress is at a slot the constructor made
\* (trade_engine.h:60), and every table keeps the shape its readers rely on.
EngineTypeOK ==
    /\ running \in BOOLEAN /\ books \subseteq Tickers
    /\ \A s \in Slots : entries[s] \subseteq Tickers /\ risk[s] \subseteq Tickers
    /\ \A s \in Slots : \A t \in DOMAIN pnl[s] :
        pnl[s][t] \in [net_qty : Int, realized : Int, unrealized : Int, avg : Int, mark : Int]
    /\ update # Idle => update.slot \in Slots /\ update.ticker \in books
    /\ counter \in 1..CounterSize /\ fills \in 0..MaxFills
    /\ \A id \in DOMAIN working :
        working[id] \in [slot : Slots, ticker : Tickers, side : {"BUY", "SELL"}, qty : 1..order_qty]

\* A registration that is refused half way (trade_engine.h:82) leaves a book and a
\* position without an entry, never an entry without them: what a slot may trade
\* has a book, a position and limits, and limits are given to nothing else.
EntriesComplete ==
    \A s \in Slots : entries[s] = risk[s] /\ entries[s] \subseteq DOMAIN pnl[s] /\ DOMAIN pnl[s] \subseteq books

Drift(s, t) ==
    LET pos == pnl[s][t] IN history[s][t].cash + (IF pos.net_qty = 0 THEN 0 ELSE pos.net_qty * pos.avg) - pos.realized

\* Every slot's realized profit is the cash flow of its own orders' executions
\* plus the open position at its entry price, up to what the truncation at
\* pnl_tracker.h:63 has dropped, through partial fills, closes, flips and
\* whatever way the response took to the slot.
ProfitMatchesCash ==
    \A s \in Slots : \A t \in DOMAIN pnl[s] :
        ~history[s][t].overflow => absQty(Drift(s, t)) <= history[s][t].slack

\* The truncated average entry price never leaves the range of the prices paid
\* for the position that is open, and a flat position has none.
AverageWithinPaid ==
    \A s \in Slots : \A t \in DOMAIN pnl[s] :
        LET pos == pnl[s][t]
            paid == history[s][t].paid
        IN  ~history[s][t].overflow =>
                IF pos.net_qty = 0 THEN pos.avg = Price_INVALID
                ELSE \E low, high \in paid : low <= pos.avg /\ pos.avg <= high

\* The unrealized profit is never stale: it is that of the position and mark held
\* now, after every fill, close, flip and mark, and both profits fit their type.
UnrealizedCurrent ==
    \A s \in Slots : \A t \in DOMAIN pnl[s] :
        pnl[s][t].unrealized = Unrealized(pnl[s][t]) /\ Fits(pnl[s][t])

=============================================================================
