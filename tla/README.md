# TLA+ models of AlphaTrader

AlphaTrader is a trading client: a market-data thread follows a sequenced UDP feed and
repairs it over TCP, a trade engine turns book updates into orders under a risk check, and
a gateway thread exchanges OUCH messages with the exchange. These modules model the paths
where order of events decides correctness: **the feed**, from the network through recovery
to the engine's book, and **the life of an order**, from the strategy to the exchange and
back to the position. `PROJECT.json` maps every definition to the lines it models.

## The system and its parts

| Part | Source (under `src/src/`) | State that matters | Module |
|---|---|---|---|
| Sequencing and recovery | `market_data/market_data_{consumer,incremental,recovery}.cpp` | expected number, mode, three queues, TCP request, gate | `MarketDataConsumer` |
| ITCH decoder | `market_data/itch_decoder.cpp` | orders it tracks, by reference | `ItchDecoder` |
| Order manager | `trading/order_manager.h` | `orders_`, states, filled quantities | `OrderManager` |
| Risk manager | `trading/risk_manager.h` | `pending_`, trading switch | `OrderManager`, abstractly `RiskLedger` |
| PnL tracker | `trading/pnl_tracker.h` | position, average price, profits | `PnLTracker`; net position in `OrderManager` |
| Id allocator | `trading/order_id_allocator.h` | counter, slot bits | `TradeEngine`, `OrderManager` |
| Trade engine: loop and drains | `trading/trade_engine.h` | place in its loop | `OrderFlow`, `MarketDataPath` |
| Trade engine: slots | `trading/trade_engine.h` | books, entries, positions, limits | `TradeEngine` |
| Order gateway | `order_gateway/order_gateway.cpp` | two queues, session | `OrderFlow` |
| Market order book | `market_order_book.cpp` | levels, linked orders, pool, quotes | `MarketOrderBook`, abstractly `OrderBook` |
| Features and signal | `trading/features`, `trading/strategy.h` | none | `TradingFeatures` |
| `main.cpp`, UDP registration, scripts | | | not modelled |

Threads share three bounded single-producer queues and one atomic flag,
`market_data_synchronized`. The engine polls the flag and does nothing, not even drain
responses, while it is false. The recovery server, the exchange and the network are not in
the repository; they are modelled from how the code uses them and marked external.

## Modules

**`ItchDecoder`** – what decoding one frame does to the orders of a ticker, as operators.
`Decodes` says whether a frame is accepted: an execute, cancel, delete or replace of an
untracked reference is refused. `decodeOrderReplace` writes through a reference that
`slot.resize` may have invalidated; the write may or may not land, so `DecodeOrderReplace`
has both outcomes.

**`ExchangeFeed`** (external) – the numbered messages the exchange has published and the
book after each.

**`MarketDataConsumer`** – the market-data thread from `start()` on. One action per branch
of a handler: `RecvInRecovery`, `RecvBaseline`, `RecvExpected`, `RecvGap`, `RecvStale` are
`processIncremental`; `ReadSnapshot*` are `processSnapshot`; `ReadReplay*` are
`processReplay`; `TcpEof` is `onSnapshotTcpEof`. Each action contains everything its handler
calls (`StartReplaySync`, `AbortSnapshotSync`, `FinishReplaySync`, ...). UDP may deliver any
published frame at any time, any number of times or never. The connection may be cut
anywhere, also inside a frame; the server may lag behind the feed and, with
`FaultyServer`, answer out of order. `applied` (the numbers handed to the engine) and
`based` (a snapshot was handed over) are history variables.

**`SequencedStream`** – what the engine is promised: a run of consecutive numbers that a live
frame extends by one, a replay extends without a hole, and only a snapshot restarts.

**`MarketDataPath`** – `MarketDataConsumer` composed with the bounded queue to the engine, the
gate, the engine's drain and its book. A live frame is pushed in the step that accepts it;
a finish function's updates are pushed one by one (`outbox`), with the gate still closed,
while the engine may be draining. A push to a full queue ends the process (`aborted`), as
the `ASSERT` does. `shown` is the message the book has come to.

**`OrderBook`** – what a book promises: orders by reference and the effect of an update.
**`MarketOrderBook`** has the code's price levels, doubly linked nodes, node pool, index and
best quotes, one action per update type, and implements it. `unlinkOrder` and `linkOrder`
leave exactly the pointers the code leaves. `StaleReplaces` says whether a replace may
leave a stale pointer; without it a replace needs `CleanReplace`.

**`TradingFeatures`** – the market price, the imbalance and the order the strategy wants.
**`PnLTracker`** – what an execution and a mark do to a position, with truncated averages
and range checks. **`TradeEngine`** – registration step by step, the fan-out of a book
update to the slots, ids with slot bits, and executions routed by id. `history` records the
cash flow of each slot's own orders.

**`OrderManager`** – `OrderManager`, `RiskManager`, the position and the allocator: one step
per call, since all run on the engine thread. Responses are arbitrary: any status, id and
quantity of the chosen sets, in any order, so what holds needs nothing from the exchange.

**`RiskLedger`** – one ticker's position and its reserved buys and sells, with the limit check
of `canSubmit`. **`OrderLedger`** maps `OrderManager` to it.

**`OrderFlow`** – `OrderManager` composed with the engine loop, the gate, both queues, the
gateway, the session in both directions and an exchange that matches, cancels, replaces and
expires orders. A response that finds its queue full is dropped, as in `recvCallback`.

## Runs

| Run | Checks | Shows |
|---|---|---|
| `recovery` | `TypeOK`, `NoGapReachesEngine`, `RecoveryStateConsistent`, `ReplayQueueExact`, `ImplementsStream` | the engine is sent a gap-free stream under every network and server behaviour above |
| | `EngineBookExact`, `PipelineContiguous` | once a snapshot was applied, the engine's book is the exchange's as of the message it has come to, also while the next recovery is under way |
| | `EngineCatchesUp`, `RecoveryEndsOrWedges` | the book comes to what was pushed; a recovery ends unless the decoder refuses a replayed frame |
| `order_book` | `BookTypeOK`, `LevelsLinked`, `PoolBalanced`, `TopOfBook`, `ImplementsBook` | lists, totals, pool, index and quotes agree, and implement the abstract book |
| `engine` | `EngineTypeOK`, `EntriesComplete`, `ProfitMatchesCash`, `AverageWithinPaid`, `UnrealizedCurrent` | failed registrations leave nothing tradable; profit is the cash flow up to truncation |
| `orders_ledger` | `TypeOK`, `PositionBound`, `ImplementsLedger` | the order manager implements the ledger, replaces included |
| `flow_exposure` | `FlowTypeOK`, `ExposureCoversExchange`, `PositionAgrees`, `LiveOrdersReserved` | the risk manager never counts too little; order and reservation never drift apart |
| `flow_replace` | `TokensUnique` | no token is sent twice |
| `flow_settles` | `OrdersSettle` | if the gate stays open from some point on, every IOC order finishes, unless a response was dropped |

Five runs check a sentence of the repository that the code does not keep; the entry in
`findings` quotes it.

| Run | Property | What happens |
|---|---|---|
| `gate_without_snapshot` | `SynchronizedOnSnapshot` | the boot snapshot is aborted, a later replay opens the gate |
| `replay_never_ends` | `RecoveryEnds` | the frame that shows the gap was already decoded, so its replayed copy is refused for ever |
| `limit_exceeded` | `PositionWithinLimit` | a buy is let through against a pending sell that expires |
| `replace_loses_fill` | `PositionAgrees` | a fill under the old id finds no order |
| `book_stale_replace` | `OrdersAtBestQuote` | a replaced order is deleted, its empty level stays as best bid, and the strategy sells at it |

`RecoveryEndsOrWedges` and `replay_never_ends` belong together: the first says that a
replayed frame the decoder refuses is the only way to stay in recovery, the second that this
way exists.

### Known disagreements without a run

TLC was also used to look at two further behaviours, whose runs are not kept:

* `abortSnapshotSync`, and `startSnapshotSync` after a denied replay, clear the queued
  incrementals. `src/README.md:161` says "Incrementals received during recovery are queued,
  not dropped." A connection cut right after boot, with one frame queued, is enough. The
  frames lie below the baseline the next live frame sets and are not asked for again, which
  is why `NoGapReachesEngine` lets the run start above 1 until a snapshot is handed over.
* A partial cancel (`PartialCancels`) makes an order `CANCELLED`, described as "fully
  cancelled" at `src/src/trading/order_manager.h:38`, while the rest still works. A later fill
  is refused, so `PositionAgrees` fails (one order, quantity 2). `ExposureCoversExchange`
  holds on that instance, because the remainder's reservation is never released.

So `flow_exposure` speaks of strategies that neither replace nor cancel in part, like the
one in the repository.

### Bounds

* Feed: three messages of quantity 1, with replays for gaps of one (`MaxSeq`, `MaxQty`,
  `REPLAY_CAPACITY`). Three numbers are the fewest with a baseline, a lost frame and the
  frame that shows the gap; a gap of one asks for a replay, which the server may grant or
  deny, and a gap of two for a snapshot. `MaxCuts` bounds broken connections, `ServerLag` how
  far an answer is behind. Messages are adds, executes and replaces; with quantity 1 an
  execute ends its order, as a delete does. Partial executions of the book are in
  `order_book`, and the sequence properties are proved for every feed.
* `QueueCapacity` 4: a snapshot with an order and a queued frame fits, more does not, so the
  abort happens.
* Book: four orders and four nodes on two prices a side, so an order has both neighbours
  and may be first, middle or last; references and nodes are symmetric.
* Engine: room for one of two tickers and two of three slots, so every table refuses;
  orders of three, filled in parts at two prices (`MaxFills` 4), so averages are truncated
  and positions close and flip; `MaxInt64` 6, so profits overflow.
* Orders: two slots and two reservations, so both tables fill up; three ids where an id must
  outlive a slot; quantities 1 and 2 so that fills are partial; one ticker, since no check
  relates two tickers. Queues hold one or two entries, so they fill up. A response carries 0 or
  one of `ResponseQuantities`, up to more than is left to fill, so refused ones occur.
* `MaxClosings` bounds how often the gate closes, `MaxId` the id counter.

`CHECK_DEADLOCK FALSE` everywhere: with the feed, the ids or the cuts used up, the system is
idle and may stop.

### Fairness

* `FairPathSpec`: the thread polls its sockets and pushes to the end of a finish function,
  the server answers, the engine polls the gate and drains. Nothing is assumed of UDP.
* `FairSpec` (in `replay_never_ends`): the thread polls its sockets for ever (`run()`), and the server answers a
  request. Nothing is assumed of UDP or of the feed.
* `FairFlowSpec`: the engine and gateway threads loop for ever, TCP delivers, and the
  exchange answers and finishes IOC orders. Nothing makes the strategy act. Nothing makes a
  closed gate open again either: a recovery may never end (`replay_never_ends`), and an
  abort leaves the gate closed until a later frame. `OrdersSettle` therefore has the open
  gate as its premise (`<>[]gate`).

## Proofs

All theorems hold for every value of the constants under the named assumptions (bounds are
natural numbers, capacities positive).

**`MarketDataProofs`** proves `RecoveryTypeCorrect`, `NoGapEver`, `RecoveryConsistent`,
`ReplayExact` and `StreamImplemented` (the refinement of `SequencedStream`). The inductive
invariant is `RecoveryInv`: the four invariants, plus `ConnectionInv` (what the connection
can hold in each mode, and that the replay's last applied number never runs ahead of what
was received) and `SnapshotInv` (queued and outstanding snapshot orders are the book).
Without the first, a stream left over from one mode could be read in another; without the
second, an END could arrive with orders missing. There is one lemma per handler, and
`StreamStep` shows each step to be a step of the stream or a stutter. `RunExtends` is the
heart: a replay that ends one below the queue's first frame joins two runs into one.

**`OrderManagerProofs`** proves `TypeCorrect` for all behaviours and `OrdersStayReserved` for
those without replaces. `OrdersInv` adds to `LiveOrdersReserved` that ids are distinct and
below the counter, and that unfinished orders have something left to fill. The restriction
is real: `sendReplace` changes the order's quantity and leaves the reservation's, so with
replaces the property is false. It assumes nothing about responses, whereas the run
`flow_exposure` checks `LiveOrdersReserved` with the responses the exchange really sends.

**`TradeEngineProofs`** proves `RegistrationComplete` and `ProfitNeverStale`. `EngineInv` adds
to the two invariants that the tables have a row per slot and that positions keep their
fields. The argument is that `registerTicker` makes the entry last, that no other step
changes the tables, and that `onExecution` and `onMark` either refuse or recompute
(`OnExecutionCurrent`, `OnMarkCurrent`); `PositionChanged` carries this to the tables.

**`RiskLedgerProofs`** proves `ExposureIsBounded`: under `LedgerAssumption` (limits are
natural numbers), `position + buys` is at most the limit plus the most the other side can
have reserved, and symmetrically. The bound is inductive
because reservation checks the net, and a fill moves quantity from reservation to position.

**`SumLemmas`** has the facts about sums over finite sets that the next module needs:
the recursion of the community modules' fold, removal of an element, equality, bounds.
Induction over sets is out of the provers' reach as a rule, so each induction takes a
smallest set for which the claim fails (`SmallestSet`) and removes one element from it.

**`OrderLedgerProofs`** proves `LedgerImplemented` (the refinement of `RiskLedger`, step by
step and for every ticker) and `PositionIsBounded`, with replaces and arbitrary responses.
The invariant, `LedgerInv`, adds to `TypeOK` that no reservation is larger than
`max_order_qty`, which is what makes the other side's reservations at most
`(MaxPendingOrders - 1) * max_order_qty`.

**`OrderFlowProofs`** proves `FlowIsTyped` and `TokensAreUnique` for every interleaving of
engine, gateway and exchange. `FlowTypes` adds the types of the messages under way;
`TokensInv` adds that every token in a queue, on the wire or at the exchange is below the
counter. `FlowIsTyped` assumes `NoZeroReplace`: `sendReplace` does not look at the
quantity, so a strategy that replaces an order by nothing puts an empty order at the
exchange.

Only model-checked: liveness (`RecoveryEndsOrWedges`, `EngineCatchesUp`, `OrdersSettle`),
`LevelsLinked`, `ImplementsBook` and the other `MarketOrderBook` properties (lists need
induction along pointers), `ProfitMatchesCash` and `AverageWithinPaid` (products and
quotients of variables), `EngineTypeOK`, `EngineBookExact`, `PipelineContiguous`, and of
`OrderFlow` `ExposureCoversExchange` and `PositionAgrees`.

## Not modelled

* Message bytes, framing and field conversion; UDP registration; connection set-up (a
  request is taken to go out, although the code sends right after a non-blocking connect).
* What the node pool does when it is empty, which is library code.
* The spread and trade-ratio features, which nothing reads; statistics; `totalPnL`.
* `setStrategy`, argument parsing, thread start-up and shutdown, scripts.
* Ids past 2^48, where the counter wraps.
* The pieces are composed in pairs, never all at once: `MarketDataPath` uses the abstract
  book that `MarketOrderBook` is shown to implement (for replaces that leave no stale
  pointer), `OrderFlow` has one slot and lets the strategy send any order, `TradeEngine` has
  the slots and an exchange that only executes and cancels.

## Plan

1. Proofs: `PipelineContiguous` for every queue and feed, `OrderFlow`'s
   `ExposureCoversExchange` and `PositionAgrees`.
2. Contents of decoded updates: the side and price a stale decoder entry would supply.
