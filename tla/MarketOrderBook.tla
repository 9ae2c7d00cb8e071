--------------------------- MODULE MarketOrderBook ---------------------------
(***************************************************************************)
(* The order book of one ticker as the code builds it                      *)
(* (src/src/market_order_book.cpp): nodes of a pool, linked into price     *)
(* levels by next and prev, and an index from order reference to level and *)
(* node.                                                                   *)
(*                                                                         *)
(* mem is the memory the pointers live in: mem.node[n] is a BookOrder and  *)
(* mem.level[<<side, price>>] a PriceLevel, for the prices that bids_ and  *)
(* asks_ hold.  The pool is external: it hands out any node that is free.  *)
(* Nothing is assumed of what a freed node holds; it is shown as Fresh(0). *)
(***************************************************************************)
EXTENDS OrderBook, TradingFeatures, FiniteSets, FiniteSetsExt

CONSTANTS
    Refs,           \* order references
    Prices,         \* prices of orders
    Quantities,     \* quantities of orders, executes and cancels
    Nodes,          \* nodes of the order pool
    Null,           \* nullptr
    StaleReplaces,  \* FALSE: only replaces that leave no stale pointer arrive
    EntryImbalance  \* the strategy's threshold

ASSUME BookAssumption ==
    /\ Prices \subseteq Nat /\ Quantities \subseteq Nat \ {0}
    /\ Null \notin Nodes /\ IsFiniteSet(Nodes) /\ IsFiniteSet(Prices)
    /\ StaleReplaces \in BOOLEAN /\ EntryImbalance \in Nat

VARIABLES
    mem,            \* the nodes and the price levels
    used,           \* nodes the pool has handed out
    order_index,    \* order_index_: level and node of every order, by reference
    bbo,            \* bbo_
    in_snapshot     \* in_snapshot_

vars == <<mem, used, order_index, bbo, in_snapshot>>

Sides == {"BUY", "SELL"}

Fresh(qty) == [qty |-> qty, next |-> Null, prev |-> Null]

NoLevels == [at \in {} |-> 0]

NoQuotes == [bid_price |-> Price_INVALID, bid_qty |-> 0, ask_price |-> Price_INVALID, ask_qty |-> 0]

Init ==
    /\ mem = [node |-> [n \in Nodes |-> Fresh(0)], level |-> NoLevels]
    /\ used = {}
    /\ order_index = NoOrders
    /\ bbo = NoQuotes
    /\ in_snapshot = FALSE

-----------------------------------------------------------------------------
(***************************************************************************)
(* Levels and links, as functions of the memory                            *)
(***************************************************************************)
getOrCreateLevel(m, at) ==
    IF at \in DOMAIN m.level
    THEN m
    ELSE [m EXCEPT !.level = With(m.level, at, [qty |-> 0, head |-> Null, tail |-> Null])]

\* Mutant: the order's quantity is not added to the level's.
linkOrder_NoTotal(m, at, n) ==
    LET lv == m.level[at]
    IN  [node  |-> IF lv.head = Null THEN m.node
                   ELSE [m.node EXCEPT ![n].prev = lv.tail, ![lv.tail].next = n],
         level |-> [m.level EXCEPT ![at].head = IF lv.head = Null THEN n ELSE @, ![at].tail = n]]

\* The order's next is never set, and its prev only when the level has orders.
linkOrder(m, at, n) ==
    LET lv == m.level[at]
    IN  [node  |-> IF lv.head = Null THEN m.node
                   ELSE [m.node EXCEPT ![n].prev = lv.tail, ![lv.tail].next = n],
         level |-> [m.level EXCEPT ![at] = [qty  |-> lv.qty + m.node[n].qty,
                                            head |-> IF lv.head = Null THEN n ELSE lv.head,
                                            tail |-> n]]]

\* Mutant: the tail is not moved back when the last order leaves.
unlinkOrder_KeepsTail(m, at, n) ==
    LET o == m.node[n]
    IN  [node  |-> [k \in Nodes |-> [m.node[k] EXCEPT !.next = IF k = o.prev THEN o.next ELSE @,
                                                      !.prev = IF k = o.next THEN o.prev ELSE @]],
         level |-> [m.level EXCEPT ![at].qty = @ - o.qty,
                                   ![at].head = IF o.prev = Null THEN o.next ELSE @]]

\* The order's own next and prev stay as they are.
unlinkOrder(m, at, n) ==
    LET o == m.node[n]
    IN  [node  |-> [k \in Nodes |-> [m.node[k] EXCEPT !.next = IF k = o.prev THEN o.next ELSE @,
                                                      !.prev = IF k = o.next THEN o.prev ELSE @]],
         level |-> [m.level EXCEPT ![at].qty = @ - o.qty,
                                   ![at].head = IF o.prev = Null THEN o.next ELSE @,
                                   ![at].tail = IF o.next = Null THEN o.prev ELSE @]]

\* bids_.erase or asks_.erase once the level has no head.
dropEmptyLevel(m, at) ==
    IF m.level[at].head = Null THEN [m EXCEPT !.level = Without(m.level, at)] ELSE m

deallocate(m, nodes) == [m EXCEPT !.node = [n \in Nodes |-> IF n \in nodes THEN Fresh(0) ELSE m.node[n]]]

\* The first entries of bids_ and asks_, which are ordered from the best price on.
updateBBO(m) ==
    LET bids == {p \in Prices : <<"BUY", p>> \in DOMAIN m.level}
        asks == {p \in Prices : <<"SELL", p>> \in DOMAIN m.level}
    IN  [bid_price |-> IF bids = {} THEN Price_INVALID ELSE Max(bids),
         bid_qty   |-> IF bids = {} THEN 0 ELSE m.level[<<"BUY", Max(bids)>>].qty,
         ask_price |-> IF asks = {} THEN Price_INVALID ELSE Min(asks),
         ask_qty   |-> IF asks = {} THEN 0 ELSE m.level[<<"SELL", Min(asks)>>].qty]

\* The nodes that clear() frees: what it meets from the head of a level on.
NodesFrom(head) ==
    LET at[k \in 0..Cardinality(Nodes)] ==
            IF k = 0 THEN head ELSE IF at[k - 1] = Null THEN Null ELSE mem.node[at[k - 1]].next
    IN  {at[k] : k \in DOMAIN at} \ {Null}

-----------------------------------------------------------------------------
(***************************************************************************)
(* applyUpdate, one action per update type.  An update that the book       *)
(* ignores changes nothing and is a stuttering step.                       *)
(***************************************************************************)
Add(ref, at, qty) ==
    /\ ref \notin DOMAIN order_index
    /\ \E n \in Nodes \ used :
        LET m == getOrCreateLevel(mem, at)
        IN  /\ mem' = linkOrder([m EXCEPT !.node[n] = Fresh(qty)], at, n)
            /\ used' = used \cup {n}
            /\ order_index' = With(order_index, ref, [at |-> at, node |-> n])
    /\ bbo' = updateBBO(mem')
    /\ UNCHANGED in_snapshot

\* Mutant: a level without orders stays in the map.
eraseOrder_KeepsLevel(ref) ==
    LET loc == order_index[ref]
    IN  /\ mem' = deallocate(unlinkOrder(mem, loc.at, loc.node), {loc.node})
        /\ used' = used \ {loc.node}
        /\ order_index' = Without(order_index, ref)

eraseOrder(ref) ==
    LET loc == order_index[ref]
    IN  /\ mem' = dropEmptyLevel(deallocate(unlinkOrder(mem, loc.at, loc.node), {loc.node}), loc.at)
        /\ used' = used \ {loc.node}
        /\ order_index' = Without(order_index, ref)

Delete(ref) ==
    /\ ref \in DOMAIN order_index
    /\ eraseOrder(ref)
    /\ bbo' = updateBBO(mem')
    /\ UNCHANGED in_snapshot

\* Mutant: an order reduced to nothing is kept.
reduceOrder_KeepsEmpty(ref, qty) ==
    LET loc == order_index[ref]
    IN  IF qty > mem.node[loc.node].qty
        THEN eraseOrder(ref)
        ELSE /\ mem' = [mem EXCEPT !.node[loc.node].qty = @ - qty, !.level[loc.at].qty = @ - qty]
             /\ UNCHANGED <<used, order_index>>

reduceOrder(ref, qty) ==
    LET loc == order_index[ref]
    IN  IF qty >= mem.node[loc.node].qty
        THEN eraseOrder(ref)
        ELSE /\ mem' = [mem EXCEPT !.node[loc.node].qty = @ - qty, !.level[loc.at].qty = @ - qty]
             /\ UNCHANGED <<used, order_index>>

\* EXECUTE and CANCEL
Reduce(ref, qty) ==
    /\ ref \in DOMAIN order_index
    /\ reduceOrder(ref, qty)
    /\ bbo' = updateBBO(mem')
    /\ UNCHANGED in_snapshot

\* A replace leaves no stale pointer when its order is the last of its level, and
\* either the only one or bound for a level that has orders.
CleanReplace(ref, at) ==
    LET loc == order_index[ref]
        o == mem.node[loc.node]
        m == dropEmptyLevel(unlinkOrder(mem, loc.at, loc.node), loc.at)
    IN  o.next = Null /\ (o.prev = Null \/ at \in DOMAIN m.level)

replaceOrder(ref, new_ref, at, qty) ==
    LET loc == order_index[ref]
        n == loc.node
        unlinked == getOrCreateLevel(dropEmptyLevel(unlinkOrder(mem, loc.at, n), loc.at), at)
    IN  /\ mem' = linkOrder([unlinked EXCEPT !.node[n].qty = qty], at, n)
        /\ order_index' = With(Without(order_index, ref), new_ref, [at |-> at, node |-> n])
        /\ UNCHANGED used

\* The decoder gives the update the side of the order it replaces.
Replace(ref, new_ref, price, qty) ==
    /\ ref \in DOMAIN order_index /\ new_ref \notin DOMAIN order_index
    /\ LET at == <<order_index[ref].at[1], price>>
       IN  /\ StaleReplaces \/ CleanReplace(ref, at)
           /\ replaceOrder(ref, new_ref, at, qty)
    /\ bbo' = updateBBO(mem')
    /\ UNCHANGED in_snapshot

\* Mutant: the nodes are not given back to the pool.
clear_Leaks ==
    /\ mem' = [mem EXCEPT !.level = NoLevels]
    /\ order_index' = NoOrders
    /\ bbo' = NoQuotes
    /\ UNCHANGED used

clear ==
    LET freed == UNION {NodesFrom(mem.level[at].head) : at \in DOMAIN mem.level}
    IN  /\ mem' = [deallocate(mem, freed) EXCEPT !.level = NoLevels]
        /\ used' = used \ freed
        /\ order_index' = NoOrders
        /\ bbo' = NoQuotes

onSnapshotStart == clear /\ in_snapshot' = TRUE

onSnapshotClear == clear /\ UNCHANGED in_snapshot

onSnapshotEnd == in_snapshot' = FALSE /\ bbo' = updateBBO(mem) /\ UNCHANGED <<mem, used, order_index>>

Next ==
    \/ \E ref \in Refs, at \in Sides \X Prices, qty \in Quantities : Add(ref, at, qty)
    \/ \E ref \in Refs : Delete(ref)
    \/ \E ref \in Refs, qty \in Quantities : Reduce(ref, qty)
    \/ \E ref, new_ref \in Refs, price \in Prices, qty \in Quantities : Replace(ref, new_ref, price, qty)
    \/ onSnapshotStart \/ onSnapshotClear \/ onSnapshotEnd

Spec == Init /\ [][Next]_vars

-----------------------------------------------------------------------------
(***************************************************************************)
(* Properties                                                              *)
(***************************************************************************)

\* The type invariant.
BookTypeOK ==
    /\ mem.node \in [Nodes -> [qty : Nat, next : Nodes \cup {Null}, prev : Nodes \cup {Null}]]
    /\ DOMAIN mem.level \subseteq Sides \X Prices
    /\ \A at \in DOMAIN mem.level :
        mem.level[at] \in [qty : Nat, head : Nodes \cup {Null}, tail : Nodes \cup {Null}]
    /\ used \subseteq Nodes
    /\ DOMAIN order_index \subseteq Refs
    /\ \A ref \in DOMAIN order_index : order_index[ref] \in [at : Sides \X Prices, node : Nodes]
    /\ in_snapshot \in BOOLEAN

NodesAt(at) == {order_index[ref].node : ref \in {r \in DOMAIN order_index : order_index[r].at = at}}

\* Every level's list is what the index says: walking next from the head, and prev
\* from the tail, meets exactly the orders indexed at that level, none of another
\* level and none that was freed; no level is empty, and its total_qty is the sum.
LevelsLinked ==
    /\ \A ref \in DOMAIN order_index : order_index[ref].at \in DOMAIN mem.level
    /\ \A at \in DOMAIN mem.level :
        LET lv == mem.level[at]
            listed == NodesFrom(lv.head)
        IN  /\ listed = NodesAt(at) /\ listed # {}
            /\ mem.node[lv.head].prev = Null /\ lv.tail \in listed /\ mem.node[lv.tail].next = Null
            /\ \A n, k \in listed : mem.node[n].next = k <=> mem.node[k].prev = n
            /\ lv.qty = MapThenSumSet(LAMBDA n : mem.node[n].qty, listed)

\* The pool's nodes in use are those of the indexed orders, each order with a node
\* of its own: nothing leaks, and nothing is given back twice.
PoolBalanced ==
    /\ used = {order_index[ref].node : ref \in DOMAIN order_index}
    /\ \A r1, r2 \in DOMAIN order_index : order_index[r1].node = order_index[r2].node => r1 = r2

\* The orders of the book, as the index leads to them.
Orders ==
    [ref \in DOMAIN order_index |->
        [side  |-> order_index[ref].at[1],
         price |-> order_index[ref].at[2],
         qty   |-> mem.node[order_index[ref].node].qty]]

\* The best price of the orders on a side, and the quantity there.
Quoted(side) == {Orders[ref].price : ref \in {r \in DOMAIN Orders : Orders[r].side = side}}

QtyAt(side, price) ==
    MapThenSumSet(LAMBDA ref : Orders[ref].qty,
                  {ref \in DOMAIN Orders : Orders[ref].side = side /\ Orders[ref].price = price})

\* README.md:615: begin() of either map is the top of the book, so bbo_ holds the
\* best price of the orders and the whole quantity there.
TopOfBook ==
    bbo = [bid_price |-> IF Quoted("BUY") = {} THEN Price_INVALID ELSE Max(Quoted("BUY")),
           bid_qty   |-> IF Quoted("BUY") = {} THEN 0 ELSE QtyAt("BUY", Max(Quoted("BUY"))),
           ask_price |-> IF Quoted("SELL") = {} THEN Price_INVALID ELSE Min(Quoted("SELL")),
           ask_qty   |-> IF Quoted("SELL") = {} THEN 0 ELSE QtyAt("SELL", Min(Quoted("SELL")))]

\* strategy.h:21: the strategy submits its order at the best quote.  A buy it would
\* send is at the lowest price somebody sells at, and a sell at the highest bid.
OrdersAtBestQuote ==
    ~in_snapshot =>
        \A order \in Signals(bbo, EntryImbalance) :
            IF order.side = "BUY"
            THEN Quoted("SELL") # {} /\ order.price = Min(Quoted("SELL"))
            ELSE Quoted("BUY") # {} /\ order.price = Max(Quoted("BUY"))

\* The updates that change a book, with the fields their type uses.
Updates ==
    LET order == [side : Sides, price : Prices, qty : Quantities]
    IN  [type : {"SNAPSHOT_CLEAR"}] \cup [type : {"DELETE"}, ref : Refs]
        \cup [type : {"EXECUTE"}, ref : Refs, qty : Quantities]
        \cup [type : {"ADD"}, ref : Refs, order : order]
        \cup [type : {"REPLACE"}, ref : Refs, new_ref : Refs, order : order]

\* Links, levels and pool implement the plain book: every step does to the orders
\* what one market update does to them in OrderBook.
ImplementsBook ==
    /\ Orders = NoOrders
    /\ [][LET before == Orders
              after == Orders'
          IN  \E u \in Updates : after = Applied(before, u)]_Orders

=============================================================================
