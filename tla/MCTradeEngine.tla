---------------------------- MODULE MCTradeEngine ----------------------------
(***************************************************************************)
(* TradeEngine for TLC: quotes that make the strategy buy, make it sell,   *)
(* and leave one side of the book empty.                                   *)
(***************************************************************************)
EXTENDS TradeEngine

Quote(bid_price, bid_qty, ask_price, ask_qty) ==
    [bid_price |-> bid_price, bid_qty |-> bid_qty, ask_price |-> ask_price, ask_qty |-> ask_qty]

MCQuotes == {Quote(1, 3, 2, 1), Quote(2, 1, 3, 3), Quote(1, 3, Price_INVALID, 0)}

=============================================================================
