--------------------------- MODULE TradingFeatures ---------------------------
(***************************************************************************)
(* The features that the engine and the strategy read, and the strategy's  *)
(* signal, as functions of the best quotes of a book                       *)
(* (src/src/trading/features, src/src/trading/strategy.h).                 *)
(***************************************************************************)
EXTENDS Integers

Price_INVALID == -2147483647 - 1

Ratio_INVALID == -2147483647 - 1

Ratio_SCALE == 1000000

\* Division in C++ truncates toward zero.
Quotient(a, b) == IF a >= 0 THEN a \div b ELSE -((-a) \div b)

\* No quote on one of the sides.
OneSided(bbo) == bbo.bid_price = Price_INVALID \/ bbo.ask_price = Price_INVALID

\* MktPriceFeature: the price between the quotes, nearer to the smaller one.
MktPrice(bbo) ==
    IF OneSided(bbo) \/ bbo.bid_qty = 0 \/ bbo.ask_qty = 0
    THEN Price_INVALID
    ELSE Quotient(bbo.ask_price * bbo.bid_qty + bbo.bid_price * bbo.ask_qty, bbo.bid_qty + bbo.ask_qty)

\* OrderBookImbalanceFeature
Imbalance(bbo) ==
    IF OneSided(bbo) \/ bbo.bid_qty + bbo.ask_qty = 0
    THEN Ratio_INVALID
    ELSE Quotient((bbo.bid_qty - bbo.ask_qty) * Ratio_SCALE, bbo.bid_qty + bbo.ask_qty)

\* LiquidityTaker::evaluate: the orders it sends (none or one) on the quotes it
\* sees, with an imbalance computed from the same quotes.
Signals(bbo, entry_imbalance) ==
    LET imbalance == Imbalance(bbo)
        wanted == CASE imbalance = Ratio_INVALID -> {}
                    [] imbalance >= entry_imbalance -> {[side |-> "BUY", price |-> bbo.ask_price]}
                    [] imbalance <= -entry_imbalance -> {[side |-> "SELL", price |-> bbo.bid_price]}
                    [] OTHER -> {}
    IN  {order \in wanted : order.price # Price_INVALID}

=============================================================================
