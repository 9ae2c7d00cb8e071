------------------------------ MODULE PnLTracker -----------------------------
(***************************************************************************)
(* Positions, average entry price and profit and loss                      *)
(* (src/src/trading/pnl_tracker.h), as functions of one position.          *)
(***************************************************************************)
EXTENDS TradingFeatures

CONSTANT MaxInt64   \* largest value of the profit fields, 2^63 - 1 in the code

ASSUME PnlAssumption == MaxInt64 \in Nat

fitsInt64(value) == -MaxInt64 - 1 <= value /\ value <= MaxInt64

NoPosition ==
    [net_qty |-> 0, realized |-> 0, unrealized |-> 0, avg |-> Price_INVALID, mark |-> Price_INVALID]

absQty(qty) == IF qty < 0 THEN -qty ELSE qty

Signed(side, qty) == IF side = "BUY" THEN qty ELSE -qty

\* The profit of the open quantity at the last mark.
Unrealized(pos) ==
    IF pos.net_qty = 0 \/ pos.mark = Price_INVALID THEN 0 ELSE pos.net_qty * (pos.mark - pos.avg)

\* updateUnrealized; the caller gives up when the value does not fit.
updateUnrealized(pos) == [pos EXCEPT !.unrealized = Unrealized(pos)]

\* The execution opens a position or adds to it.
Extends(pos, side) == pos.net_qty = 0 \/ (pos.net_qty > 0) = (side = "BUY")

\* The average of the open quantity, truncated.
Averaged(pos, side, price, qty) ==
    LET old_qty == absQty(pos.net_qty)
    IN  [pos EXCEPT !.net_qty = @ + Signed(side, qty),
                    !.avg = IF old_qty = 0 THEN price
                            ELSE Quotient(pos.avg * old_qty + price * qty, old_qty + qty)]

\* Mutant: a flip keeps the average of the position it closed.
Closed_KeepsAverage(pos, side, price, qty) ==
    LET open_qty == absQty(pos.net_qty)
        closing  == IF open_qty < qty THEN open_qty ELSE qty
        per_unit == IF pos.net_qty > 0 THEN price - pos.avg ELSE pos.avg - price
    IN  [pos EXCEPT !.net_qty = @ + Signed(side, qty),
                    !.realized = @ + per_unit * closing,
                    !.avg = IF qty = open_qty THEN Price_INVALID ELSE @]

\* The execution closes the position, part of it, or more than there is of it.
Closed(pos, side, price, qty) ==
    LET open_qty == absQty(pos.net_qty)
        closing  == IF open_qty < qty THEN open_qty ELSE qty
        per_unit == IF pos.net_qty > 0 THEN price - pos.avg ELSE pos.avg - price
    IN  [pos EXCEPT !.net_qty = @ + Signed(side, qty),
                    !.realized = @ + per_unit * closing,
                    !.avg = IF qty > open_qty THEN price ELSE IF qty = open_qty THEN Price_INVALID ELSE @]

\* The position after an execution, before the range checks.
Executed(pos, side, price, qty) ==
    updateUnrealized(IF Extends(pos, side) THEN Averaged(pos, side, price, qty) ELSE Closed(pos, side, price, qty))

\* What does not fit is refused, and the position stays as it was.
Fits(pos) == fitsInt64(pos.realized) /\ fitsInt64(pos.unrealized)

onExecution(pos, side, price, qty) ==
    LET next == Executed(pos, side, price, qty) IN IF Fits(next) THEN next ELSE pos

\* Mutant: the unrealized profit is left as it was.
onMark_Stale(pos, mark) == [pos EXCEPT !.mark = mark]

onMark(pos, mark) ==
    LET next == updateUnrealized([pos EXCEPT !.mark = mark])
    IN  IF mark # Price_INVALID /\ Fits(next) THEN next ELSE pos

=============================================================================
