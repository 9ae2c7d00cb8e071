----------------------------- MODULE OrderLedger ----------------------------
(***************************************************************************)
(* The order manager implements the ledger of every ticker: whatever       *)
(* responses arrive, and with replaces, each step is a reservation within  *)
(* the limit, a fill out of a reservation, a release, or neither.          *)
(***************************************************************************)
EXTENDS OrderManager

Ledger(t) ==
    INSTANCE RiskLedger WITH
        Limit <- max_abs_position,
        OrderQty <- max_order_qty,
        OtherSide <- (MaxPendingOrders - 1) * max_order_qty,
        position <- net_qty[t],
        buys <- Reserved(t, "BUY"),
        sells <- Reserved(t, "SELL")

\* Every step of the order manager is a step of the ledger of each ticker.
ImplementsLedger ==
    /\ \A t \in Tickers : Ledger(t)!LInit
    /\ [][\A t \in Tickers : UNCHANGED Ledger(t)!lvars \/ Ledger(t)!LNext]_vars

\* The bound proved of the ledger, on the order manager's own state.
PositionBound == \A t \in Tickers : Ledger(t)!ExposureBound

=============================================================================
