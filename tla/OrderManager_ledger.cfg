SPECIFICATION Spec
CONSTANTS
    Tickers = {t1}
    Quantities = {2}
    Prices = {1, 2}
    TimesInForce = {TRUE}
    MaxOrders = 2
    MaxPendingOrders = 2
    max_abs_position = 2
    max_order_qty = 2
    max_order_notional = 2
    QueueCapacity = 1
    MaxId = 3
    ResponseQuantities = {1, 2}
    UsesReplace = TRUE
INVARIANTS TypeOK PositionBound
PROPERTY ImplementsLedger
CHECK_DEADLOCK FALSE
