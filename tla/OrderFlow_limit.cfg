SPECIFICATION FlowSpec
CONSTANTS
    Tickers = {t1}
    Quantities = {2}
    Prices = {1}
    TimesInForce = {TRUE}
    MaxOrders = 2
    MaxPendingOrders = 2
    max_abs_position = 2
    max_order_qty = 2
    max_order_notional = 2
    QueueCapacity = 1
    MaxId = 3
    ResponseQuantities = {}
    UsesReplace = FALSE
    ResponseCapacity = 2
    MaxClosings = 0
    PartialCancels = FALSE
INVARIANTS PositionWithinLimit
CHECK_DEADLOCK FALSE
