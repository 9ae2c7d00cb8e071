SPECIFICATION FlowSpec
CONSTANTS
    Tickers = {t1}
    Quantities = {1}
    Prices = {1}
    TimesInForce = {FALSE}
    MaxOrders = 2
    MaxPendingOrders = 2
    max_abs_position = 2
    max_order_qty = 2
    max_order_notional = 2
    QueueCapacity = 1
    MaxId = 2
    ResponseQuantities = {}
    UsesReplace = TRUE
    ResponseCapacity = 2
    MaxClosings = 0
    PartialCancels = FALSE
INVARIANTS PositionAgrees
CHECK_DEADLOCK FALSE
