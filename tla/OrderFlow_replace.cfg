SPECIFICATION FlowSpec
CONSTANTS
    Tickers = {t1}
    Quantities = {1}
    Prices = {1}
    TimesInForce = {FALSE}
    MaxOrders = 2
    MaxPendingOrders = 2
    max_abs_position = 2
    max_order_qty = 2
    max_order_notional = 2
    QueueCapacity = 2
    MaxId = 3
    ResponseQuantities = {}
    UsesReplace = TRUE
    ResponseCapacity = 1
    MaxClosings = 0
    PartialCancels = TRUE
INVARIANTS TokensUnique
CHECK_DEADLOCK FALSE
