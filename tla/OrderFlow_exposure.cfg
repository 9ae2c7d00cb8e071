SPECIFICATION FlowSpec
CONSTANTS
    Tickers = {t1}
    Quantities = {1, 2}
    Prices = {1}
    TimesInForce = {TRUE, FALSE}
    MaxOrders = 2
    MaxPendingOrders = 2
    max_abs_position = 2
    max_order_qty = 2
    max_order_notional = 2
    QueueCapacity = 1
    MaxId = 2
    ResponseQuantities = {}
    UsesReplace = FALSE
    ResponseCapacity = 1
    MaxClosings = 0
    PartialCancels = FALSE
INVARIANTS FlowTypeOK ExposureCoversExchange PositionAgrees LiveOrdersReserved
CHECK_DEADLOCK FALSE
