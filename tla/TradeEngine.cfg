CONSTANTS
    Tickers = {t1, t2}
    MaxTickers = 1
    MaxSlots = 2
    slot_count = 3
    CounterSize = 3
    Quotes <- MCQuotes
    FillPrices = {1, 4}
    order_qty = 3
    entry_imbalance = 500000
    MaxFills = 4
    MaxInt64 = 6
SPECIFICATION Spec
INVARIANTS EngineTypeOK EntriesComplete ProfitMatchesCash AverageWithinPaid UnrealizedCurrent
CHECK_DEADLOCK FALSE
