CONSTANTS
    Refs = {r1, r2, r3, r4}
    Prices = {1, 2}
    Quantities = {1, 2}
    Nodes = {n1, n2, n3}
    Null = null
    StaleReplaces = TRUE
    EntryImbalance = 500000
SPECIFICATION Spec
INVARIANT OrdersAtBestQuote
CHECK_DEADLOCK FALSE
SYMMETRY Symmetry
