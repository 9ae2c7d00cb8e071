CONSTANTS
    Refs = {r1, r2, r3, r4}
    Prices = {1, 2}
    Quantities = {1, 2}
    Nodes = {n1, n2, n3, n4}
    Null = null
    StaleReplaces = FALSE
    EntryImbalance = 500000
SPECIFICATION Spec
INVARIANTS BookTypeOK LevelsLinked PoolBalanced TopOfBook
PROPERTY ImplementsBook
CHECK_DEADLOCK FALSE
SYMMETRY Symmetry
