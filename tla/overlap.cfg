SPECIFICATION Spec
CONSTANTS
    a = a
    b = b
    btc = btc
    MaxFaults = 1
    Plan = {a, b}
    Symbol = {btc}
    SymbolOf <- OneSymbol
    Dir <- AllLong
    Qty <- QtyOne
    Exec = {e1, e2}
    Paper = {}
    Sync = {}
    OneAtATime = FALSE
    None = None
INVARIANTS
    OneOpenRowPerSlot
CHECK_DEADLOCK FALSE
