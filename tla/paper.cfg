SPECIFICATION Spec
CONSTANTS
    a = a
    b = b
    btc = btc
    MaxFaults = 1
    Plan = {a, b}
    Symbol = {btc}
    SymbolOf <- OneSymbol
    Dir <- AllLong
    Qty <- QtyOne
    Exec = {e1}
    Paper = {p1}
    Sync = {s1}
    OneAtATime = TRUE
    None = None
INVARIANTS
    PaperNeverTrades
CHECK_DEADLOCK FALSE
