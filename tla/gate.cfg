SPECIFICATION CoreSpec
CONSTANTS
    a = a
    b = b
    btc = btc
    MaxFaults = 0
    Plan = {a}
    Symbol = {btc}
    SymbolOf <- OneSymbol
    Dir <- AllLong
    Qty <- QtyOne
    Exec = {e1}
    Paper = {}
    Sync = {s1}
    OneAtATime = TRUE
    None = None
    Rejected = {}
CONSTRAINT FaultBound
PROPERTIES
    TradesAccumulate
CHECK_DEADLOCK FALSE
