SPECIFICATION FairSpec
CONSTANTS
    a = a
    b = b
    btc = btc
    eth = eth
    e1 = e1
    e2 = e2
    Plan = {a, b}
    Symbol = {btc, eth}
    SymbolOf <- TwoSymbols
    Dir <- AllLong
    Qty <- QtyOne
    Exec = {e1, e2}
    Paper = {}
    Sync = {s1, s2}
    Late = {s2}
    OneAtATime = TRUE
    None = None
ACTION_CONSTRAINT LateAlone
PROPERTIES
    FilledExitIsSettled
CHECK_DEADLOCK FALSE
