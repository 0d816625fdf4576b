SPECIFICATION ReportSpec
CONSTANTS
    a = a
    b = b
    btc = btc
    MaxFaults = 1
    Plan = {a, b}
    Symbol = {btc}
    SymbolOf <- OneSymbol
    Dir <- LongShort
    Qty <- QtyByPlan
    Exec = {e1}
    Paper = {p1}
    Sync = {s1}
    OneAtATime = FALSE
    None = None
    Rejected <- EntriesRejected
CONSTRAINTS
    FaultBound
    UntilDone
INVARIANTS
    DriftIsReal
    LastingDriftIsReported
PROPERTIES
    ImplementsLedger
CHECK_DEADLOCK FALSE
