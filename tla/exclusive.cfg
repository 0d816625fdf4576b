SPECIFICATION Spec
CONSTANTS
    a = a
    b = b
    btc = btc
    MaxFaults = 1
    Plan = {a, b}
    Symbol = {btc}
    SymbolOf <- OneSymbol
    Dir <- AllLong
    Qty <- QtyOne
    Exec = {e1, e2}
    Paper = {}
    Sync = {s1, s2}
    OneAtATime = TRUE
    None = None
SYMMETRY Symmetry
CONSTRAINT FaultBound
INVARIANTS
    OneOpenRowPerSlot
    ClosedPlanHasNoOpenRow
    NoSyntheticExitUnderProtection
PROPERTIES
    ClosedIsFinal
CHECK_DEADLOCK FALSE
