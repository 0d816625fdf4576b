SPECIFICATION Spec
CONSTANTS
    a = a
    b = b
    btc = btc
    MaxFaults = 1
    Plan = {a}
    Symbol = {btc}
    SymbolOf <- OneSymbol
    Dir <- AllLong
    Qty <- QtyOne
    Exec = {e1, e2}
    Paper = {}
    Sync = {s1}
    OneAtATime = FALSE
    None = None
SYMMETRY Symmetry
CONSTRAINT FaultBound
INVARIANTS
    TypeOK
    IInv
    RowsNeverAhead
    ClosedByFill
    ExecutedIffPositioned
CHECK_DEADLOCK FALSE
