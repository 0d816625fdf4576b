SPECIFICATION Spec
CONSTANTS
    Key = {k1}
    Settings <- AllSettings
    DemoKey = {k1}
    MaxCandle = 2
    MaxLost = 2
    MaxDemo = 2
    MaxRestarts = 1
    MaxFaults = 2
CONSTRAINT FaultBound
INVARIANTS
    TypeOK
    MarkedMeansPlanned
    RepetitionIsPaid
CHECK_DEADLOCK FALSE
