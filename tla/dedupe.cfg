SPECIFICATION Spec
CONSTANTS
    Key = {k1}
    Settings <- AllSettings
    DemoKey = {k1}
    MaxCandle = 1
    MaxLost = 0
    MaxDemo = 1
    MaxRestarts = 0
    MaxFaults = 1
INVARIANTS
    OnePlanPerCandle
CHECK_DEADLOCK FALSE
