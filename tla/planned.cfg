SPECIFICATION FairSpec
CONSTANTS
    Key = {k1, k2}
    Settings <- TestnetSettings
    DemoKey = {}
    MaxCandle = 1
    MaxLost = 1
    MaxDemo = 1
    MaxRestarts = 0
    MaxFaults = 3
PROPERTIES
    CandleIsPlanned
CHECK_DEADLOCK FALSE
