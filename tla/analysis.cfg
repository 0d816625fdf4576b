SPECIFICATION AnalysisSpec
CONSTANTS
    Symbol = {"BTC", "BTCDOM", "ETH"}
    ClusterOf <- Clusters
    Request <- Requests
    Portfolio <- Portfolios
    MaxPlans = 3
    MaxAccount = 50000
    MaxTrade = 12500
    MinScore = 6000
    HighVolatility = 400
    GateAccount = 48000
    Closes = {0, 1, 2}
    Training = 5
    Testing = 2
    Limits = {8, 9}
    RsiPeriod = 2
    Parameters <- TwoParameters
    Histories <- PriceHistories
    Kinds = {"long", "short"}
    CreatedAt = {0, 1, 3}
    Rows = 5
    RowLimit = 4
    MaxPairingDelta = 2
    Traded = "BTC"
    IndicatorSnapshots <- Candles
    Liquidity = {30, 90}
    Decimals = 2
    Planned <- Entries
    Prices = {18000, 20000, 21000}
    Steps = {1, 5, 10, 50}
    Ticks = {1, 5, 10, 25}
INVARIANTS
    EveryTypeOK
    LimitsHold
    ReportingNeverPays
    OutsideRegimeIsNoBolder
    NoLookAhead
    FirstTestCandleIsJudged
    FiguresAgree
    NoPairMissed
    ApprovedFollowSignals
    ExitsFollowMarket
CHECK_DEADLOCK FALSE
