----------------------------- MODULE MCAnalysis -----------------------------
(***************************************************************************)
(* Small instances, for TLC, of what is computed from the tables: the size *)
(* of a plan, the signals behind one, the levels of its exits, a backtest, *)
(* and the comparison of paper and testnet plans.  `part' chooses one of   *)
(* them in the initial state; the others stay as they start.               *)
(***************************************************************************)
EXTENDS SignalPlan, TLC

CONSTANTS Closes, Histories, Limits, Training, Testing,   \* Backtesting
          Parameters, RsiPeriod,
          Decimals, Planned, Prices, Steps, Ticks,         \* ProtectionLevels
          Kinds, CreatedAt, Rows, RowLimit, MaxPairingDelta  \* ShadowRun

VARIABLES
    part,
    entering, progress, quantity, step, price, mark, loss, gain, tick, seen, due,
    stored, loaded, test, stage,
    executed, paper, testnet, pairs, unmatched, reported

levelVars ==
    <<entering, progress, quantity, step, price, mark, loss, gain, tick, seen, due>>
backtestVars == <<stored, loaded, test, stage>>
shadowVars == <<executed, paper, testnet, pairs, unmatched, reported>>
allVars == <<part, vars, signalVars, levelVars, backtestVars, shadowVars>>

-----------------------------------------------------------------------------
Clusters == [s \in Symbol |-> CASE s \in {"BTC", "BTCDOM"} -> "btc"
                                [] s = "ETH"               -> "eth"
                                [] OTHER                   -> "large"]

Asked(symbol, signals, volatility, trend, regime, confidence, liquidity, stop) ==
    [symbol |-> symbol, signals |-> signals, volatility |-> volatility,
     trend |-> trend, regime |-> regime, confidence |-> confidence,
     liquidity |-> liquidity, stop |-> stop]

\* Sizes from 1.2075 % down, and requests the engine or the gate turns down.
Good(s) == Asked(s, 8500, 100, 80, "none", -1, 80, TRUE)

Requests ==
    UNION {
      {Good(s),
       Asked(s, 7200, 230, 60, "none", -1, 80, TRUE),
       Asked(s, 6800, 350, 20, "none", -1, 60, TRUE),
       Asked(s, 8500, 450, 80, "tendencia_alcista", 900000, 80, TRUE),
       Asked(s, 8500, 550, 50, "alta_volatilidad", 350000, 80, TRUE)} : s \in Symbol}
    \cup {[Good("BTC") EXCEPT !.stop = FALSE],
          [Good("BTC") EXCEPT !.volatility = 600],
          [Good("BTC") EXCEPT !.liquidity = 20],
          [Good("BTC") EXCEPT !.regime = "unknown"],
          [Good("BTC") EXCEPT !.signals = 5000]}

Account(account, cluster, symbol, guard, existing) ==
    [account |-> account, cluster |-> cluster, symbol |-> symbol,
     guard |-> guard, existing |-> existing]

\* The defaults, and accounts with tighter limits.
Portfolios ==
    {Account(50000, 25000, 15000, TRUE, e) : e \in {0, 30000, 45000}}
    \cup {Account(30000, 20000, 12000, g, 0) : g \in BOOLEAN}
    \cup {Account(15000, 15000, 15000, TRUE, 0)}

-----------------------------------------------------------------------------
\* Averages on both sides of each other, near and far enough apart for a
\* trend; the RSI, the move and the volatility on both sides of the limits.
Candles ==
    [spread : {-145, -140, 0, 40, 145}, rsi : {30, 45, 50, 55, 70},
     momentum : {-20, 20}, atr : {50, 150, 250}]

-----------------------------------------------------------------------------
Entered(direction, from, exit, profit, risk) ==
    [side |-> direction, entry |-> from, stop |-> exit, target |-> profit, budget |-> risk]

\* Exits further away than the tenth of a percent, nearer, and a plan without
\* a stop of its own.
Entries ==
    {Entered("long", 20000, 19760, 20400, 40000), Entered("short", 20000, 20240, 19600, 40000),
     Entered("long", 20000, 19990, 20015, 40000), Entered("short", 20000, 20010, 19985, 40000),
     Entered("long", 20000, 20000, 20400, 40000)}

Levels == INSTANCE ProtectionLevels WITH
    Plan <- Planned, Price <- Prices, StepSize <- Steps, TickSize <- Ticks,
    plan <- entering, stage <- progress, stop <- loss, target <- gain

\* Prices and sizes are numbers, and a size that could be read is not 0.
ASSUME LevelsAssumption ==
    /\ Planned # {}
    /\ Planned \subseteq [side : {"long", "short"}, entry : Nat, stop : Nat,
                          target : Nat, budget : Nat]
    /\ Prices \subseteq Nat
    /\ Steps \subseteq Nat \ {0} /\ Ticks \subseteq Nat \ {0}

\* What is known of powers of ten: they are numbers, and below the largest of
\* them every size is near one.
ASSUME PowersAssumption ==
    /\ Decimals \in Nat
    /\ Levels!Powers \subseteq Nat \ {0}
    /\ \A s \in Steps \cup Ticks :
         s < Levels!Whole => \E p \in Levels!Powers : p * p <= 10 * s * s /\ s * s < 10 * p * p

-----------------------------------------------------------------------------
\* Two parameters that judge candles differently, and histories in which the
\* price moves most of the time, one of them too short and one too long.
TwoParameters == << [fast |-> 2, slow |-> 4, entry |-> 50, exit |-> 47],
                    [fast |-> 2, slow |-> 3, entry |-> 50, exit |-> 30] >>

Walks == {h \in [1 .. 9 -> Closes] :
             h[1] = 1 /\ h[2] = 0 /\ \A i \in 3 .. 9 : h[i] # h[i - 1] \/ i % 3 = 0}

PriceHistories == Walks \cup {<<>>, <<1>>} \cup {<<2>> \o h : h \in {h \in Walks : h[9] = 2}}

\* The schema of the request and the candidates: windows of some candles,
\* averages of different periods, thresholds that leave a trade room.
ASSUME BacktestAssumption ==
    /\ {Training, Testing, RsiPeriod} \subseteq Nat \ {0} /\ Limits \subseteq Nat \ {0}
    /\ Closes \subseteq Nat /\ Histories \subseteq Seq(Closes)
    /\ Parameters \in Seq([fast : Nat, slow : Nat, entry : 0 .. 100, exit : 0 .. 100]) \ {<<>>}
    /\ \A k \in DOMAIN Parameters :
         /\ 2 <= Parameters[k].fast /\ Parameters[k].fast < Parameters[k].slow
         /\ Parameters[k].exit < Parameters[k].entry

Backtest == INSTANCE Backtesting WITH rows <- loaded

\* Times and the row limit are numbers.
ASSUME ShadowAssumption == CreatedAt \subseteq Int /\ RowLimit \in Nat

Shadow == INSTANCE ShadowRun WITH
    plans <- executed, MaxPlans <- Rows, Times <- CreatedAt

-----------------------------------------------------------------------------
\* The parts as they start; of several ways, one.
SizingRests   == portfolio = Account(50000, 25000, 15000, TRUE, 0) /\ Init
SignalsRest ==
    /\ strategy = "hybrid" /\ candle = CHOOSE c \in IndicatorSnapshots : TRUE
    /\ closed = 0 /\ snapshot = Waiting /\ regimeSnapshot = Waiting /\ side = "none"
LevelsRest == entering = (CHOOSE e \in Planned : TRUE) /\ Levels!Init
BacktestRests == stored = <<>> /\ Backtest!Init
ShadowRests   == Shadow!Reads(<<>>)

OthersRest(chosen) ==
    /\ part = chosen
    /\ chosen \notin {"sizing", "signals"} => SizingRests
    /\ chosen # "signals" => SignalsRest
    /\ chosen # "levels" => LevelsRest
    /\ chosen # "backtest" => BacktestRests
    /\ chosen # "shadow" => ShadowRests

AnalysisInit ==
    \/ OthersRest("sizing") /\ Init
    \/ OthersRest("signals") /\ SizingRests /\ SignalInit
    \/ OthersRest("levels") /\ Levels!Init
    \/ OthersRest("backtest") /\ Backtest!Init
    \/ OthersRest("shadow") /\ Shadow!Init

AnalysisNext ==
    \/ part = "sizing" /\ Next /\ UNCHANGED <<part, signalVars, levelVars, backtestVars, shadowVars>>
    \/ part = "signals" /\ SignalNext /\ UNCHANGED <<part, levelVars, backtestVars, shadowVars>>
    \/ part = "levels" /\ Levels!Next /\ UNCHANGED <<part, vars, signalVars, backtestVars, shadowVars>>
    \/ part = "backtest" /\ Backtest!Next /\ UNCHANGED <<part, vars, signalVars, levelVars, shadowVars>>
    \/ part = "shadow" /\ Shadow!Next /\ UNCHANGED <<part, vars, signalVars, levelVars, backtestVars>>

AnalysisSpec == AnalysisInit /\ [][AnalysisNext]_allVars

-----------------------------------------------------------------------------
\* The types of every part.
EveryTypeOK ==
    /\ part \in {"sizing", "signals", "levels", "backtest", "shadow"}
    /\ part # "signals" => TypeOK
    /\ SignalTypeOK /\ Levels!TypeOK /\ Backtest!TypeOK /\ Shadow!TypeOK

\* No exit of an execution is due where the market was, and one at its stop
\* costs the plan's budget (_derive_protection_prices, _round_to_step).
ExitsFollowMarket == Levels!ExitsFollowMarket

\* No window of a backtest looks ahead of the candle it judges (run and
\* _simulate_strategy).
NoLookAhead == Backtest!NoLookAhead

\* The warm-up of a test window is enough for its first candle (max_warmup).
FirstTestCandleIsJudged == Backtest!FirstTestCandleIsJudged

\* Capital, trades and equity curve agree across the windows, the forced sale
\* at their ends included (run, _simulate_from_signals).
FiguresAgree == Backtest!FiguresAgree

\* Greedy pairing accounts for every plan and leaves out no comparison it
\* could still make (_pair_plans, build_report).
NoPairMissed == Shadow!NoPairMissed
=============================================================================
