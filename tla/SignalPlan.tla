----------------------------- MODULE SignalPlan -----------------------------
(***************************************************************************)
(* From indicators to a decision: the worker asks for the signals and for  *)
(* the market regime of a key at the same time, two requests the API       *)
(* answers each from the candles it then has, makes a side, the scores of  *)
(* a signal pack and a market context of them, and has a plan decided that *)
(* reports no other plans.  A regime that cannot be read is left out.      *)
(*                                                                         *)
(* A candle is what the indicators are once it is the latest: the distance *)
(* of the averages in 1/100 %, the RSI, the price's move over ten candles  *)
(* at an average of 1000, the ATR in 1/100 %; there are enough candles for *)
(* all of them.  Scores are in 1/100 points, the momentum score in 1/1000. *)
(***************************************************************************)
EXTENDS RiskSizing

CONSTANTS
    Traded,              \* the symbol of the key
    IndicatorSnapshots,  \* what the latest candle may make of the indicators
    Liquidity            \* liquidity scores, in points, a 24-hour volume may have

\* The measures at which every score below is a whole number of its unit.
ASSUME CandleAssumption ==
    /\ Traded \in Symbol
    /\ Liquidity \subseteq 0 .. 100
    /\ IndicatorSnapshots # {}
    /\ IndicatorSnapshots \subseteq [spread : Int, rsi : 0 .. 100, momentum : Int, atr : Nat]
    /\ \A c \in IndicatorSnapshots :
         /\ c.spread % 5 = 0 /\ c.momentum % 2 = 0 /\ c.atr % 10 = 0
         /\ c.rsi = 50 \/ (IF c.rsi > 50 THEN c.rsi - 50 ELSE 50 - c.rsi) % 3 = 2

VARIABLES
    strategy,        \* of the worker for this key: "hybrid" or "baseline"
    candle,          \* the latest candle
    closed,          \* candles closed since the worker asked
    snapshot,        \* what the signals were read of: a candle and its number
    regimeSnapshot,  \* what the regime was read of
    side             \* of the plan

signalVars == <<strategy, candle, closed, snapshot, regimeSnapshot, side>>

Waiting == [state |-> "waiting"]
Failed  == [state |-> "failed"]
Latest  == [state |-> "read", of |-> candle, number |-> closed]

Between(low, n, high) == Most(low, Least(n, high))
Distance(n, m) == IF n >= m THEN n - m ELSE m - n

-----------------------------------------------------------------------------
\* The signals: SignalService.
TrendBias(c) ==
    CASE c.spread > 0 -> "bullish" [] c.spread < 0 -> "bearish" [] OTHER -> "neutral"

MomentumBias(c) ==
    CASE c.rsi >= 55 /\ c.momentum > 0 -> "bullish"
      [] c.rsi <= 45 /\ c.momentum < 0 -> "bearish"
      [] OTHER                         -> "neutral"

VolatilityRegime(c) ==
    CASE c.atr >= 250 -> "high" [] c.atr \in 100 .. 249 -> "medium" [] OTHER -> "low"

\* The regime: MarketRegimeService.
TrendStrength(c) == Least(100, (Distance(c.spread, 0) * 2) \div 5)

MomentumScore(c) ==
    (65 * Between(0, 50000 + (c.rsi - 50) * 1400, 100000)
       + 35 * Between(0, 50000 + c.momentum * 1200, 100000)) \div 100

Classify(c) ==
    LET Both(bias) == TrendBias(c) = bias /\ MomentumBias(c) = bias
        strong     == TrendStrength(c) >= 58
    IN CASE VolatilityRegime(c) = "high" -> "alta_volatilidad"
         [] VolatilityRegime(c) # "high" /\ Both("bullish") /\ strong
              /\ MomentumScore(c) >= 58000 -> "tendencia_alcista"
         [] VolatilityRegime(c) # "high" /\ Both("bearish") /\ strong
              /\ MomentumScore(c) <= 42000 -> "tendencia_bajista"
         [] OTHER -> IF TrendStrength(c) <= 35 THEN "rango_lateral" ELSE "transicion"

\* _regime_confidence, in 1/10000 points.
RegimeConfidence(c) ==
    LET trend   == TrendStrength(c) * 100
        calm    == 10000 - VolatilityScore(c.atr)
        neutral == Most(0, 100000 - 2 * Distance(MomentumScore(c), 50000))
        Along(momentum) == trend * 45 + (momentum * 7) \div 2 + calm * 20
    IN CASE Classify(c) = "alta_volatilidad"  -> VolatilityScore(c.atr) * 100
         [] Classify(c) = "tendencia_alcista" -> Along(MomentumScore(c))
         [] Classify(c) = "tendencia_bajista" -> Along(100000 - MomentumScore(c))
         [] Classify(c) = "rango_lateral" -> (10000 - trend) * 40 + calm * 40 + neutral * 2
         [] Classify(c) = "transicion"    -> (10000 - trend) * 35 + calm * 35 + neutral * 3

-----------------------------------------------------------------------------
\* The pack and the side: HybridSignalService.
BiasScore(bias) ==
    CASE bias = "bullish" -> 8000 [] bias = "neutral" -> 5500 [] bias = "bearish" -> 3000

TechnicalScore(c) ==
    LET base == (6 * BiasScore(TrendBias(c)) + 4 * BiasScore(MomentumBias(c))) \div 10
        rsi  == Between(-800, ((50 - Distance(c.rsi, 50)) * 100) \div 3 - 800, 800)
    IN Between(0, base + rsi + Between(-600, c.momentum * 50, 600), 10000)

ConfidenceScore(c) ==
    LET penalty == CASE VolatilityRegime(c) = "low"    -> 0
                     [] VolatilityRegime(c) = "medium" -> 600
                     [] VolatilityRegime(c) = "high"   -> 1200
    IN 7500 - penalty - Least(2000, c.atr * 2)

\* Mutant: the average's direction is enough for the baseline.
ActiveByTrend(c) == c.spread # 0

\* long_active or short_active of _ema_rsi_baseline_signal.
Active(c) ==
    \/ c.spread > 0 /\ c.rsi >= 50
    \/ c.spread < 0 /\ c.rsi <= 50

Technical(c) ==
    IF strategy = "hybrid" THEN TechnicalScore(c)
    ELSE IF Active(c) THEN 7800 ELSE 4200

PackConfidence(c) ==
    IF strategy = "hybrid" THEN ConfidenceScore(c)
    ELSE IF Active(c) THEN Most(5200, ConfidenceScore(c))
    ELSE Most(3500, ConfidenceScore(c) - 1500)

SideOf(c) ==
    IF /\ TrendBias(c) = "bearish"
       /\ strategy = "hybrid" => MomentumBias(c) = "bearish"
    THEN "short" ELSE "long"

\* The request of a pack whose fundamental and sentiment scores are 50: what
\* aggregate_score weighs with .40, .20, .20 and .15, and the context.
RequestOf(c, liquidity) ==
    [symbol |-> Traded, liquidity |-> liquidity, volatility |-> c.atr,
     trend |-> TrendStrength(c), stop |-> TRUE,
     signals |-> (Technical(c) * 2) \div 5 + 2000 + (PackConfidence(c) * 3) \div 20,
     regime |-> IF regimeSnapshot = Failed THEN "none" ELSE Classify(regimeSnapshot.of),
     confidence |-> IF regimeSnapshot = Failed THEN -1 ELSE RegimeConfidence(regimeSnapshot.of)]

-----------------------------------------------------------------------------
SignalInit ==
    /\ Init
    /\ strategy \in {"hybrid", "baseline"}
    /\ candle \in IndicatorSnapshots
    /\ closed = 0
    /\ snapshot = Waiting /\ regimeSnapshot = Waiting /\ side = "none"

\* Bound: one candle closes while the worker asks.
CloseCandle ==
    /\ closed = 0
    /\ (snapshot = Waiting) # (regimeSnapshot = Waiting)
    /\ closed' = 1
    /\ candle' \in IndicatorSnapshots
    /\ UNCHANGED <<strategy, snapshot, regimeSnapshot, side, vars>>

ReadSignals ==
    /\ snapshot = Waiting
    /\ snapshot' = Latest
    /\ UNCHANGED <<strategy, candle, closed, regimeSnapshot, side, vars>>

ReadRegime ==
    /\ regimeSnapshot = Waiting
    /\ regimeSnapshot' \in {Latest, Failed}
    /\ UNCHANGED <<strategy, candle, closed, snapshot, side, vars>>

\* _build_from_market, and the creation of the plan.
DecidePlan ==
    /\ Waiting \notin {snapshot, regimeSnapshot} /\ side = "none"
    /\ \E l \in Liquidity : Create(RequestOf(snapshot.of, l), {})
    /\ side' = SideOf(snapshot.of)
    /\ UNCHANGED <<strategy, candle, closed, snapshot, regimeSnapshot>>

SignalNext == CloseCandle \/ ReadSignals \/ ReadRegime \/ DecidePlan

-----------------------------------------------------------------------------
\* Types of what the worker read, and the ranges of what it makes of it: no
\* score or confidence needs to be clamped.
SignalTypeOK ==
    /\ strategy \in {"hybrid", "baseline"} /\ candle \in IndicatorSnapshots /\ closed \in 0 .. 1
    /\ {snapshot, regimeSnapshot} \subseteq {Waiting, Failed}
         \cup [state : {"read"}, of : IndicatorSnapshots, number : 0 .. 1]
    /\ side \in {"none", "long", "short"}
    /\ side # "none" => /\ 2000 <= last[1].signals /\ last[1].signals <= 9500
                        /\ 0 <= last[1].trend /\ last[1].trend <= 100
                        /\ -1 <= last[1].confidence /\ last[1].confidence <= 1000000

\* A plan is approved only along the signals behind it: the baseline strategy
\* needs the averages and the RSI on the plan's side, the hybrid one never has
\* a short approved, whatever the regime it read; and when the regime read is
\* of the same candle as the signals, no approved plan runs against it.
ApprovedFollowSignals ==
    side # "none" /\ plans[1].status = "approved" =>
        /\ strategy = "hybrid" => side = "long"
        /\ strategy = "baseline" =>
             IF side = "long" THEN snapshot.of.spread > 0 /\ snapshot.of.rsi >= 50
                              ELSE snapshot.of.spread < 0 /\ snapshot.of.rsi <= 50
        /\ regimeSnapshot # Failed /\ regimeSnapshot.number = snapshot.number =>
             <<side, Classify(regimeSnapshot.of)>> \notin
                 {<<"long", "tendencia_bajista">>, <<"short", "tendencia_alcista">>}
=============================================================================
