----------------------------- MODULE RiskSizing -----------------------------
(***************************************************************************)
(* What the creation of a trade plan decides: RiskEngine.evaluate, the     *)
(* final gate, and the plan create_trade_plan stores of them.  The service *)
(* keeps no exposure of its own: it counts what the request reports, an    *)
(* account-wide figure and any part of the plans that are open.            *)
(*                                                                         *)
(* Units: risk in 1/10000 %, volatility in 1/100 %, the weighted sum of    *)
(* the signals in 1/100 points, confidence in 1/10000 points, liquidity    *)
(* and trend in points, multipliers and correlations in hundredths.        *)
(***************************************************************************)
EXTENDS Integers, Sequences, FiniteSets, FiniteSetsExt

CONSTANTS
    Symbol, ClusterOf,
    Request,         \* what requests say apart from the portfolio
    Portfolio,       \* portfolio limits and existing risk an account may have
    MaxPlans,        \* plans created
    MaxAccount, MaxTrade, MinScore, HighVolatility,  \* of RiskPolicy
    GateAccount                                      \* of FinalGatePolicy

Cluster == {"btc", "eth", "large", "alts"}

\* RiskPolicy.__post_init__, and a gate below the ceiling of the account and
\* the 100 % at which reported exposure is cut off.
ASSUME PolicyAssumption ==
    /\ ClusterOf \in [Symbol -> Cluster]
    /\ HighVolatility \in Nat /\ HighVolatility >= 300
    /\ {MaxAccount, MaxTrade, MinScore, GateAccount, MaxPlans} \subseteq Nat
    /\ GateAccount <= MaxAccount /\ GateAccount <= 1000000

\* PortfolioState and its validate_risk_limit_hierarchy.
ASSUME PortfolioAssumption ==
    /\ Portfolio \subseteq [account : Nat, cluster : Nat, symbol : Nat,
                            guard : BOOLEAN, existing : Nat]
    /\ \A p \in Portfolio :
         /\ p.symbol <= p.cluster
         /\ p.cluster <= p.account

Regimes == {"tendencia_alcista", "tendencia_bajista", "rango_lateral",
            "transicion", "alta_volatilidad", "unknown"}

\* SignalSnapshot and MarketState; a regime that is not known counts as none.
ASSUME RequestAssumption ==
    Request \subseteq [symbol : Symbol, signals : Nat, liquidity : Nat,
                      volatility : Nat, trend : Nat,
                      regime : Regimes \cup {"none"},
                      confidence : Nat \cup {-1}, stop : BOOLEAN]

VARIABLES
    portfolio,  \* the account's limits and the risk it has besides the plans
    plans,      \* the plans stored
    open,       \* indexes of the plans whose risk is on
    last        \* the latest request, what it counted, its size by the engine

vars == <<portfolio, plans, open, last>>

Least(a, b) == IF a <= b THEN a ELSE b
Most(a, b)  == IF a >= b THEN a ELSE b

\* The integers n / d may be rounded to.
Nearest(n, d) ==
    {q \in {n \div d, n \div d + 1} : -d <= 2 * (q * d - n) /\ 2 * (q * d - n) <= d}

\* Exposure a set of plans adds up to.
Risk(S) == MapThenSumSet(LAMBDA i : plans[i].risk, S)
InCluster(S, c) == {i \in S : ClusterOf[plans[i].symbol] = c}
OfSymbol(S, s)  == {i \in S : plans[i].symbol = s}

-----------------------------------------------------------------------------
\* aggregate_score; the signals are summed up in the request.
Score(q) == q.signals + q.liquidity * 5

Regime(q) ==
    IF q.regime # "none" THEN q.regime
    ELSE IF q.volatility >= HighVolatility THEN "alta_volatilidad"
    ELSE IF q.trend >= 70 THEN "tendencia_alcista"
    ELSE IF q.trend <= 35 THEN "rango_lateral" ELSE "transicion"

Trending == {"tendencia_alcista", "tendencia_bajista"}

VolatilityScore(v) == Least(10000, v * 18)

\* estimate_regime_confidence; -1 is a request without one.
Confidence(q) ==
    LET calm == 10000 - VolatilityScore(q.volatility)
        off  == IF q.trend >= 50 THEN q.trend - 50 ELSE 50 - q.trend
    IN IF q.confidence >= 0 THEN q.confidence
       ELSE CASE Regime(q) = "alta_volatilidad" -> VolatilityScore(q.volatility) * 100
              [] Regime(q) \in Trending         -> q.trend * 6000 + calm * 40
              [] Regime(q) = "rango_lateral"    -> (100 - q.trend) * 6000 + calm * 40
              [] Regime(q) = "transicion"       -> (100 - 2 * off) * 5500 + calm * 45
              [] OTHER                          -> 0

ScoreMultiplier(score) ==
    IF score < MinScore THEN 0
    ELSE IF score >= MinScore + 2500 THEN 115
    ELSE IF score >= MinScore + 1500 THEN 100
    ELSE IF score >= MinScore + 500 THEN 80 ELSE 65

RegimeMultiplier(regime, confidence) ==
    CASE regime = "alta_volatilidad" ->
           IF confidence >= 700000 THEN 45
           ELSE IF confidence >= 500000 THEN 60 ELSE 75
      [] regime = "transicion"    -> IF confidence >= 700000 THEN 75 ELSE 85
      [] regime = "rango_lateral" -> 80
      [] regime \in Trending      ->
           IF confidence >= 750000 THEN 105
           ELSE IF confidence < 450000 THEN 95 ELSE 100
      [] OTHER -> 0

VolatilityMultiplier(v) ==
    LET elevated == Most(200, HighVolatility - 100)
        mild     == Most(50, Least(200, elevated - 50))
    IN IF v >= HighVolatility + 100 THEN 45
       ELSE IF v >= HighVolatility THEN 60
       ELSE IF v >= elevated THEN 75
       ELSE IF v >= mild THEN 90 ELSE 100

\* Mutant: the cap follows the confidence that came with the request.
CappedByConfidence(q) ==
    LET mult == RegimeMultiplier(Regime(q), Confidence(q))
    IN IF q.volatility < HighVolatility THEN mult
       ELSE Least(mult, RegimeMultiplier("alta_volatilidad", Confidence(q)))

\* At high volatility a regime from outside is no bolder than what is observed.
\* The cap's confidence is not rounded in the code, while the engine's own score
\* of the volatility is, to four digits: on a grid of 1/100 % both are the same.
CappedRegime(q) ==
    LET mult == RegimeMultiplier(Regime(q), Confidence(q))
        seen == VolatilityScore(q.volatility) * 100
    IN IF q.volatility < HighVolatility THEN mult
       ELSE Least(mult, RegimeMultiplier("alta_volatilidad", seen))

\* suggest_risk_pct, for a base risk of 1 %.
Suggested(q) ==
    LET product == ScoreMultiplier(Score(q)) * CappedRegime(q)
                     * VolatilityMultiplier(q.volatility)
    IN Nearest(Least(product, MaxTrade * 100), 100)

-----------------------------------------------------------------------------
Correlation(c, d) ==
    CASE c = d                -> 95
      [] {c, d} = {"btc", "eth"}    -> 75
      [] {c, d} = {"large", "alts"} -> 70
      [] {c, d} = {"eth", "large"}  -> 65
      [] {c, d} = {"btc", "large"}  -> 60
      [] {c, d} = {"eth", "alts"}   -> 55
      [] OTHER                      -> 50

AccountLimit == Least(MaxAccount, portfolio.account)
ClusterLimit == Least(AccountLimit, portfolio.cluster)
SymbolLimit  == Least(AccountLimit, portfolio.symbol)

\* Mutant: the pressure is the mean of the plans' shares.
CorrelationByMean(q, counted) ==
    LET Share(i) == Correlation(ClusterOf[q.symbol], ClusterOf[plans[i].symbol])
                      * Least(plans[i].risk, AccountLimit)
        pressure == MapThenSumSet(Share, counted) \div Most(1, Cardinality(counted))
    IN IF ~ portfolio.guard \/ pressure < 8 * AccountLimit THEN 100 ELSE 92

\* _correlation_multiplier: the pressure is in hundredths of AccountLimit.
CorrelationMultiplier(q, counted) ==
    LET Share(i) == Correlation(ClusterOf[q.symbol], ClusterOf[plans[i].symbol])
                      * Least(plans[i].risk, AccountLimit)
        pressure == MapThenSumSet(Share, counted)
    IN IF ~ portfolio.guard \/ pressure < 45 * AccountLimit THEN 100
       ELSE IF pressure >= 80 * AccountLimit THEN 72
       ELSE IF pressure >= 60 * AccountLimit THEN 84 ELSE 92

\* Mutant: the plans of the cluster are not counted.
RoomWithoutCluster(q, counted) ==
    Least(AccountLimit - (portfolio.existing + Risk(counted)),
          SymbolLimit - Risk(OfSymbol(counted, q.symbol)))

\* available_risk_pct.
Room(q, counted) ==
    Least(AccountLimit - Least(1000000, portfolio.existing + Risk(counted)),
          Least(SymbolLimit - Risk(OfSymbol(counted, q.symbol)),
                ClusterLimit - Risk(InCluster(counted, ClusterOf[q.symbol]))))

\* The sizes the engine may apply: none when it rejects the request.
Sizes(q, counted) ==
    IF ~ q.stop \/ Room(q, counted) <= 0 THEN {0}
    ELSE {Least(s, Room(q, counted)) :
            s \in UNION {Nearest(r * CorrelationMultiplier(q, counted), 100) :
                           r \in Suggested(q)}}

\* FinalDecisionGate.evaluate: no breaker, and a final score of 65.
GatePasses(q, counted, size) ==
    /\ q.volatility < 600
    /\ q.liquidity > 20
    /\ Least(1000000, portfolio.existing + Risk(counted)) + size < GateAccount
    /\ Confidence(q) > 300000
    /\ q.signals * 5000 + Confidence(q) * 30 + q.liquidity * 200000 >= 64995000

-----------------------------------------------------------------------------
Init ==
    /\ portfolio \in Portfolio
    /\ plans = <<>>
    /\ open = {}
    /\ last = <<>>

\* Mutant: a plan the gate blocks can be executed all the same.
CreateOpensBlocked(q, counted) ==
    /\ Len(plans) < MaxPlans
    /\ \E size \in Sizes(q, counted) :
         /\ plans' = Append(plans,
                 [symbol  |-> q.symbol,
                  status  |-> IF GatePasses(q, counted, size) THEN "approved" ELSE "blocked",
                  risk    |-> size,
                  omitted |-> open \ counted])
         /\ open' = IF size > 0 THEN open \cup {Len(plans) + 1} ELSE open
         /\ last' = <<q, counted, size>>
    /\ UNCHANGED portfolio

\* create_trade_plan, for a request that reports the plans of counted.
Create(q, counted) ==
    /\ Len(plans) < MaxPlans
    /\ \E size \in Sizes(q, counted) :
         LET approved == size > 0 /\ GatePasses(q, counted, size)
         IN /\ plans' = Append(plans,
                 [symbol  |-> q.symbol,
                  status  |-> IF approved THEN "approved" ELSE "blocked",
                  risk    |-> IF approved THEN size ELSE 0,
                  omitted |-> open \ counted])
            /\ open' = IF approved THEN open \cup {Len(plans) + 1} ELSE open
            /\ last' = <<q, counted, size>>
    /\ UNCHANGED portfolio

\* A plan's position is closed, or it is given up: its risk is off.
Close(i) ==
    /\ open' = open \ {i}
    /\ last' = <<>>
    /\ UNCHANGED <<portfolio, plans>>

Next ==
    \/ \E q \in Request, counted \in SUBSET open : Create(q, counted)
    \/ \E i \in open : Close(i)

Spec == Init /\ [][Next]_vars

-----------------------------------------------------------------------------
\* Types of the account, the plans and the latest decision.
TypeOK ==
    /\ portfolio \in Portfolio
    /\ plans \in Seq([symbol : Symbol, status : {"approved", "blocked"},
                      risk : 0 .. MaxTrade, omitted : SUBSET (1 .. MaxPlans)])
    /\ open \subseteq {i \in DOMAIN plans : plans[i].status = "approved"}
    /\ last # <<>> => last[1] \in Request /\ last[2] \subseteq DOMAIN plans

\* As long as no open plan was created by a request that left out a plan then
\* open, all of them together stay within the limits: the account under the
\* gate's threshold, each cluster and each symbol under its own, whatever was
\* created, blocked and closed in between.
LimitsHold ==
    open # {} /\ (\A i \in open : plans[i].omitted = {}) =>
        /\ portfolio.existing + Risk(open) < GateAccount
        /\ portfolio.existing + Risk(open) <= AccountLimit
        /\ \A c \in Cluster : Risk(InCluster(open, c)) <= ClusterLimit
        /\ \A s \in Symbol : Risk(OfSymbol(open, s)) <= SymbolLimit

\* A request that reports more open plans is never given a larger size by the
\* engine than one that reports fewer.
ReportingNeverPays ==
    last # <<>> => \A fewer \in SUBSET last[2] :
        \E size \in Sizes(last[1], fewer) : last[3] <= size

\* At high volatility a regime and a confidence that come with the request
\* allow no larger size than the engine's own reading of the market.
OutsideRegimeIsNoBolder ==
    last # <<>> /\ last[1].volatility >= HighVolatility =>
        \A s \in Suggested(last[1]) :
            \E t \in Suggested([last[1] EXCEPT !.regime = "none", !.confidence = -1]) :
                s <= t
=============================================================================
