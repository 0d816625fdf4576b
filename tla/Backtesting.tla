---------------------------- MODULE Backtesting ----------------------------
(***************************************************************************)
(* services/backtesting_service.py: the newest candles of a symbol are cut *)
(* into sliding windows; on each training part the best of the candidate   *)
(* parameters is chosen, and traded on the test part after it.             *)
(*                                                                         *)
(* A close is a power of two, 2^e, and is kept as its exponent e.  Capital *)
(* is then exact: 2^d (1 - fee)^l is the pair <<d, l>>, d doublings and l  *)
(* fees.  For a fee above 0 and at most the 0.05 of the schema, d decides  *)
(* before l as long as two amounts differ by at most 13 fees, six trades   *)
(* and a half; at a fee of 0 Above breaks ties the code leaves open.  The  *)
(* averages of the indicators are fractions.  Rounding, profit factor and  *)
(* dates are left out.                                                     *)
(***************************************************************************)
EXTENDS Integers, Sequences

CONSTANTS Closes,      \* exponents a close may have
          Histories,   \* the closes the table may hold, oldest first
          Limits,      \* candles_limit of the request
          Training,    \* training_window
          Testing,     \* testing_window
          Parameters,  \* CANDIDATE_PARAMETERS: [fast, slow, entry, exit]
          RsiPeriod

\* The windows and RsiPeriod are at least 1, and of the parameters
\* 2 <= fast < slow and exit < entry, as the schema and the candidates have it.

VARIABLES stored,   \* closes of the market_candles rows
          rows,     \* those the request loaded
          test,     \* the walk-forward so far
          stage     \* of the request: new, running, done or its error

vars == <<stored, rows, test, stage>>

Start == <<0, 0>>     \* the initial capital

Times(a, b) == <<a[1] + b[1], a[2] + b[2]>>
Over(a, b)  == <<a[1] - b[1], a[2] - b[2]>>
Above(a, b) == a[1] > b[1] \/ (a[1] = b[1] /\ a[2] < b[2])
-----------------------------------------------------------------------------
(* Indicators, as functions of the candles that have one.                  *)

Sum(f, n) == LET s[i \in 0..n] == IF i = 0 THEN 0 ELSE s[i - 1] + f[i] IN s[n]

\* _ema_series: the mean of the first period, then 2 / (period + 1) of the
\* close and the rest of the average before it.
Ema(c, period) ==
    LET e[i \in period..Len(c)] ==
          IF i = period
          THEN [num |-> Sum([j \in 1..i |-> 2 ^ c[j]], i), den |-> period]
          ELSE LET last == e[i - 1]
               IN  [num |-> 2 * 2 ^ c[i] * last.den + (period - 1) * last.num,
                    den |-> (period + 1) * last.den]
    IN  e

Gain(c, i) == LET d == 2 ^ c[i + 1] - 2 ^ c[i] IN IF d > 0 THEN d ELSE 0
Loss(c, i) == LET d == 2 ^ c[i] - 2 ^ c[i + 1] IN IF d > 0 THEN d ELSE 0

\* _rsi_series: average gain and loss with a common denominator.
Rsi(c) ==
    LET q == RsiPeriod
        r[i \in q + 1..Len(c)] ==
          IF i = q + 1
          THEN [gain |-> Sum([j \in 1..q |-> Gain(c, j)], q),
                loss |-> Sum([j \in 1..q |-> Loss(c, j)], q), den |-> q]
          ELSE LET last == r[i - 1]
               IN  [gain |-> (q - 1) * last.gain + Gain(c, i - 1) * last.den,
                    loss |-> (q - 1) * last.loss + Loss(c, i - 1) * last.den,
                    den  |-> q * last.den]
    IN  r

\* _compute_rsi against a threshold; without any movement it is 50.
RsiAtLeast(r, x) == IF r.gain + r.loss = 0 THEN 50 >= x
                    ELSE 100 * r.gain >= x * (r.gain + r.loss)
RsiAtMost(r, x) == IF r.gain + r.loss = 0 THEN 50 <= x
                   ELSE 100 * r.gain <= x * (r.gain + r.loss)

\* The first candle with all indicators, its own and those before it.
Ready(p) == IF p.slow >= RsiPeriod THEN p.slow + 1 ELSE RsiPeriod + 1

\* The signals of _simulate_strategy, on the candles from `first' on.
Signals(c, p, first) ==
    LET fast == Ema(c, p.fast)
        slow == Ema(c, p.slow)
        rsi  == Rsi(c)
        Gap(i) == fast[i].num * slow[i].den - slow[i].num * fast[i].den
        judged == {i \in 2..Len(c) : i >= first /\ i >= Ready(p)}
    IN  [enter |-> {i \in judged : /\ Gap(i) > 0 /\ Gap(i - 1) <= 0
                                   /\ RsiAtLeast(rsi[i], p.entry)},
         leave |-> {i \in judged : \/ Gap(i) < 0 /\ Gap(i - 1) >= 0
                                   \/ RsiAtMost(rsi[i], p.exit)}]
-----------------------------------------------------------------------------
(* _simulate_from_signals: all the cash goes in, all the units come out,    *)
(* an entry comes before an exit on one candle, and units left at the end   *)
(* are sold.  Units are kept at the price 2^0.                              *)

Candle(s, close, enter, leave) ==
    LET t == CASE enter /\ s.cost = <<>> ->
                    [s EXCEPT !.money = <<@[1] - close, @[2] + 1>>, !.cost = s.money]
               [] leave /\ s.cost # <<>> ->
                    LET cash == <<s.money[1] + close, s.money[2] + 1>>
                    IN  [s EXCEPT !.money = cash, !.cost = <<>>,
                                  !.trades = Append(@, Over(cash, s.cost))]
               [] OTHER -> s
    IN  [t EXCEPT !.curve = Append(@, IF t.cost = <<>> THEN t.money
                                      ELSE <<t.money[1] + close, t.money[2]>>)]

\* The forced sale; the mutant leaves the last point of the curve as it was.
SoldOffCurve(s, close) ==
    LET cash == <<s.money[1] + close, s.money[2] + 1>>
    IN  IF s.cost = <<>> THEN s
        ELSE [s EXCEPT !.money = cash, !.cost = <<>>,
                       !.trades = Append(@, Over(cash, s.cost))]

Sold(s, close) ==
    LET cash == <<s.money[1] + close, s.money[2] + 1>>
    IN  IF s.cost = <<>> THEN s
        ELSE [s EXCEPT !.money = cash, !.cost = <<>>,
                       !.trades = Append(@, Over(cash, s.cost)),
                       !.curve[Len(s.curve)] = cash]

\* trades are ratios of what a trade returned to what it cost.
Simulate(c, signals, capital, first) ==
    LET s[i \in first - 1..Len(c)] ==
          IF i = first - 1
          THEN [money |-> capital, cost |-> <<>>, trades |-> <<>>, curve |-> <<capital>>]
          ELSE Candle(s[i - 1], c[i], i \in signals.enter, i \in signals.leave)
    IN  IF Len(c) = 0 THEN s[0] ELSE Sold(s[Len(c)], c[Len(c)])

Strategy(c, p, capital, first) == Simulate(c, Signals(c, p, first), capital, first)

BuyAndHold(c, capital) ==
    Simulate(c, [enter |-> {1}, leave |-> {Len(c)}], capital, 1)

\* _max_drawdown_pct: the worst ratio of a point to the peak before it.
Worst(curve) ==
    LET w[i \in 1..Len(curve)] ==
          IF i = 1 THEN [peak |-> curve[1], ratio |-> Start]
          ELSE LET last == w[i - 1]
                   peak == IF Above(curve[i], last.peak) THEN curve[i] ELSE last.peak
                   ratio == Over(curve[i], peak)
               IN  [peak |-> peak,
                    ratio |-> IF Above(last.ratio, ratio) THEN ratio ELSE last.ratio]
    IN  w[Len(curve)].ratio

\* _is_better_result, of two runs from the same capital.
Better(a, b) ==
    IF a.money # b.money THEN Above(a.money, b.money)
    ELSE IF Worst(a.curve) # Worst(b.curve) THEN Above(Worst(a.curve), Worst(b.curve))
    ELSE Len(a.trades) < Len(b.trades)

\* _select_best_simulation_with_parameters: the first of the best.
Best(c) ==
    LET runs == [k \in DOMAIN Parameters |-> Strategy(c, Parameters[k], Start, 1)]
        b[k \in DOMAIN Parameters] ==
          IF k = 1 THEN 1
          ELSE LET best == b[k - 1] IN IF Better(runs[k], runs[best]) THEN k ELSE best
    IN  b[Len(Parameters)]
-----------------------------------------------------------------------------
(* The request.                                                             *)

Slice(c, from, n) == SubSeq(c, from + 1, from + n)

\* max_warmup; the mutant forgets that a signal looks one candle back.
ShortWarmUp ==
    LET longest == CHOOSE n \in {Parameters[k].slow : k \in DOMAIN Parameters} :
                     \A k \in DOMAIN Parameters : Parameters[k].slow <= n
    IN  IF longest > RsiPeriod + 1 THEN longest - 1 ELSE RsiPeriod
MaxWarmUp ==
    LET longest == CHOOSE n \in {Parameters[k].slow : k \in DOMAIN Parameters} :
                     \A k \in DOMAIN Parameters : Parameters[k].slow <= n
    IN  IF longest > RsiPeriod + 1 THEN longest ELSE RsiPeriod + 1

\* The training rows of the window that starts at a candle; the mutant takes
\* one candle more.
TrainingPlusOne(c, start) == Slice(c, start, Training + 1)
TrainingRows(c, start) == Slice(c, start, Training)

WarmUpStart(start) == IF start + Training > MaxWarmUp
                      THEN start + Training - MaxWarmUp ELSE 0

\* One window: the parameters, and the run of the test part from the capital
\* the last window ended with.  The candles before it only warm indicators up.
Window(c, start, capital) ==
    LET best == Best(TrainingRows(c, start))
        from == WarmUpStart(start)
        seen == Slice(c, from, start + Training + Testing - from)
    IN  [start |-> start, best |-> best, from |-> from,
         run |-> Strategy(seen, Parameters[best], capital, Len(seen) - Testing + 1)]

NoTest == [at |-> 0, capital |-> Start, trades |-> <<>>, curve |-> <<Start>>,
           windows |-> <<>>, tested |-> <<>>]

Init == /\ stored \in Histories
        /\ rows = <<>> /\ test = NoTest /\ stage = "new"

\* _load_rows takes the newest rows, oldest first; too few of them end the
\* request.
Load == /\ stage = "new"
        /\ \E limit \in Limits :
             LET n == IF Len(stored) < limit THEN Len(stored) ELSE limit
             IN  /\ rows' = Slice(stored, Len(stored) - n, n)
                 /\ stage' = CASE n = 0 -> "not_found"
                               [] n \in 1..Training + 2 * Testing - 1 -> "too_few"
                               [] OTHER -> "running"
        /\ UNCHANGED <<stored, test>>

LastStart == Len(rows) - (Training + Testing)

WalkForward ==
    /\ stage = "running" /\ test.at <= LastStart
    /\ LET w == Window(rows, test.at, test.capital)
       IN  test' = [at |-> test.at + Testing,
                    capital |-> w.run.money,
                    trades |-> test.trades \o w.run.trades,
                    curve |-> test.curve \o Tail(w.run.curve),
                    windows |-> Append(test.windows, w),
                    tested |-> test.tested \o Slice(rows, test.at + Training, Testing)]
    /\ UNCHANGED <<stored, rows, stage>>

Finish == /\ stage = "running" /\ test.at > LastStart
          /\ stage' = "done"
          /\ UNCHANGED <<stored, rows, test>>

Next == Load \/ WalkForward \/ Finish

Spec == Init /\ [][Next]_vars

\* The report, computed when the request is done.
Report ==
    [strategy |-> test.capital, drawdown |-> Worst(test.curve),
     trades |-> Len(test.trades),
     benchmark |-> BuyAndHold(test.tested, Start).money,
     inSample |-> Strategy(rows, Parameters[Best(rows)], Start, 1).money]
-----------------------------------------------------------------------------
TypeOK ==
    /\ stage \in {"new", "running", "done", "not_found", "too_few"}
    /\ Len(test.curve) = 1 + Len(test.tested)
    /\ \A k \in DOMAIN test.windows : test.windows[k].best \in DOMAIN Parameters

Change(c, i, e) == [c EXCEPT ![i] = e]

(* No window looks ahead: other closes in its test part would have led to   *)
(* the same parameters, and to the same equity before the close that        *)
(* differs (run and _simulate_strategy).                                    *)
NoLookAhead ==
    test.windows # <<>> =>
      LET k == Len(test.windows)
          w == test.windows[k]
      IN  \A i \in 1..Testing : \A e \in Closes :
            LET o == Window(Change(rows, w.start + Training + i, e),
                            w.start, w.run.curve[1])
            IN  /\ o.best = w.best
                /\ \A j \in 1..i : o.run.curve[j] = w.run.curve[j]

(* The warm-up is just enough: the first test candle of a window is judged, *)
(* with the indicators of the candle before it, whenever the training part  *)
(* is long enough for the parameters (max_warmup).                          *)
FirstTestCandleIsJudged ==
    \A k \in DOMAIN test.windows :
      LET w == test.windows[k]
      IN  w.start + Training >= Ready(Parameters[w.best]) - 1 =>
            w.start + Training - w.from + 1 >= Ready(Parameters[w.best])

Product(trades) == LET p[i \in 0..Len(trades)] ==
                         IF i = 0 THEN Start ELSE Times(p[i - 1], trades[i])
                   IN  p[Len(trades)]

(* The figures of the report agree with each other across the windows: the  *)
(* capital is the product of the trades and the end of the equity curve, so *)
(* the drawdown is never smaller than the loss (run, _build_metrics).       *)
FiguresAgree ==
    /\ test.capital = Product(test.trades)
    /\ test.capital = test.curve[Len(test.curve)]
    /\ stage = "done" => ~Above(Report.drawdown, Report.strategy)
=============================================================================
