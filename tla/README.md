# binance-futures-algo-bot: verification

TLA+ models of the trading bot, TLC runs that check them on small instances, and
TLAPS proofs of what matters most for every instance. Paths are relative to the
repository root; line numbers are those of the modelled revision.

## The system

| part | state it keeps | operations | interacts with |
|---|---|---|---|
| testnet trading service (`testnet_trading_service.py`) | rows of `trade_plans`, `orders`, `positions`; nothing in memory | `execute_trade_plan`, `_place_protection_orders`, `sync_exit_orders`, `sync_open_testnet_exits` | the Binance testnet account, the database |
| paper trading service | the same rows | `execute_trade_plan` | the database; shares plans and positions with the testnet service |
| risk engine, final gate, trade plan service | a new plan, `approved` or `blocked` | `evaluate`, `create_trade_plan` | outline documents (HTTP) |
| worker (`apps/worker`) | the last candle processed, by symbol and timeframe, in memory | one cycle: synchronise exits, then one task per symbol and timeframe | the API over HTTP, with 20 s timeouts |
| testnet router of the worker | kill switches | `preflight`, `execute_trade_plan`; failures become `executed: False` | the API; the paper fallback |
| reconciliation, parity, shadow run, reporting | none | reports over the tables | the database, read while handlers commit |
| market data ingestion | candles, snapshots | `ingest_symbol` | Binance, several ingestions at once; the worker asks for one when its signals are unusable |
| indicators, signals, market regime | none | snapshots over the newest candles | candles; the worker reads signals, regime and price in three requests at once |
| backtesting | a rate limiter in memory | walk-forward simulation | candles |
| web application | the price stream of each client | fetch, sleep, close | the API |
| documentation sync (`scripts/sync_outline_docs.py`) | none; the Outline collection outlives it | list, merge, create, rewrite, archive | the Outline server, other runs of the script |
| operations scripts | artifacts on disk | retention, backup, release gates | files |

The API is one asyncio process: handlers declared `async` interleave at their
awaits, plain ones run in threads. Each has a database session of its own with
`autoflush=False`; no row is locked or versioned, and the only constraint that
matters, uniqueness of a slot or of an order per plan, does not exist. The
exchange acts between any two awaits. This is where the hard behaviour is:
checks made long before the commit they protect, statuses read before an await
and written after it, requests that time out at the worker and go on in the API,
answers lost after the exchange acted, and a process that may stop anywhere.
`PROJECT.json` lists the hazards, each at its line.

What makes each component correct:

- *trading core*: at most one open position per symbol and side; nothing traded
  for a blocked plan; the tables never ahead of the exchange; a position closed
  only by a filled exit; closing final; every filled exit noticed in the end;
- *protection orders*: two live orders recorded, or none live and unrecorded;
- *worker*: no candle skipped, one plan per candle and one execution per plan
  unless a call is lost; a candle that stays is planned in the end;
- *risk engine and gate*: approved plans within every limit; approved only along
  the signals behind them;
- *levels of an execution*: no exit due where the market is when it is placed, a
  loss at the stop within the plan's budget;
- *reports*: every executed plan counted once; drift reported when it lasted and
  only if it was there;
- *ingestion, streaming, rate limiting*: no hole under the signals, one close per
  stream, one backtest per key and interval;
- *backtesting*: no look ahead, every test candle judged, figures that agree;
- *documentation sync*: no title and no newest text lost, whatever overlaps or
  fails; an undisturbed run repairs the rest.

## Modules

| module | models |
|---|---|
| `TestnetState` | the tables, the account behind them, what each request in flight has read |
| `EntryExecution` | `execute_trade_plan` of the testnet and of the paper service |
| `ExitSync` | `sync_exit_orders`: synthetic exits, native exits, cancellation of siblings |
| `Exchange` | the Binance testnet as the services use it (external) |
| `TestnetTrading` | the composition, its properties, its inductive invariant, its fairness |
| `PositionLedger` | what the core promises, without handlers, sessions or orders |
| `ProtectionPlacement` | `_place_protection_orders` call by call: algo orders, cleanup, legacy fallback |
| `EntryConfirmation` | `_confirm_exchange_order`, its merge, the userTrades lookup, what is stored of an entry |
| `WorkerCycle` | the worker's loop, its tasks, its marks, the calls it gives up, router and fallback |
| `ExitSweep` | `sync_open_testnet_exits`: the sweep over all open plans that each worker cycle asks for; the fairness of the core |
| `Reconciliation` | the drift report, reading the tables while the core commits; which trades the shadow-run summary counts |
| `RiskSizing` | `RiskEngine.evaluate`, the final gate, what `create_trade_plan` stores of them |
| `SignalPlan` | signals, market regime, the worker's scores of both strategies, and the plan decided on them |
| `ProtectionLevels` | quantity, stop and target of an execution, their rounding, the synthetic exits |
| `MarketData` | ingestions, and how a signal pack of the worker comes to its candles or to demo data |
| `Backtesting` | windows, choice of parameters, indicators, simulation and figures |
| `BacktestAccess` | the rate limiter of the backtests, in a thread pool |
| `ShadowRun` | the pairing of paper plans with testnet plans |
| `PriceStream` | the server side of the price stream |
| `OutlineSync` | the documentation sync, call by call |
| `MCTestnetTrading`, `MCExitSweep`, `MCReconciliation`, `MCWorkerCycle`, `MCServices`, `MCAnalysis` | small instances for TLC |
| `TradingSteps` | lemmas of the core: what each handler leaves alone; one lemma per action |
| `TestnetTradingProofs` | the core: type correctness, the inductive invariant, its safety; what `OneAtATime` adds |
| `LedgerRefinement` | the core implements `PositionLedger`, alone, under sweeps and beside reports |
| `ReconciliationProofs` | what the drift report says was so while it read |
| `WorkerCycleProofs` | processed candles have plans; no repetition without a fault or a demo plan that accounts for it |
| `RiskSizingProofs` | open plans together stay within every limit; no larger size for reporting more; at high volatility a regime from outside is no bolder than the engine's own |
| `AnalysisProofs` | pairing misses nothing; exits follow the market; the first test candle is judged; approved plans follow their signals |
| `ServicesProofs` | entry confirmation, stream, placement, rate limiter, market data and documentation sync, each from an invariant of its own |

Two MC modules are sums. `MCServices` and `MCAnalysis` hold components that share
no state; the variable `part` chooses one of them in the initial state and the
others stay as they start, so that one run checks several small systems, each
over its own behaviours.

One action is what a handler does between two awaits, up to and including the
next commit. A row or an exchange order is named by the request that made it
(`<<e, "stop">>`), since each request opens at most one position and sends at
most one entry or exit order. An execution goes

    idle -CheckPlan-> checked -PlaceEntry-> placed -ConfirmEntry-> confirmed
      -PriceEntry-> priced -Protect-> protected | bare -CommitEntry-> done

and may end in `failed`, where the exchange keeps what was sent and the tables
know nothing: `PlaceEntry` with its answer lost, `CrashEntry` anywhere later.
`GiveUpEntry` stands for the ways out before anything was sent. A synchronisation
goes from `idle` to `marking` (no protection rows: compare the mark price, send a
`reduceOnly` close, confirm it) or to `refreshing` (read each protection order,
then store the statuses, or close the position and cancel the siblings).

`ProtectionPlacement` and `EntryConfirmation` look inside single steps of
`EntryExecution`. The first has one action per call to the exchange; a call that
raises may have been carried out all the same. A client without algo orders gets
one attempt and no cleanup, which is why `OrphansNeedLostAnswers` is about the
others. In the second the order keeps a history, `hist`, and each of the three
readings comes from a point of it: the last one, or any when readings lag. `odd`
is a status the code's table does not have, such as `EXPIRED_IN_MATCH`. The
merge looks at status, quantity and average price, the fields that decide.

`WorkerCycle` has one task per key, a pair of symbol and timeframe:

    idle - packing - packed - waiting (create, then testnet or paper) - done | failed

What a task waits for is a call with a stage of its own, moved on by the API
(`Serve`). A call the worker gives up, at its timeout or with its restart, goes
to the bag `late` and may be served at any later time (`ServeLate`), or never.
An execution is reduced to the order it sends and the status it commits. The
demo preset has candle 0 and the timeframe 15m, so it serves the keys `DemoKey`
only; the others fail with `timeframe_mismatch`. In one-shot mode there is one
cycle and there are no marks.

`RiskSizing` has one action per plan created and one per plan whose risk is off.
The service reads no exposure from its tables: a request reports an account-wide
figure and a list of open positions, here any subset of the plans that are open.
The engine's sizes are exact integers where the code has floats rounded to four
places; a product half way between two of them may go either way (`Nearest`), so
the sizes of a request are a set. Notional, stop distance in the message, and the
wording of reasons are left out; the checks of the schemas are assumptions on the
constants. The engine may cut a plan to the 5 % that are left and the gate, which
wants less than 4.8 % after the plan, then blocks it; and a request that reports
a little more can be sized so much smaller by the correlation step that the gate
lets it through, which is why `ReportingNeverPays` is about the engine's size. The
worker reports nothing (`main.py:104`): nothing the model shows of open plans
together holds of the plans of the worker.

`SignalPlan` goes on where the engine's request begins. Signals and regime are two
requests, each answered from the candles there are then, and a regime that cannot
be read is left out. All scores are exact: an RSI whose distance from 50 is 2
modulo 3, a distance of the averages in twentieths of a percent and an even move
keep every division whole (`CandleAssumption`). Fundamental and sentiment scores
are the constant 50 of the code, and the plan is the one `RiskSizing` creates for a
request that reports nothing. What comes out is not obvious from the weights: the
hybrid strategy builds shorts and none of them is ever approved, since two bearish
biases leave a technical score of at most 37 and a total of at most 51, under the
60 the engine asks for; the baseline strategy without its RSI condition would be
approved against it. Signals and regime of one candle never contradict an approved
plan; of two candles they may, and nothing in the code compares them.

`ProtectionLevels` computes what one execution trades at. The planned distances are
applied again to whichever of fill and mark is further out, with a tenth of a
percent at least; a fill price nobody reports is the plan's entry, a mark that
cannot be read is the fill, a tick that cannot be read is 0. Sizes are rounded
twice: to the grid, and then to as many decimals as the size has by its logarithm,
which for sizes like 0.5 or 0.05 is one too few and moves the result off the floor
by up to half a decimal (`OffGrid`). The bounds of the two properties say so: a
quantity can exceed its budget and an exit its distance by that much, never with
sizes that are powers of ten.

`ExitSweep` visits the plans that had an open row when it was read, one task at a
time; a task that raises ends that task, a process that dies or a failing commit
of the error report ends the sweep. Tasks of earlier sweeps (`Late`), whose HTTP
call the worker gave up, go on beside it and owe nothing to anyone. Every await of
`sync_exit_orders` after a change lies inside a handler that catches, so all a
failing task could leave pending in the sweep's session is a failed commit, after
which the session refuses to go on; that is left out.

`Reconciliation` reads plan, orders and positions in three statements. Two history
variables follow what is true meanwhile: `ever`, the critical drifts true at some
moment since the first read, and `always`, those true at every one. A paper
execution's order counts here as a row of its own. Exclusions of the shadow-run
summary are events in the code and the rows they go with in the model.

`MarketData` numbers the candles and leaves their prices out. An ingestion adds the
newest candles it listed and skips those stored, so holes come from ingestions that
list too few; the worker asks for as many as it reads, the route alone would take 50
(the mutant), and `SignalsSeeNoHole` assumes no smaller ingestion of the same key.
`Backtesting` keeps closes as exponents of two: capital is a number of doublings and
of fees, averages are fractions, so orders and figures compare exactly. Periods and
windows are scaled down; profit factor, win rate, dates and rounding are left out.
`BacktestAccess` lets a thread wait `MaxDelay` between reading the clock and getting
the lock. The table forgets a key two intervals after its last request by the
reading of whoever holds the lock, so `MaxDelay <= Interval` is the exact bound: with
an interval of 2 a delay of 3 lets two backtests in too close to each other.
`ShadowRun` leaves the percentages of a pair out; a queue of one key is the set of
positions not taken from it yet, and its head the least of them. `PriceStream` takes the code between two awaits of the route
as one step; the runtime closes nothing by itself. `OutlineSync` has one action per
call to the server; a listing is one page (the script pages by 100), archiving
touches the document and not its children, and updating an archived document has
no effect anyone sees. Titles, parents and the kind of text are kept, the text is not;
`updated` is each document's place in the order of last updates, which is all that
`max(..., key=updatedAt)` looks at. What a first run finds is a constant (`Start`) of
which `OutlineAssumption` says no more than that it is a collection whose last
updated active document of an unmapped title has its newest text.

Abstractions of the core. Prices are absent: whether the mark price touches a level
is a free choice. Quantities are small numbers of step sizes. The `orphan` order of
an execution stands for every protection order that is live at the exchange and
in no row; whether `_place_protection_orders` records its pair and whether it
leaves an orphan are free choices, wider than the code. `expired` stands for
`rejected` too, for an entry cancelled at the exchange and for a status the code does
not know, and `new` for an algo order that is `triggered` and not executed. Protection rows
are stored `new`, what the answer to a placement says or is taken to say.
A status set to the value it was loaded with is not written (SQLAlchemy emits no
UPDATE for it), which is why `StoreStatuses` compares `seen` with `loaded`.
Early returns that only log a risk event are stuttering steps.

`OneAtATime` is the assumption a deployment makes when one worker runs with one
timeframe (`docs/plans/synology-deployment.md`) and no request outlives its 20 s
timeout: executions of a slot do not overlap. The code does not enforce it; the
runs that need it say so, and `overlap` shows what happens without it.

## Runs

| run | instance | what it shows |
|---|---|---|
| `concurrent` | 1 plan, 2 executions, 1 synchronisation, overlapping freely | type correctness, the inductive invariant, and the safety properties that need no discipline of the clients |
| `exclusive` | 2 plans in one slot, 2 executions with `OneAtATime` and 2 synchronisations | one open position per slot, no plan closed with an open row, closing final, no synthetic exit against native protection |
| `liveness` | two open positions under sweeps, or one beside a late task of an earlier sweep; no bound on faults | a filled protection order closes its position, in this sweep or a later one |
| `services` | an order of quantity 3 and its three readings; one pair of protection orders; two runs of the documentation sync over collections of up to three documents with four titles; one stream; three requests of two keys; a reader and a backfill over a growing list of candles | the merge keeps the later reading, nothing stored is ahead of the exchange, no position without an execution unless the order was only known to be new; no live order left over unless an answer was lost; no title or newest text lost, an undisturbed run converges; one close, and the stream ends; backtests of a key apart; no hole under the signals, demo data only without market data |
| `reports` | a long and a short plan with quantities 2 and 1, 1 testnet and 1 paper execution, 1 synchronisation, 1 report | a critical drift reported was there, one that lasted is reported; every behaviour is one of `PositionLedger` |
| `analysis` | 3 plans, 3 symbols in 2 clusters, 20 requests, 6 accounts; signals and regime over every pair of 150 indicator snapshots, both strategies; 5 plans entered at any of 4 prices and marks, with 4 steps and 5 ticks; histories of 9 or 10 candles; tables of up to 5 executed plans | open plans together stay within the limits of account, cluster and symbol if each was created by a request that reported the others; no larger size for reporting more; at high volatility a regime from outside is no bolder; approved plans follow their signals; exits follow the market and cost the budget; the backtest does not look ahead, judges every test candle and its figures agree; pairing misses nothing |
| `worker` | 1 key, 2 candles, every configuration, up to 2 faults: lost calls, a restart, demo packs | marks have plans; every candle of the market planned again is owed to a lost call, a restart or a demo plan, consecutive plans of a candle and double executions to lost calls and restarts |
| `planned` | 2 keys, 1 candle each, a lost call each, a failed market read | every candle that stays is planned |
| `overlap` | 2 executions without discipline | violated: two open positions in a slot |
| `paper` | 1 paper execution, 1 synchronisation | violated: a close order for a paper position |
| `dedupe` | 1 key, 1 candle, 1 demo pack, no lost call, no restart | violated: two plans for one candle |
| `gate` | 1 testnet execution, 1 synchronisation, no fault | violated: a trade that counted towards the shadow-run gate closes and counts no more |

Bounds. Two executions of two plans in one slot are what the races of the entry
path need (check, check, commit, commit; retry after a lost answer); two
synchronisations are what those of the exit path need. Quantity 2 gives a
partial fill and its completion. `MaxFaults = 1` (the constraint `FaultBound` of
`MCTestnetTrading`, of `reports` too) explores every state with at most one failed request, expired
order or orphan, and the steps out of it; the proofs below have no such bound.
Plans and executions are interchangeable where all plans share symbol, side and
quantity, hence the symmetry of `concurrent` and `exclusive`. Quantity 3 in
`services` has two different partial fills, so that a reading can lag behind
one partial fill at another. Two candles let a late call of the first be served
after the second was planned; two faults of `worker` let a lost call and its
retry, a demo pack or a restart meet, and the proof has no bound. The tasks of
two keys share nothing but the cycle's barrier (`planned`). A report that is done
changes no more, so `reports` explores nothing after it (`UntilDone`); before its
first read the handlers are explored alone. `liveness` starts from the states that
one or two finished executions leave behind, which `SweepSpec` reaches, and lets a
late task move only between the steps of the sweep it disturbs (`LateAlone`). Two
runs of the documentation sync are what overlapping needs, the second of them may
start after the first failed; its collections have up to three documents of one
title. One candle that closes while the worker asks separates signals from regime. In `analysis`, an
account with 3 % or 4.5 % taken already, or with a ceiling of 3 %, is full after
two or three plans; one with a ceiling of 1.5 % reaches every step of the
correlation guard with two; indicators lie on both sides of every limit of the
regime and the biases; marks and fills lie 10 % below, at and 5 % above the entry,
ticks and steps are powers of ten and not. Nine candles give three test windows, and
five executed plans let a queue run out on either side. `CHECK_DEADLOCK` is
off because an instance ends when its requests are used up.

Fairness (`liveness`). The worker calls `sync-open-exits` at the head of every
cycle and runs for ever, so a sweep that can start again and again starts, visits
its plans and goes on (weak fairness of the sweep, `SweepFairness`); every HTTP call
has a timeout, so a task waiting for an answer goes on. For each plan, the reading of
its stop, the reading of its take profit, the cancellation of the sibling and the
settling commit may fail or be given up any number of times, but not every time:
strong fairness of these four steps. Nothing is assumed of the exchange,
of executions, nor of the tasks of earlier sweeps. In `planned`, a task goes on until it is over and a cycle follows
the one before, since every call has a timeout and `main` catches what a cycle
raises; faults stop at their bounds, and calls given up need not be served. `StreamEnds`
assumes that the loop of the stream goes on, since its fetch and its sleep end, and
nothing of the client.

The four violations are disagreements of the code with its own documents and
messages; `PROJECT.json` quotes them under `findings`.

## Proofs

The core's theorems hold for any sets of plans and requests, any quantities, any
assignment of symbols and directions, without `OneAtATime`. They assume only
`ConstantsAssumption` of `TestnetState`; the other modules name
theirs in the same way. Each assumption is evaluated by a run of its module.

- `TypeCorrect`, `Invariance`: `TypeOK` and `IInv`, together inductive. `IInv`
  ties what a request has sent and stored to its progress (`EntryInv`,
  `PaperInv`, `SyncInv`), and what it has read to what is the case: a terminal
  status in `view` or `seen` is the status of the order still (`ViewInv`,
  `ReadInv`). That is the core of the argument: terminal statuses are stable at
  the exchange, so a stale read of one is never wrong, and writing it late over
  another task's write does no harm.
- `RecordsFollowExchange`, `ClosingNeedsFill`, `ExecutedMeansPositioned`,
  `BlockedStaysOut`: the safety properties of `concurrent`.
- `Refinement`: `Spec => ImplementsLedger`, one lemma per kind of step.
  `SweepIsCore` maps every step of a sweep to a step of the core or a stutter, so
  `SweepKeepsLedger` follows without a new invariant; `ReportOnlyReads` is the same
  of a report beside the core.
- `StoredStatusIsReal`, `PositionIsReal`, `MergeIsLatest` of
  `ServicesProofs`, for an order of any quantity (a latest status the code's table of
  ranks lacks is not adopted over a known one, as the property says). The invariant is
  `Claim`: an answer or a reading claims no end the order has not come to and no
  quantity it has not executed; a merge of two claims is a claim, and a step of
  the order makes none false. `MergeIsLatest` needs the history besides: a later
  state `Follows` an earlier one.
- `SlotsAreExclusive`, `ClosedPlansAreFlat`, `ExitsDoNotRace`, `ClosingIsFinal`: the
  four properties of `exclusive` (closing final is said of the plan's status; that a
  closed row stays closed is part of `Refinement`), under two hypotheses, `OneAtATime` and that no
  paper execution runs (`paper` shows what a paper execution does to them).
  `ExclusiveInv` is the discipline's share of the invariant: an execution between
  its check and its commit is alone in its slot (`AloneInv`), so the slot it found
  free is free still when it commits; a plan has one open row at most, and none
  once it is closed (`OneRowPerPlan`); what a synchronisation found open without
  protection rows stays so until it acts (`UnprotectedInv`).
- `ReportedDriftIsReal`, `LastingDriftIsSeen` of `ReconciliationProofs`, for finitely
  many executions and synchronisations, in any number. `TablesInv` is what the
  core promises a reader; every step of the core keeps it. `ReportInv` relates
  what the report has read with the tables then and now: a row only moves on, so
  a row read late can hide a drift of the first read, never invent one.
- `MarksArePlanned` of `WorkerCycleProofs`, for any keys, candles and faults: a
  marked candle has a plan once its creation is over. `WInv` adds what makes it
  inductive: a task that creates a plan holds the mark to go back to, and that
  one has a plan too; outside a cycle no task is under way.
- `DoubleExecutionsArePaid`, `RepetitionsArePaid` of the same module, for any
  settings and bounds. The first rests on `ChainInvariance`: the calls that may
  execute a plan, waited for or given up, are one chain, and a link of it is
  broken only by a lost call. The second makes two more statements, each by a
  potential argument: a step that adds to one term takes from another or pays.
  - Consecutive plans of a key for one candle (`Repeats`), the creations that may
    still come late, and one for a last plan the worker does not go by, are
    together at most `lost + 2 * restarts` (`RepeatsInvariance`). The 2 is needed:
    a restart forgets the mark of the last plan and leaves a creation behind.
  - Plans of the market for a candle the key had a plan of before, whatever it
    planned in between (`MarketRepeats`), the market's creations that may still
    come late, and one if the worker is about to plan a planned candle, are
    together at most `lost + restarts` and one for each demo plan
    (`OwedInvariance`). Demo plans must be counted: each may overwrite the mark of
    a planned candle with nothing lost, as `dedupe` shows. Here a restart pays
    once: either it forgets the mark of a planned candle, or it leaves behind the
    creation of one that is not planned yet. The argument needs that no
    plan or creation is ahead of the candle the worker is at (`BehindOK`), and
    that demo plans have a candle of their own.
- `OutsideRegimeIsCapped` of `RiskSizingProofs`, for any policy the schema
  accepts and any requests: at or above the high-volatility threshold, whatever
  regime and confidence the caller sends, each size suggested is at most one the
  engine would suggest by itself. The argument is that the multiplier is capped
  by the observed one (`CappedRegime`) and that products, the trade's ceiling and
  rounding keep the order.

- `BacktestsApart` of `ServicesProofs`, for any requests, keys and interval
  and any delay up to the interval. The invariant: a request waits no longer than
  the delay, the table's entry of a key is its latest accepted reading unless that
  is older than two intervals less the delay, and readings accepted are apart.
- `StreamClosesOnce`, `PlacementCleansUp` of the same module: the controller of a
  stream is closed by the step that leaves its loop and by no other; an order
  that was sent and is not recorded is one the cleanup still has in hand.
- `SignalsHaveNoHole`, `DemoMeansNoData`, for any readers, ingestions and sizes
  with `MarketSizes`: an ingestion asks for at least what any reader reads, as the
  worker and the route do. The invariant: the stored candles are those of
  intervals that reach far enough back, the ones in flight included, so that a
  reader's newest candles have no hole whichever ingestions are still to come.

- `LimitsAreKept` of `RiskSizingProofs`, for any limits, any finite set of plans and
  any order of creations and closings: the open plans whose requests left out none of
  those open then, stay together within the limits of the account, of each cluster
  and of each symbol. The last of them to be created was sized to fit beside all the
  others, which are a subset of what it reported, and closing only takes terms out of
  a sum. It assumes that the gate's limit is no more than the account's and
  than 100 %, where the code cuts off what is reported (`GateAccount`; it is 4.8 %). `SizingTypes` is its type invariant.
- `ReportingMoreNeverPays`: with a larger set reported, the room left by account,
  cluster and symbol is no larger and the correlation guard no milder, and rounding
  keeps the order.
- `PairingIsComplete` of `AnalysisProofs`: a report counts every plan once, in one pair
  or as unmatched, and no two plans it left unpaired are comparable. The invariant:
  a testnet plan leaves its queue only in a pair, and a paper plan that left its queue
  is in a pair or compares with no testnet plan that is left (`LeftAlone`).
- `ExitsAreDerived`: stop and target lie on their side of fill and mark, and what the
  stop costs is within the plan's budget, up to a tick and to what the second rounding
  adds (`OffGrid`), which is nothing for sizes that are powers of ten
  (`PowersAssumption`).
- `WarmUpReachesTest`: the candidate chosen on the training candles is one of the
  candidates, so its longest period is within the warm-up, and the first candle of the
  test has an indicator.
- `FiguresOfBacktestAgree`, for any histories of closes, candidates and sizes. The
  product of the trades, the deepest fall and the simulation are recursive functions,
  and one only has the values its text gives it once some function is known to
  satisfy it: `Recursion` shows that for a step over an interval, `UpTo` is the
  induction. One candle keeps balance, trades and curve in step (`CandleKeeps`), the
  forced sale too (`SoldKeeps`), so a window passes on a capital that is the product so far
  (`FiguresInv`); and a fall to the end of the curve is one the drawdown has seen.
- `NoWindowLooksAhead`: averages and strength index up to a candle are those of the
  candles up to it (`EmaAgrees`, `RsiAgrees`), so are the signals and the
  simulation; training stops where the test starts. `LastWindowInv` says which
  candles and which capital the last window ran with.
- `ApprovedPlansFollowSignals`, for any policy that wants at least 51 points (60 by
  default): a hybrid short, and a baseline plan without an active signal, score below
  51, so the engine sizes them 0; what is left has the strategy's own direction, and
  two requests answered with candles of one number read the same candle.
- `TitlesAreNeverLost` of `ServicesProofs`, for any runs, titles and collections. A run
  that may archive duplicates knows, of each document it has listed, one of the same
  title that is active and no younger (`Careful`); a duplicate goes only beside an
  older one, so the oldest active document of a title is archived by nobody.
- `NewestTextsSurvive` of the same module. The invariant (`TextInv`): of several active
  documents of an unmapped title, the oldest is the choice of every run that merges;
  it takes a text that is new, is the last updated from then on, and only then do the
  others go, so that a run that lists in between reads the new text again
  (`FreshInv`); and whoever is past its merge has left no duplicates, so cleaning up
  cannot come between. The lemma of an action says what it does to the documents
  (`Spares`, `Tends`) and to its own run; what the other runs know is kept under any
  such step (`StaysInformed`).
- `QuietSyncsConverge` of the same module, for any runs, titles and collections the
  earlier runs left. `CalmInv` says what an undisturbed run has put in order at each
  of its positions: a target it is past has one active document (`Alone`), with its
  text, under its hub (`Filed`), a hub hangs under the index (`Hung`) and lists what
  is under it (`Indexed`); and what it remembers of the collection is so still
  (`Sees`), because the steps of another run end its quiet. Each call writes only to
  the document of a title that has no other, so it keeps what the calls before it did.
- `AnalysisTypes`, `ServicesTypes`: the type invariants of both compositions. They are
  not the formality they look like: that scores stay in range without being clamped
  needs what the biases add up to, that a window's
  candidate is one there is needs the invariant of the windows, that last updates stay an order of all documents
  and that what a run remembers exists needs `ShapeInv` under every call of every run.
- `PlacementIsProtect` of `ServicesProofs`: a refinement inside one step. `ProtectionPlacement`
  takes up to seven calls for what `EntryExecution` takes for the one step `Protect`.
  The mapping shows the core nothing until the procedure ends; then its result, each side
  of the recorded pair as placed if such an order stands at the exchange, and an orphan
  if any other does. `PairInv` says at each call which orders stand already, however the
  exchange settles them meanwhile, so that a recorded pair is one that stands.
- `ConfirmationIsClaims` of `ServicesProofs`: another such. `EntryConfirmation` merges the
  answer to the order with a later reading, either of which may lag, and lists the trades;
  the core takes these for `ConfirmEntry` and `PriceEntry`, whose `Claims` say what may come
  of it: a status and a quantity that need not belong together, but claim no end and no
  execution the order does not have. Each step maps to one of the two, to a step of the
  exchange (`FillEntry`, `Expire`) or to a stutter, from the same `Claim` that
  `StoredStatusIsReal` rests on; and what is stored is what `CommitEntry` computes. So the
  core's theorems hold of executions that learn of their order in this way.

Greatest and least elements, sums over finite sets and scans of a list are used
through facts proved by a least counterexample (`WFMin` over the naturals and over
finite sets), because the induction theorems of the library take an operator.
`TradingSteps` shows which conjuncts an action of one handler leaves alone, then
has one lemma per action, which looks only at the conjuncts that action can
disturb.

Every invariant and action property of a passing run is a theorem. Only model-checked:
liveness, which is out of the prover's reach, as `ENABLED` is; and that the four
violations are reached.

## Plan

What the first plan asked for is modelled, and its invariants are proved. Left, in
this order:

1. The sweep's session: what a failed commit leaves for the tasks after it.
2. Prices of candles, for the close of a candle that was stored while still open.

## Not modelled

The dashboard and production reports only aggregate rows, with the reads whose
inconsistency `Reconciliation` shows; live pricing is one request per symbol under a
semaphore, without state; the operations scripts read files and reports, compare them
with thresholds and write files; the Binance client signs and sends; schemas,
rendering and migrations hold no behaviour of their own. `PROJECT.json` says so of
each part, and of two hazards no property covers: a position whose exits all ended
without a fill has no way out in the code, a candle stored while open keeps its
early close, and neither is promised otherwise by a document.
