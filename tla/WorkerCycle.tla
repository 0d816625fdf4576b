---------------------------- MODULE WorkerCycle ----------------------------
(***************************************************************************)
(* The worker in loop mode and the API calls it makes.  A cycle            *)
(* synchronises exits, then runs one task per symbol and timeframe (a key) *)
(* concurrently: build a signal pack from the market or from the demo      *)
(* preset, skip a candle already processed, create a trade plan, and have  *)
(* it executed on the testnet or on paper.                                 *)
(*                                                                         *)
(* Every call has a timeout.  A call the worker gave up may still be       *)
(* served: it moves to the bag late.  Executions are reduced to the order  *)
(* they send and the status they commit; EntryExecution has the rest.      *)
(***************************************************************************)
EXTENDS Integers, Sequences, FiniteSets, Bags

CONSTANTS
    Key,         \* pairs of a symbol and a timeframe
    Settings,    \* paper_trading, fallback to paper, keys switched off
    DemoKey,     \* keys of the timeframe the demo presets are made for
    MaxCandle,   \* bounds: candles that close for each key,
    MaxLost,     \* calls that fail or go unanswered,
    MaxDemo,     \* packs built from the demo preset,
    MaxRestarts  \* restarts of the worker

ASSUME WorkerAssumption ==
    /\ DemoKey \subseteq Key
    /\ Settings \subseteq [paper : BOOLEAN, fallback : BOOLEAN, halted : SUBSET Key]
    /\ MaxCandle \in Nat \ {0}
    /\ MaxLost \in Nat
    /\ MaxDemo \in Nat
    /\ MaxRestarts \in Nat

VARIABLES
    conf,      \* the settings of this worker
    candle,    \* last candle the API knows of each key
    marks,     \* processed_candles, in the worker's memory
    phase,     \* where the cycle is
    task,      \* the task of each key
    late,      \* calls given up by the worker and still served
    plans,     \* trade_plans
    lost,      \* counters of the bounds above
    demos,
    restarts

budget == <<lost, demos, restarts>>
vars == <<conf, candle, marks, phase, task, late, plans, lost, demos, restarts>>

None == -1        \* no candle
DemoCandle == 0   \* last_candle_close_ms of the demo presets

NoCall == [kind |-> "none", key |-> "none", candle |-> None, source |-> "none",
           plan |-> 0, stage |-> "none"]
Idle == [pc |-> "idle", seen |-> None, prev |-> None, call |-> NoCall]

Init ==
    /\ conf \in Settings
    /\ candle = [k \in Key |-> 1]
    /\ marks = [k \in Key |-> None]
    /\ phase = "sleeping"
    /\ task = [k \in Key |-> Idle]
    /\ late = EmptyBag
    /\ plans = <<>>
    /\ lost = [k \in Key |-> 0]
    /\ demos = 0
    /\ restarts = 0

-----------------------------------------------------------------------------
(* The API.  A step of a handler takes the call c to its next stage s.     *)

Stage == {"sent", "approved", "blocked", "checked", "ordered", "executed", "refused"}

\* create_trade_plan up to its first commit.
StorePlan(c, s) ==
    /\ c.kind = "create" /\ c.stage = "sent" /\ s \in {"approved", "blocked"}
    /\ plans' = Append(plans, [key |-> c.key, candle |-> c.candle,
                               source |-> c.source, status |-> s,
                               orders |-> 0, papers |-> 0])
    /\ UNCHANGED lost

\* The checks of an execution.  The testnet service may refuse for a reason
\* of its own: an open position, the size of the order, the exchange.
CheckExecution(c, s) ==
    /\ c.kind \in {"testnet", "paper"} /\ c.stage = "sent"
    /\ \/ s = "checked" /\ plans[c.plan].status = "approved"
       \/ s = "refused" /\ (c.kind = "paper" => plans[c.plan].status # "approved")
    /\ UNCHANGED <<plans, lost>>

\* The entry order reaches the exchange.
SendOrder(c, s) ==
    /\ c.kind = "testnet" /\ c.stage = "checked" /\ s = "ordered"
    /\ plans' = [plans EXCEPT ![c.plan].orders = @ + 1]
    /\ UNCHANGED lost

\* The exchange's answer is lost: the handler answers testnet_api_error.
LoseOrder(c, s) ==
    /\ c.kind = "testnet" /\ c.stage = "ordered" /\ s = "refused"
    /\ lost[c.key] < MaxLost
    /\ lost' = [lost EXCEPT ![c.key] = @ + 1]
    /\ UNCHANGED plans

CommitTestnet(c, s) ==
    /\ c.kind = "testnet" /\ c.stage = "ordered" /\ s = "executed"
    /\ plans' = [plans EXCEPT ![c.plan].status = "executed"]
    /\ UNCHANGED lost

CommitPaper(c, s) ==
    /\ c.kind = "paper" /\ c.stage = "checked" /\ s = "executed"
    /\ plans' = [plans EXCEPT ![c.plan].status = "paper_executed",
                              ![c.plan].papers = @ + 1]
    /\ UNCHANGED lost

Handle(c, s) ==
    \/ StorePlan(c, s)
    \/ CheckExecution(c, s)
    \/ SendOrder(c, s)
    \/ LoseOrder(c, s)
    \/ CommitTestnet(c, s)
    \/ CommitPaper(c, s)

\* The call at its next stage; a plan's creation learns which plan it is.
Passed(c, s) ==
    [c EXCEPT !.stage = s, !.plan = IF c.kind = "create" THEN Len(plans) + 1 ELSE @]

\* What is left of calls nobody waits for: those that are not answered.
Remaining(calls) ==
    SetToBag({c \in calls : c.stage \in {"sent", "checked", "ordered"}})

\* A call the worker waits for.
Serve(k) ==
    /\ task[k].pc = "waiting"
    /\ \E s \in Stage :
         /\ Handle(task[k].call, s)
         /\ task' = [task EXCEPT ![k].call = Passed(task[k].call, s)]
    /\ UNCHANGED <<conf, candle, marks, phase, late, demos, restarts>>

\* A call it has given up.
ServeLate ==
    /\ \E c \in DOMAIN late : \E s \in Stage :
         /\ Handle(c, s)
         /\ late' = (late (-) SetToBag({c})) (+) Remaining({Passed(c, s)})
    /\ UNCHANGED <<conf, candle, marks, phase, task, demos, restarts>>

-----------------------------------------------------------------------------
(* One task.                                                               *)

End(k, result) == task' = [task EXCEPT ![k] = [Idle EXCEPT !.pc = result]]

Send(k, kind) ==
    task' = [task EXCEPT ![k].call.kind = kind, ![k].call.stage = "sent"]

\* The signal snapshot of the market; build_signal_pack may ask for it twice.
ReadCandle(k) ==
    /\ task[k].pc \in {"packing", "packed"}
    /\ task' = [task EXCEPT ![k].pc = "packed", ![k].seen = candle[k]]
    /\ UNCHANGED <<conf, candle, marks, phase, late, plans, budget>>

\* Mutant: the candle is processed again unless a later one was.
DecideUnlessLater(k, c, source) ==
    IF marks[k] > c
    THEN End(k, "done") /\ UNCHANGED marks
    ELSE /\ marks' = [marks EXCEPT ![k] = c]
         /\ task' = [task EXCEPT
                ![k] = [pc |-> "waiting", seen |-> c, prev |-> marks[k],
                        call |-> [kind |-> "create", key |-> k, candle |-> c,
                                  source |-> source, plan |-> 0, stage |-> "sent"]]]

\* A candle is skipped when it is the last one processed.  It is marked
\* before the plan is asked for.
Decide(k, c, source) ==
    IF marks[k] = c
    THEN End(k, "done") /\ UNCHANGED marks
    ELSE /\ marks' = [marks EXCEPT ![k] = c]
         /\ task' = [task EXCEPT
                ![k] = [pc |-> "waiting", seen |-> c, prev |-> marks[k],
                        call |-> [kind |-> "create", key |-> k, candle |-> c,
                                  source |-> source, plan |-> 0, stage |-> "sent"]]]

PlanFromMarket(k) ==
    /\ task[k].pc = "packed"
    /\ Decide(k, task[k].seen, "market")
    /\ UNCHANGED <<conf, candle, phase, late, plans, budget>>

\* Reading the market failed: the demo preset, whose timeframe must match.
PlanFromDemo(k) ==
    /\ task[k].pc \in {"packing", "packed"}
    /\ demos < MaxDemo
    /\ demos' = demos + 1
    /\ IF k \in DemoKey
       THEN Decide(k, DemoCandle, "demo")
       ELSE End(k, "failed") /\ UNCHANGED marks
    /\ UNCHANGED <<conf, candle, phase, late, plans, lost, restarts>>

\* What follows when the plan is not executed on the testnet.
Fallback(k, result) ==
    IF conf.fallback THEN Send(k, "paper") ELSE End(k, result)

\* Where an approved plan is executed, the router's preflight included.
Route(k) ==
    IF conf.paper THEN Send(k, "paper")
    ELSE IF task[k].call.source # "market" \/ k \in conf.halted THEN Fallback(k, "done")
    ELSE Send(k, "testnet")

\* create_trade_plan is answered.
Created(k) ==
    /\ task[k].pc = "waiting" /\ task[k].call.kind = "create"
    /\ \/ task[k].call.stage = "approved" /\ Route(k)
       \/ task[k].call.stage = "blocked" /\ End(k, "done")
    /\ UNCHANGED <<conf, candle, marks, phase, late, plans, budget>>

Executed(k) ==
    /\ task[k].pc = "waiting" /\ task[k].call.kind \in {"testnet", "paper"}
    /\ \/ task[k].call.stage = "executed" /\ End(k, "done")
       \/ /\ task[k].call.stage = "refused"
          /\ IF task[k].call.kind = "testnet"
             THEN Fallback(k, "failed")
             ELSE End(k, "done")
    /\ UNCHANGED <<conf, candle, marks, phase, late, plans, budget>>

\* A call given up is served to its end, or it never arrived, or its handler
\* failed.
Abandon(c) == late' \in {late, late (+) Remaining({c})}

\* Mutant: the mark stays when the plan could not be created.
GiveUpKeepsMark(k) ==
    /\ task[k].pc = "waiting"
    /\ lost[k] < MaxLost
    /\ lost' = [lost EXCEPT ![k] = @ + 1]
    /\ Abandon(task[k].call)
    /\ IF task[k].call.kind = "testnet" THEN Fallback(k, "failed") ELSE End(k, "failed")
    /\ UNCHANGED <<conf, candle, marks, phase, plans, demos, restarts>>

\* A call raises: a timeout, a lost connection, an HTTP error.  The mark goes
\* back when the plan was being created; the router turns the failure of a
\* testnet execution into an answer.
GiveUp(k) ==
    /\ task[k].pc = "waiting"
    /\ lost[k] < MaxLost
    /\ lost' = [lost EXCEPT ![k] = @ + 1]
    /\ Abandon(task[k].call)
    /\ marks' = IF task[k].call.kind = "create"
                THEN [marks EXCEPT ![k] = task[k].prev] ELSE marks
    /\ IF task[k].call.kind = "testnet" THEN Fallback(k, "failed") ELSE End(k, "failed")
    /\ UNCHANGED <<conf, candle, phase, plans, demos, restarts>>

-----------------------------------------------------------------------------
(* The cycle.                                                              *)

Launch ==
    /\ phase' = "running"
    /\ task' = [k \in Key |-> [Idle EXCEPT !.pc = "packing"]]

StartCycle ==
    /\ phase = "sleeping"
    /\ IF conf.paper THEN Launch ELSE phase' = "syncing" /\ UNCHANGED task
    /\ UNCHANGED <<conf, candle, marks, late, plans, budget>>

\* sync_open_testnet_exits is answered or raises.
Synced ==
    /\ phase = "syncing"
    /\ Launch
    /\ UNCHANGED <<conf, candle, marks, late, plans, budget>>

Finished == phase = "running" /\ \A k \in Key : task[k].pc \in {"done", "failed"}

\* Mutant: a cycle without a success ends the worker.
EndCycleStrict ==
    /\ Finished
    /\ phase' = IF \A k \in Key : task[k].pc = "failed" THEN "stopped" ELSE "sleeping"
    /\ task' = [k \in Key |-> Idle]
    /\ UNCHANGED <<conf, candle, marks, late, plans, budget>>

\* Every task is over.  A cycle without a success raises RuntimeError, which
\* main logs; then it sleeps as after any other.
EndCycle ==
    /\ Finished
    /\ phase' = "sleeping"
    /\ task' = [k \in Key |-> Idle]
    /\ UNCHANGED <<conf, candle, marks, late, plans, budget>>

\* The process is restarted: its calls are given up, its memory is gone.
Restart ==
    /\ restarts < MaxRestarts
    /\ restarts' = restarts + 1
    /\ phase' = "sleeping"
    /\ task' = [k \in Key |-> Idle]
    /\ marks' = [k \in Key |-> None]
    /\ late' = late (+) Remaining({task[k].call : k \in Key})
    /\ UNCHANGED <<conf, candle, plans, lost, demos>>

\* A candle closes and is ingested.
Advance(k) ==
    /\ candle[k] < MaxCandle
    /\ candle' = [candle EXCEPT ![k] = @ + 1]
    /\ UNCHANGED <<conf, marks, phase, task, late, plans, budget>>

TaskStep(k) ==
    \/ ReadCandle(k)
    \/ PlanFromMarket(k)
    \/ PlanFromDemo(k)
    \/ Created(k)
    \/ Executed(k)
    \/ GiveUp(k)
    \/ Serve(k)

CycleStep == StartCycle \/ Synced \/ EndCycle

Next ==
    \/ \E k \in Key : TaskStep(k) \/ Advance(k)
    \/ CycleStep
    \/ ServeLate
    \/ Restart

Spec == Init /\ [][Next]_vars

\* The loop of main and the timeouts of its calls: a task goes on until it is
\* over, and a cycle follows the one before.  Nothing is assumed of calls that
\* were given up.
FairSpec ==
    /\ Spec
    /\ \A k \in Key : WF_vars(TaskStep(k))
    /\ WF_vars(CycleStep)

-----------------------------------------------------------------------------
Candle == 0 .. MaxCandle
Call == [kind : {"create", "testnet", "paper"}, key : Key, candle : Candle,
         source : {"market", "demo"}, plan : Nat, stage : Stage]
Planned(k, c) == \E i \in DOMAIN plans : plans[i].key = k /\ plans[i].candle = c
Creating(k) == task[k].pc = "waiting" /\ task[k].call.kind = "create"

\* Types of the worker's memory, of its calls and of the plans.
TypeOK ==
    /\ conf \in Settings
    /\ candle \in [Key -> 1 .. MaxCandle]
    /\ marks \in [Key -> Candle \cup {None}]
    /\ phase \in {"sleeping", "syncing", "running"}
    /\ task \in [Key -> [pc : {"idle", "packing", "packed", "waiting", "done", "failed"},
                         seen : Candle \cup {None}, prev : Candle \cup {None},
                         call : Call \cup {NoCall}]]
    /\ DOMAIN late \subseteq Call
    /\ plans \in Seq([key : Key, candle : Candle, source : {"market", "demo"},
                      status : {"approved", "blocked", "executed", "paper_executed"},
                      orders : 0 .. 1, papers : 0 .. 1])
    /\ lost \in [Key -> 0 .. MaxLost]
    /\ demos \in 0 .. MaxDemo
    /\ restarts \in 0 .. MaxRestarts

\* A candle marked as processed has a plan, once its creation is over: a call
\* that failed takes its mark back, so that no candle is skipped for ever.
MarkedMeansPlanned ==
    \A k \in Key : marks[k] # None /\ ~Creating(k) => Planned(k, marks[k])

\* The places where a key's plans repeat the candle of its plan before.
Repeats(k) ==
    {i \in DOMAIN plans :
        /\ plans[i].key = k
        /\ \E j \in 1 .. i - 1 :
             /\ plans[j].key = k /\ plans[j].candle = plans[i].candle
             /\ \A m \in j + 1 .. i - 1 : plans[m].key # k}

\* Two consecutive plans of a key have the same candle only where a call was
\* lost or the worker was restarted, however late the calls it gave up are
\* served.  A restart may cost two such repetitions: it forgets the mark of
\* the last plan, and it leaves a creation under way behind.
ConsecutiveRepeatsArePaid ==
    \A k \in Key : Cardinality(Repeats(k)) <= lost[k] + 2 * restarts

\* The plans made of the market whose candle the key had a plan of before,
\* whatever plans came between, and the plans made of the demo preset.
MarketRepeats(k) ==
    {i \in DOMAIN plans :
        /\ plans[i].key = k /\ plans[i].source = "market"
        /\ \E j \in 1 .. i - 1 : plans[j].key = k /\ plans[j].candle = plans[i].candle}
DemoPlans(k) == {i \in DOMAIN plans : plans[i].key = k /\ plans[i].source = "demo"}

\* A candle of the market is planned again at most once for each lost call,
\* each restart and each demo plan of its key: a demo plan overwrites the one
\* mark the key has, so that the candle before it looks new.
MarketRepeatsArePaid ==
    \A k \in Key :
        Cardinality(MarketRepeats(k)) <= lost[k] + restarts + Cardinality(DemoPlans(k))

\* A plan is executed both at the exchange and on paper only when an answer
\* on its way was lost.
DoubleExecutionIsPaid ==
    \A k \in Key :
        Cardinality({i \in DOMAIN plans :
            plans[i].key = k /\ plans[i].orders + plans[i].papers > 1}) <= lost[k]

\* Every candle of the market planned again is owed to a lost call, a restart
\* or a demo plan of its key; consecutive plans of one candle, and a plan
\* executed in both ways, to a lost call or a restart alone.
RepetitionIsPaid ==
    MarketRepeatsArePaid /\ ConsecutiveRepeatsArePaid /\ DoubleExecutionIsPaid

\* The runbook's promise: decisions are not made twice within a candle.
OnePlanPerCandle ==
    \A i, j \in DOMAIN plans :
        /\ plans[i].key = plans[j].key
        /\ plans[i].candle = plans[j].candle
        /\ plans[i].source = "market"
        => i = j

\* A candle that stays the last one is planned in the end: failed calls, demo
\* packs and restarts delay its plan and do not prevent it.
CandleIsPlanned ==
    \A k \in Key : \A c \in 1 .. MaxCandle :
        candle[k] = c ~> Planned(k, c) \/ candle[k] # c
=============================================================================
