----------------------------- MODULE ExitSweep -----------------------------
(***************************************************************************)
(* sync_open_testnet_exits of testnet_trading_service.py, which the worker *)
(* calls in every cycle: it lists the plans with an open position and      *)
(* synchronises their exits one after the other, each as it is by then.    *)
(* The task of the plan it is at is a synchronisation of ExitSync; the     *)
(* executions, the paper executions and the exchange go on meanwhile, and  *)
(* so may the tasks of earlier sweeps, which the worker gave up waiting    *)
(* for.                                                                    *)
(***************************************************************************)
EXTENDS TestnetTrading

CONSTANT Late    \* synchronisations by earlier sweeps

ASSUME LateAssumption == Late \subseteq Sync

VARIABLE sweep    \* plans to visit, and the task under way

sweepVars == <<vars, sweep>>

NoSweep == [todo |-> {}, task |-> None]

SweepInit == Init /\ sweep = NoSweep

\* Between two plans, or before a sweep.
Between == sweep.task = None

\* Whatever the mode of the execution: paper rows carry is_testnet too.
OpenPlans == {p \in Plan : OpenRows(p) # {}}

StartSweep == /\ Between /\ sweep.todo = {}
              /\ sweep' = [todo |-> OpenPlans, task |-> None]
              /\ UNCHANGED vars

\* The next plan: sync_exit_orders starts its task.
Visit(p) == /\ Between /\ p \in sweep.todo
            /\ \E s \in Sync \ Late :
                 /\ StartSync(s, p)
                 /\ sweep' = [todo |-> sweep.todo \ {p}, task |-> s]

\* Another task closed it since the list was read.
Skip(p) == /\ Between /\ p \in sweep.todo
           /\ planStatus[p] = "testnet_closed" \/ OpenRows(p) = {}
           /\ sweep' = [todo |-> sweep.todo \ {p}, task |-> None]
           /\ UNCHANGED vars

\* What is left to visit after a task.  The mutant returns with the first
\* plan that has nothing to report.
LeftOnlyAfterExit(s) == IF planStatus'[planOf[s]] = "testnet_closed"
                        THEN sweep.todo ELSE {}
Left(s) == sweep.todo

\* The sweep goes on when its task returns.
Follow(s) == /\ sweep.task = s
             /\ sweep' = IF pc'[s] \in {"idle", "done"}
                         THEN [todo |-> Left(s), task |-> None] ELSE sweep

\* A step of the task.  A failed read or a task that raises is reported,
\* and the next plan is visited.
TaskStep(s) == SyncTask(s) /\ Follow(s)

\* The process dies, or the commit of the error report fails too.
Abandon(s) == /\ sweep.task = s
              /\ CrashSync(s)
              /\ sweep' = NoSweep

\* An earlier sweep goes on, as far as it likes.
LateStep(s) == /\ (\E p \in Plan : StartSync(s, p)) \/ SyncTask(s)
               /\ UNCHANGED sweep

SweepNext == \/ (EntryNext \/ ExchangeNext) /\ UNCHANGED sweep
             \/ \E s \in Late : LateStep(s)
             \/ StartSweep
             \/ \E p \in Plan : Visit(p) \/ Skip(p)
             \/ \E s \in Sync \ Late : TaskStep(s) \/ Abandon(s)

SweepSpec == SweepInit /\ [][SweepNext]_sweepVars
-----------------------------------------------------------------------------
(* The worker calls the sweep again in every cycle and every await of it    *)
(* has a timeout.  A read from the exchange may fail and the process may    *)
(* die, but neither for ever.  In which order the plans are visited is left *)
(* to the database, and the exchange owes nothing.                          *)

SweepStep == StartSweep \/ \E p \in Plan : Visit(p) \/ Skip(p)
                        \/ \E s \in Sync \ Late : TaskStep(s)

Reads(s, kind) == \E e \in Exec : ReadOrder(s, <<e, kind>>)
Cancels(s) == \E e \in Exec, kind \in {"stop", "tp"} : CancelSibling(s, <<e, kind>>)
Settles(s) == NoTriggeredExit(s) \/ CommitExit(s)

SweepFairness ==
    /\ WF_sweepVars(SweepStep)
    /\ \A s \in Sync \ Late, p \in Plan :
         /\ SF_sweepVars(planOf[s] = p /\ Reads(s, "stop") /\ Follow(s))
         /\ SF_sweepVars(planOf[s] = p /\ Reads(s, "tp") /\ Follow(s))
         /\ SF_sweepVars(planOf[s] = p /\ Cancels(s) /\ Follow(s))
         /\ SF_sweepVars(planOf[s] = p /\ Settles(s) /\ Follow(s))

(* A recorded protection order that the exchange has filled is noticed: its *)
(* position is closed in the end, however many other plans the sweep visits *)
(* before it, whatever reads fail and however often the sweep is abandoned. *)
FilledExitIsSettled ==
    \A e \in Exec, kind \in {"stop", "tp"} :
        (/\ position[e].status = "open"
         /\ orders[<<e, kind>>] # "absent"
         /\ book[<<e, kind>>] = "filled") ~> position[e].status = "closed"
=============================================================================
