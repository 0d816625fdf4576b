--------------------------- MODULE Reconciliation ---------------------------
(***************************************************************************)
(* services/execution_state_machine_service.py: the report that compares a *)
(* plan with its orders and positions.  It reads the three tables in       *)
(* statements of their own, between which the handlers of TestnetTrading   *)
(* commit; what it says is compared with what the tables held meanwhile.   *)
(***************************************************************************)
EXTENDS TestnetTrading, Sequences, FiniteSets

CONSTANT Rejected   \* orders whose "expired" stands for a rejection

VARIABLES report,   \* one reconcile_trade_plan: what it has read, what it says
          ever,     \* critical drifts true at some moment since its first read
          always    \* those true at every moment since

reportVars == <<vars, report, ever, always>>

DriftTypes == {"missing_filled_order", "missing_position_association",
               "position_closed_but_plan_still_executed", "missing_exit_protection",
               "multiple_open_positions", "executed_with_rejected_orders"}

NoReport == [plan |-> None, at |-> 1, status |-> "blocked",
             filled |-> FALSE, guards |-> 0, rejected |-> FALSE,
             rows |-> {}, events |-> {}]

ReportInit == Init /\ report = NoReport /\ ever = {} /\ always = {}

-----------------------------------------------------------------------------
\* The order of the statements, and the mutant that turns it round.
ReadingReversed == <<"positions", "orders", "plan">>
Reading == <<"plan", "orders", "positions">>

OrdersOf(p) == {k \in OrderKey : KeyPlan(k) = p /\ orders[k] # "absent"}

\* An order counts as executed by its status or by its executed quantity,
\* which for an entry is the quantity of its position.  The order of a paper
\* execution is a row of its own, filled from the start.
PartlyDone(k) == k[1] \in Exec /\ k[2] = "entry" /\ position[k[1]].qty > 0

Executed(k) == orders[k] \in {"filled", "partially_filled"} \/ PartlyDone(k)

\* An order the exchange rejected has executed nothing.
IsRejected(k) == k \in Rejected /\ orders[k] = "expired" /\ ~PartlyDone(k)

PaperRows(p) == {r \in Paper : planOf[r] = p /\ position[r].status # "none"}

ReadPlanRow(s) == [s EXCEPT !.status = planStatus[s.plan]]

ReadOrderRows(s) ==
    LET rows == OrdersOf(s.plan)
    IN  [s EXCEPT
           !.filled   = PaperRows(s.plan) # {} \/ \E k \in rows : Executed(k),
           !.guards   = Cardinality(ProtectionRows(s.plan)),
           !.rejected = \E k \in rows : IsRejected(k)]

ReadPositionRows(s) ==
    [s EXCEPT !.rows = {<<r, position[r].status>> :
                          r \in {q \in Row : /\ planOf[q] = s.plan
                                            /\ position[q].status # "none"}}]

\* reconcile_loaded_trade_plan, on what was read.
Drifts(s) ==
    LET open     == {row \in s.rows : row[2] = "open"}
        executed == s.status \in {"testnet_executed", "paper_executed"}
        Raised(d) ==
          CASE d = "missing_filled_order" -> executed /\ ~s.filled
            [] d = "missing_position_association" -> executed /\ s.rows = {}
            [] d = "position_closed_but_plan_still_executed" ->
                 executed /\ s.rows # {} /\ open = {}
            [] d = "missing_exit_protection" -> executed /\ open # {} /\ s.guards < 2
            [] d = "multiple_open_positions" -> Cardinality(open) > 1
            [] d = "executed_with_rejected_orders" -> executed /\ s.rejected
    IN  {d \in DriftTypes : Raised(d)}

\* Mutant: one chain of alternatives, so a plan without fills says no more.
ReportFirst(s) ==
    LET all == Drifts(s)
    IN  IF "missing_filled_order" \in all THEN {"missing_filled_order"} ELSE all

Report(s) == Drifts(s)

Open(p) == /\ report.plan = None
           /\ report' = [report EXCEPT !.plan = p]

Read == /\ report.plan # None /\ report.at <= Len(Reading)
        /\ LET s == CASE Reading[report.at] = "plan"      -> ReadPlanRow(report)
                      [] Reading[report.at] = "orders"    -> ReadOrderRows(report)
                      [] Reading[report.at] = "positions" -> ReadPositionRows(report)
           IN  report' = [s EXCEPT
                            !.at = @ + 1,
                            !.events = IF s.at = Len(Reading) THEN Report(s) ELSE {}]

-----------------------------------------------------------------------------
(* The drift the tables really show, said without the service's words.     *)

HasExecution(p) == PaperRows(p) # {} \/ \E k \in OrdersOf(p) : Executed(k)

Traded(p) == planStatus[p] \in {"testnet_executed", "paper_executed"}

Critical(p) ==
    {d \in {"missing_filled_order"} : Traded(p) /\ ~HasExecution(p)}
    \cup {d \in {"missing_position_association"} :
            Traded(p) /\ \A r \in Row : planOf[r] = p => position[r].status = "none"}
    \cup {d \in {"missing_exit_protection"} :
            Traded(p) /\ OpenRows(p) # {} /\ Cardinality(ProtectionRows(p)) < 2}

InProgress == report.at \in 2..Len(Reading)

\* What was true is followed from the state of the first read on.
Watch == LET now == Critical(report.plan)
         IN  CASE report.at = 1 /\ report'.at = 2 -> ever' = now /\ always' = now
               [] InProgress -> ever' = ever \cup now' /\ always' = always \cap now'
               [] OTHER -> UNCHANGED <<ever, always>>

ReportNext == /\ \/ Next /\ UNCHANGED report
                 \/ \E p \in Plan : Open(p) /\ UNCHANGED vars
                 \/ Read /\ UNCHANGED vars
              /\ Watch

ReportSpec == ReportInit /\ [][ReportNext]_reportVars
-----------------------------------------------------------------------------
Done == report.at > Len(Reading)
CriticalTypes == {"missing_filled_order", "missing_position_association",
                  "missing_exit_protection"}

(* A critical drift in the report was true at some moment while it was made *)
(* although plan, orders and positions were read at three of them: it never *)
(* mixes a plan executed meanwhile with the orders of before.               *)
DriftIsReal == Done => report.events \cap CriticalTypes \subseteq ever

(* A critical drift that was there all the time the report was made is in   *)
(* it, with whatever else is wrong with the plan.                           *)
LastingDriftIsReported == Done => always \subseteq report.events
-----------------------------------------------------------------------------
(* The inductive invariant behind them, a part about the tables ...        *)

Moved == {"partially_filled"} \cup Terminal

ExitKey == {k \in OrderKey : k[2] \in {"stop", "tp", "exit"}}

\* A stored exit that once had moved never looks new again: a task that read
\* the order new has loaded it new, and so will not write it.
NeverNewAgain ==
    \A k \in ExitKey :
        /\ orders[k] \in Moved => book[k] \in Moved
        /\ \A s \in Sync :
             /\ loaded[s][k] \in Moved => book[k] \in Moved /\ seen[s][k] # "new"
             /\ loaded[s][k] \in Terminal => book[k] = loaded[s][k]
             /\ seen[s][k] \in Moved => book[k] \in Moved

ShownFilled(k) == book[k] = "filled" /\ orders[k] \in {"partially_filled", "filled"}

\* A filled exit that a task loaded as filled is stored as filled, or as
\* filled in part when a task with an older reading wrote after it.
FillsStayShown ==
    \A k \in ExitKey : \A s \in Sync :
        loaded[s][k] = "filled" => ShownFilled(k)

\* A plan that reads as executed has an open position, one that reads as
\* closed an exit order that shows its fill.
StatusInv ==
    \A p \in Plan :
        /\ Traded(p) => OpenRows(p) # {}
        /\ planStatus[p] = "testnet_closed" => \E k \in ExitOf(p) : ShownFilled(k)

TablesInv == NeverNewAgain /\ FillsStayShown /\ StatusInv

(* ... and a part about a report in the making.                            *)

ReadTraded == report.status \in {"testnet_executed", "paper_executed"}

\* What was read was true, and what is missing in it was noted as missing.
ReportInv ==
    /\ report.at \in 1 .. Len(Reading) + 1
    /\ report.at >= 2 =>
         /\ report.plan \in Plan
         /\ always \subseteq CriticalTypes \ {"missing_position_association"}
         /\ always # {} => ReadTraded
         /\ ReadTraded => planStatus[report.plan] \in ExecutedStatus
    /\ (/\ report.at = 2 /\ ReadTraded
        /\ Cardinality(ProtectionRows(report.plan)) < 2) => "missing_exit_protection" \in ever
    /\ report.at >= 3 =>
         /\ ReadTraded /\ ~report.filled => "missing_filled_order" \in ever
         /\ ReadTraded /\ report.guards < 2 => "missing_exit_protection" \in ever
         /\ "missing_filled_order" \in always => ~report.filled
         /\ "missing_exit_protection" \in always => report.guards < 2
    /\ DriftIsReal
    /\ LastingDriftIsReported
-----------------------------------------------------------------------------
(* What build_summary of shadow_run_reporting_service.py counts.           *)

\* Plans with a testnet_protection_orders_failed or a
\* testnet_local_exit_triggered event are left out.
ExcludedTestnetPlans ==
    {p \in Plan :
       \/ \E e \in Exec : /\ planOf[e] = p /\ position[e].status # "none"
                          /\ orders[<<e, "stop">>] = "absent"
       \/ \E s \in Sync : planOf[s] = p /\ orders[<<s, "exit">>] # "absent"}

TestnetTrades == {p \in Plan : planStatus[p] = "testnet_executed"}
                   \ ExcludedTestnetPlans

\* The gate asks for 200 or more trades accumulated in the window: a trade
\* that counts goes on counting, unless an event excludes it.
TradesAccumulate ==
    [][TestnetTrades \subseteq TestnetTrades' \cup ExcludedTestnetPlans']_vars
=============================================================================
