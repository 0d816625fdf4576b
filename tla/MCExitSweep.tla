---------------------------- MODULE MCExitSweep ----------------------------
(* A sweep over two open positions, or over one while an earlier sweep goes *)
(* on, for TLC.                                                             *)
EXTENDS ExitSweep

CONSTANTS a, b, btc, eth, e1, e2

TwoSymbols == [p \in Plan |-> IF p = a THEN btc ELSE eth]
AllLong    == [p \in Plan |-> 1]
QtyOne     == [p \in Plan |-> 1]

\* The state two executions of SweepSpec leave behind that were filled and
\* protected one after the other.
Bought == Exec \X {"entry"}
Guards == Exec \X {"stop", "tp"}

BothOpen ==
    /\ planStatus = [p \in Plan |-> "testnet_executed"]
    /\ position = [r \in Row |-> [status |-> "open", qty |-> 1,
                                  id |-> IF r = e1 THEN 1 ELSE 2]]
    /\ lastId = 2
    /\ orders = [k \in OrderKey |-> CASE k \in Bought -> "filled"
                                      [] k \in Guards -> "new"
                                      [] OTHER -> "absent"]
    /\ book = orders
    /\ fill = [r \in Exec \cup Sync |-> IF r \in Exec THEN 1 ELSE 0]
    /\ held = [s \in Symbol |-> 1]
    /\ pc = [r \in Request |-> IF r \in Exec THEN "done" ELSE "idle"]
    /\ planOf = [r \in Request |-> CASE r = e1 -> a [] r = e2 -> b [] OTHER -> None]
    /\ view = [e \in Exec |-> NoView]
    /\ target = [s \in Sync |-> None]
    /\ loaded = [s \in Sync |-> NoReads]
    /\ seen = [s \in Sync |-> NoReads]
    /\ tried = [s \in Sync |-> {}]
    /\ sweep = NoSweep

\* The same with b turned down: here a task of an earlier sweep is about.
OneOpen ==
    /\ planStatus = [p \in Plan |-> IF p = a THEN "testnet_executed" ELSE "blocked"]
    /\ position = [r \in Row |-> IF r = e1 THEN [status |-> "open", qty |-> 1, id |-> 1]
                                 ELSE NoRow]
    /\ lastId = 1
    /\ orders = [k \in OrderKey |-> CASE k = <<e1, "entry">> -> "filled"
                                      [] k \in {e1} \X {"stop", "tp"} -> "new"
                                      [] OTHER -> "absent"]
    /\ book = orders
    /\ fill = [r \in Exec \cup Sync |-> IF r = e1 THEN 1 ELSE 0]
    /\ held = [s \in Symbol |-> IF s = btc THEN 1 ELSE 0]
    /\ pc = [r \in Request |-> IF r = e1 THEN "done" ELSE "idle"]
    /\ planOf = [r \in Request |-> IF r = e1 THEN a ELSE None]
    /\ view = [e \in Exec |-> NoView]
    /\ target = [s \in Sync |-> None]
    /\ loaded = [s \in Sync |-> NoReads]
    /\ seen = [s \in Sync |-> NoReads]
    /\ tried = [s \in Sync |-> {}]
    /\ sweep = NoSweep

\* Bounds the model: earlier sweeps act where one plan is open only.
LateAlone == planStatus[b] # "blocked" => \A s \in Late : pc'[s] = "idle"

FairSpec == (BothOpen \/ OneOpen) /\ [][SweepNext]_sweepVars /\ SweepFairness
=============================================================================
