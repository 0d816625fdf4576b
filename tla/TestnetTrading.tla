--------------------------- MODULE TestnetTrading ---------------------------
(***************************************************************************)
(* The trading core: executions, paper executions and exit                 *)
(* synchronisations interleaved at their awaits, with the exchange.        *)
(***************************************************************************)
EXTENDS EntryExecution, ExitSync, Exchange

Next == EntryNext \/ SyncNext \/ ExchangeNext

Spec == Init /\ [][Next]_vars

EntryPc == {"idle", "checked", "placed", "confirmed", "priced", "protected", "bare",
            "done", "failed"}
PaperPc == {"idle", "checked", "done"}
SyncPc  == {"idle", "marking", "closing", "refreshing", "done"}

PositionRow == [status : {"none", "open", "closed"}, qty : Nat, id : Nat]

\* Types of the tables, the exchange and the handlers' local state.
TypeOK ==
    /\ planStatus \in [Plan -> PlanStatus]
    /\ position \in [Row -> PositionRow]
    /\ lastId \in Nat
    /\ orders \in [OrderKey -> Status]
    /\ book \in [OrderKey -> Status]
    /\ fill \in [Exec \cup Sync -> Nat]
    /\ held \in [Symbol -> Int]
    /\ pc \in [Request -> EntryPc \cup PaperPc \cup SyncPc]
    /\ planOf \in [Request -> Plan \cup {None}]
    /\ view \in [Exec -> [status : Status, qty : Nat]]
    /\ target \in [Sync -> Row \cup {None}]
    /\ loaded \in [Sync -> [OrderKey -> Status]]
    /\ seen \in [Sync -> [OrderKey -> Status]]
    /\ tried \in [Sync -> SUBSET OrderKey]

-----------------------------------------------------------------------------
(* What holds however the handlers interleave, and whatever is lost.       *)

\* A plan the risk engine and the final gate blocked never reaches the
\* exchange: no order carries it, although the status is read long before
\* the order is placed and is overwritten without being read again.
BlockedPlansNeverTrade ==
    \A k \in OrderKey : book[k] # "absent" =>
        /\ KeyPlan(k) # None
        /\ planStatus[KeyPlan(k)] # "blocked"

\* The orders table never claims an end that did not happen: a row exists
\* only for an order the exchange accepted, and a terminal status in it is
\* the status of the order, whatever stale reads were written over it.
RowsNeverAhead ==
    \A k \in OrderKey :
        /\ orders[k] # "absent" => book[k] # "absent"
        /\ orders[k] \in Terminal => book[k] = orders[k]

\* Orders that take a plan out of the market.
ExitOf(p) == {k \in OrderKey : k[2] \in {"stop", "tp", "exit"} /\ KeyPlan(k) = p}

\* A position row is closed only when the exchange has filled an exit order
\* of its plan, a protection order or the synthetic close: a cancelled,
\* expired, refused or merely sent order never closes one.
ClosedByFill ==
    \A r \in Row : position[r].status = "closed" =>
        \E k \in ExitOf(planOf[r]) : book[k] = "filled"

ExecutedStatus == {"paper_executed", "testnet_executed", "testnet_closed"}

\* A plan is in an executed or closed status exactly when a position row was
\* committed for it, so the approved check refuses every later execution.
ExecutedIffPositioned ==
    \A p \in Plan : planStatus[p] \in ExecutedStatus <=>
        \E r \in Row : planOf[r] = p /\ position[r].status # "none"

-----------------------------------------------------------------------------
(* The inductive invariant behind them.                                    *)

\* What an execution has sent and stored, by its progress.
EntryInv(e) ==
    /\ pc[e] \in EntryPc
    /\ pc[e] = "idle" => planOf[e] = None
    /\ pc[e] # "idle" => planOf[e] \in Plan /\ planStatus[planOf[e]] # "blocked"
    /\ pc[e] \in {"idle", "checked"} => fill[e] = 0
    /\ pc[e] \in {"idle", "checked"} <=> book[<<e, "entry">>] = "absent"
    /\ pc[e] \in {"idle", "checked", "placed", "confirmed", "priced"} =>
         book[<<e, "orphan">>] = "absent"
    /\ pc[e] \in {"idle", "checked", "placed", "confirmed", "priced", "bare"} =>
         book[<<e, "stop">>] = "absent" /\ book[<<e, "tp">>] = "absent"
    /\ pc[e] = "protected" =>
         book[<<e, "stop">>] # "absent" /\ book[<<e, "tp">>] # "absent"
    /\ pc[e] # "idle" /\ book[<<e, "entry">>] # "filled" => fill[e] < Qty[planOf[e]]
    /\ pc[e] = "done" <=> position[e].status # "none"
    /\ pc[e] # "done" =>
         /\ orders[<<e, "entry">>] = "absent"
         /\ orders[<<e, "stop">>] = "absent"
         /\ orders[<<e, "tp">>] = "absent"
    /\ orders[<<e, "orphan">>] = "absent"

\* What an execution learnt of its entry order is not ahead of the exchange.
ViewInv(e) ==
    pc[e] \in {"confirmed", "priced", "protected", "bare"} =>
        /\ view[e].status # "absent"
        /\ view[e].status \in Terminal => book[<<e, "entry">>] = view[e].status
        /\ view[e].qty <= fill[e]

PaperInv(r) ==
    /\ pc[r] \in PaperPc
    /\ pc[r] = "idle" => planOf[r] = None
    /\ pc[r] # "idle" => planOf[r] \in Plan /\ planStatus[planOf[r]] # "blocked"
    /\ pc[r] = "done" <=> position[r].status # "none"

\* A synchronisation works for the plan of the row it targets, and its close
\* order exists once it has sent it.
SyncInv(s) ==
    /\ pc[s] \in SyncPc
    /\ pc[s] = "idle" => planOf[s] = None
    /\ pc[s] # "idle" =>
         /\ planOf[s] \in Plan
         /\ target[s] \in Row
         /\ position[target[s]].status # "none"
         /\ planOf[target[s]] = planOf[s]
    /\ pc[s] \in {"closing", "done"} <=> book[<<s, "exit">>] # "absent"
    /\ pc[s] # "done" => orders[<<s, "exit">>] = "absent"

\* What a synchronisation has read is about stored orders of its plan, and a
\* terminal status it has seen is still the status of the order.
ReadInv(s) ==
    \A k \in OrderKey :
        /\ loaded[s][k] # "absent" =>
             /\ pc[s] = "refreshing"
             /\ k[2] \in {"stop", "tp", "exit"}
             /\ KeyPlan(k) = planOf[s]
             /\ orders[k] # "absent"
        /\ seen[s][k] # "absent" => loaded[s][k] # "absent"
        /\ seen[s][k] \in Terminal => book[k] = seen[s][k]

IInv ==
    /\ \A e \in Exec : EntryInv(e) /\ ViewInv(e)
    /\ \A r \in Paper : PaperInv(r)
    /\ \A s \in Sync : SyncInv(s) /\ ReadInv(s)
    /\ RowsNeverAhead
    /\ ClosedByFill
    /\ ExecutedIffPositioned

-----------------------------------------------------------------------------
(* What holds when no two executions overlap in a slot and no paper        *)
(* execution mixes with them, whatever crashes and whatever answers or     *)
(* orders are lost.                                                        *)

\* "se bloquea una nueva entrada": at most one open position per symbol and
\* side, although the check precedes the commit by several awaits.
OneOpenRowPerSlot ==
    \A r, q \in Row :
        /\ position[r].status = "open"
        /\ position[q].status = "open"
        /\ SameSlot(planOf[r], planOf[q])
        => r = q

\* Closing is final: no execution still in flight can bring a closed plan
\* back to executed.
ClosedIsFinal ==
    [][\A p \in Plan : planStatus[p] = "testnet_closed" =>
           planStatus'[p] = "testnet_closed"]_vars

\* A closed plan keeps no open position: sync_exit_orders would return at
\* trade_plan_already_closed and never look at it again.
ClosedPlanHasNoOpenRow ==
    \A r \in Row : position[r].status = "open" =>
        planStatus[planOf[r]] # "testnet_closed"

\* The synthetic close is never sent for a plan that has native protection
\* recorded, so the two exits never race for one position.
NoSyntheticExitUnderProtection ==
    \A s \in Sync : book[<<s, "exit">>] # "absent" =>
        ~ \E e \in Exec : planOf[e] = planOf[s] /\ orders[<<e, "stop">>] # "absent"

\* The inductive invariant behind these.  One execution at a time works in a
\* slot, for a plan that is approved still and finds no open position there.
AloneInv ==
    \A e \in Exec : Executing(e) =>
        /\ planStatus[planOf[e]] = "approved"
        /\ \A f \in Exec : Executing(f) /\ SameSlot(planOf[e], planOf[f]) => f = e
        /\ \A r \in Row : position[r].status = "open" => ~SameSlot(planOf[r], planOf[e])

\* A plan has one position row, so the task that closes it closes all it has.
OneRowPerPlan ==
    \A r, q \in Row :
        /\ position[r].status # "none"
        /\ position[q].status # "none"
        /\ planOf[r] = planOf[q]
        => r = q

\* A task that chose the synthetic exit found no protection rows, and there
\* are none after it did.
UnprotectedInv ==
    \A s \in Sync : pc[s] \in {"marking", "closing", "done"} =>
        \A e \in Exec : planOf[e] = planOf[s] => orders[<<e, "stop">>] = "absent"

ExclusiveInv ==
    /\ AloneInv
    /\ OneOpenRowPerSlot
    /\ OneRowPerPlan
    /\ ClosedPlanHasNoOpenRow
    /\ UnprotectedInv

-----------------------------------------------------------------------------
(* The abstract specification.                                             *)

Exited == {p \in Plan : \E k \in ExitOf(p) : book[k] = "filled"}

Ledger == INSTANCE PositionLedger WITH
    row      <- [r \in Row |-> position[r].status],
    owner    <- [r \in Row |-> IF position[r].status = "none" THEN None ELSE planOf[r]],
    barred   <- {p \in Plan : planStatus[p] = "blocked"},
    executed <- {p \in Plan : planStatus[p] \in ExecutedStatus},
    exited   <- Exited

\* The core implements the ledger: a row opens once and closes once, after a
\* filled exit of its plan; a plan that traded stays executed for good, and
\* the set of barred plans never changes.
ImplementsLedger == Ledger!Spec

-----------------------------------------------------------------------------
(* What the documents say of the system and the code does not do.          *)

\* Paper trading runs "sin exponer capital": no order reaches the exchange
\* on account of a paper position.
PaperNeverTrades ==
    \A s \in Sync : book[<<s, "exit">>] # "absent" => target[s] \notin Paper

=============================================================================
