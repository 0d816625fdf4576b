------------------------------ MODULE ExitSync ------------------------------
(***************************************************************************)
(* sync_exit_orders of BinanceTestnetTradingService: the task the worker   *)
(* starts for every open position at the head of each cycle, and the only  *)
(* code that closes one.  Without protection rows it compares the mark     *)
(* price with the plan's levels and closes at the market; with them it     *)
(* reads each order from the exchange and follows what it finds.           *)
(*                                                                         *)
(* A task that changed nothing at the exchange may run again.              *)
(***************************************************************************)
EXTENDS TestnetState

Syncing(s) == pc[s] \in {"marking", "closing", "refreshing"}

\* The task returns without a commit of its own.
Return(s) ==
    /\ pc' = [pc EXCEPT ![s] = "idle"]
    /\ planOf' = [planOf EXCEPT ![s] = None]
    /\ target' = [target EXCEPT ![s] = None]
    /\ loaded' = [loaded EXCEPT ![s] = NoReads]
    /\ seen' = [seen EXCEPT ![s] = NoReads]
    /\ tried' = [tried EXCEPT ![s] = {}]
    /\ UNCHANGED view

\* A task whose close order went out ends for good: <<s, "exit">> is taken.
End(s) ==
    /\ pc' = [pc EXCEPT ![s] = "done"]
    /\ UNCHANGED <<planOf, view, target, reads>>

\* The guards: the plan is not closed and has an open position; the one with
\* the highest primary key is taken, and the protection rows are loaded.
StartSync(s, p) ==
    /\ pc[s] = "idle"
    /\ planStatus[p] # "testnet_closed"
    /\ \E r \in OpenRows(p) :
         /\ \A q \in OpenRows(p) : position[q].id <= position[r].id
         /\ target' = [target EXCEPT ![s] = r]
    /\ planOf' = [planOf EXCEPT ![s] = p]
    /\ loaded' = [loaded EXCEPT ![s] =
         [k \in OrderKey |-> IF k \in ProtectionRows(p) THEN orders[k] ELSE "absent"]]
    /\ pc' = [pc EXCEPT ![s] =
         IF ProtectionRows(p) = {} THEN "marking" ELSE "refreshing"]
    /\ UNCHANGED <<database, exchange, view, seen, tried>>

-----------------------------------------------------------------------------
(* No protection rows: the synthetic exit. *)

\* The mark price is unavailable, or touches neither level.
NoLocalTrigger(s) ==
    /\ pc[s] = "marking"
    /\ Return(s)
    /\ UNCHANGED <<database, exchange>>

\* close_position_market is refused: the client refuses a quantity of zero,
\* the exchange a reduceOnly order with nothing to reduce.
CloseRefused(s) ==
    /\ pc[s] = "marking"
    /\ \/ position[target[s]].qty = 0
       \/ Exposure(planOf[s]) <= 0
    /\ Return(s)
    /\ UNCHANGED <<database, exchange>>

\* close_position_market is accepted; the answer may be lost.
SendClose(s) ==
    /\ pc[s] = "marking"
    /\ position[target[s]].qty > 0
    /\ Exposure(planOf[s]) > 0
    /\ book' = [book EXCEPT ![<<s, "exit">>] = "new"]
    /\ \E answered \in BOOLEAN :
         IF answered
         THEN /\ pc' = [pc EXCEPT ![s] = "closing"]
              /\ UNCHANGED <<planOf, view, target, reads>>
         ELSE End(s)
    /\ UNCHANGED <<database, fill, held>>

\* Mutant: an accepted close order counts as executed.
CommitCloseUnconfirmed(s) ==
    /\ pc[s] = "closing"
    /\ position' = [position EXCEPT ![target[s]].status = "closed"]
    /\ planStatus' = [planStatus EXCEPT ![planOf[s]] = "testnet_closed"]
    /\ orders' = [orders EXCEPT ![<<s, "exit">>] = book[<<s, "exit">>]]
    /\ End(s)
    /\ UNCHANGED <<lastId, exchange>>

\* Mutant: the plan is closed and its position row forgotten.
CommitClosePlanOnly(s) ==
    /\ pc[s] = "closing"
    /\ book[<<s, "exit">>] = "filled"
    /\ planStatus' = [planStatus EXCEPT ![planOf[s]] = "testnet_closed"]
    /\ orders' = [orders EXCEPT ![<<s, "exit">>] = "filled"]
    /\ End(s)
    /\ UNCHANGED <<position, lastId, exchange>>

\* The close order is confirmed executed in full, and the exit is committed
\* with an order row of its own.  The quantity decides; a status read before
\* the last trade is stored as it was read.
CommitClose(s) ==
    /\ pc[s] = "closing"
    /\ book[<<s, "exit">>] = "filled"
    /\ position' = [position EXCEPT ![target[s]].status = "closed"]
    /\ planStatus' = [planStatus EXCEPT ![planOf[s]] = "testnet_closed"]
    /\ \E status \in {"partially_filled", "filled"} :
         orders' = [orders EXCEPT ![<<s, "exit">>] = status]
    /\ End(s)
    /\ UNCHANGED <<lastId, exchange>>

\* testnet_local_exit_not_filled: the order is not filled yet, ended short,
\* or could not be refreshed.  The position row keeps its whole quantity.
CloseNotFilled(s) ==
    /\ pc[s] = "closing"
    /\ End(s)
    /\ UNCHANGED <<database, exchange>>

-----------------------------------------------------------------------------
(* Protection rows: the native exit. *)

Unread(s) == {k \in OrderKey : loaded[s][k] # "absent" /\ seen[s][k] = "absent"}

\* One order is read from the exchange, a stop before its take profit.
ReadOrder(s, k) ==
    /\ pc[s] = "refreshing"
    /\ k \in Unread(s)
    /\ k[2] = "tp" => <<k[1], "stop">> \notin Unread(s)
    /\ seen' = [seen EXCEPT ![s][k] = book[k]]
    /\ UNCHANGED <<database, exchange, pc, planOf, view, target, loaded, tried>>

\* exit_order_refresh_failed: one failed read ends the task.
ReadFails(s) ==
    /\ pc[s] = "refreshing"
    /\ Unread(s) # {}
    /\ Return(s)
    /\ UNCHANGED <<database, exchange>>

\* Mutant: any order that ended counts as triggered.
TriggeredByAnyEnd(s) == \E k \in OrderKey : seen[s][k] \in Terminal

\* Mutant: only the stop is looked at.
TriggeredByStop(s) == \E k \in OrderKey : k[2] = "stop" /\ seen[s][k] = "filled"

Triggered(s) == \E k \in OrderKey : seen[s][k] = "filled"

\* An attribute set to the value it was loaded with is not written back, so
\* a status another task stored meanwhile survives.
StoreStatuses(s) ==
    orders' = [k \in OrderKey |->
                 IF seen[s][k] # "absent" /\ seen[s][k] # loaded[s][k]
                 THEN seen[s][k] ELSE orders[k]]

\* no_triggered_exit: every status is stored, whatever it is.
NoTriggeredExit(s) ==
    /\ pc[s] = "refreshing"
    /\ Unread(s) = {}
    /\ ~Triggered(s)
    /\ StoreStatuses(s)
    /\ Return(s)
    /\ UNCHANGED <<planStatus, position, lastId, exchange>>

LiveSiblings(s) == {k \in OrderKey : seen[s][k] \in Live}

\* Mutant: the sibling is marked canceled before the exchange confirms it.
CancelSiblingUnconfirmed(s, k) ==
    /\ pc[s] = "refreshing"
    /\ Unread(s) = {}
    /\ Triggered(s)
    /\ k \in LiveSiblings(s) \ tried[s]
    /\ seen' = [seen EXCEPT ![s][k] = "canceled"]
    /\ tried' = [tried EXCEPT ![s] = @ \cup {k}]
    /\ UNCHANGED <<database, exchange, pc, planOf, view, target, loaded>>

\* _cancel_exchange_order_ref on a sibling.  A failure is logged and the
\* exit goes on; a lost answer looks like a failure.
CancelSibling(s, k) ==
    /\ pc[s] = "refreshing"
    /\ Unread(s) = {}
    /\ Triggered(s)
    /\ k \in LiveSiblings(s) \ tried[s]
    /\ \/ UNCHANGED <<book, seen>>
       \/ /\ book[k] \in Live
          /\ book' = [book EXCEPT ![k] = "canceled"]
          /\ \/ seen' = [seen EXCEPT ![s][k] = "canceled"]
             \/ UNCHANGED seen
    /\ tried' = [tried EXCEPT ![s] = @ \cup {k}]
    /\ UNCHANGED <<database, fill, held, pc, planOf, view, target, loaded>>

\* The commit of the native exit, after the last cancellation.
CommitExit(s) ==
    /\ pc[s] = "refreshing"
    /\ Unread(s) = {}
    /\ Triggered(s)
    /\ LiveSiblings(s) \subseteq tried[s]
    /\ position' = [position EXCEPT ![target[s]].status = "closed"]
    /\ planStatus' = [planStatus EXCEPT ![planOf[s]] = "testnet_closed"]
    /\ StoreStatuses(s)
    /\ Return(s)
    /\ UNCHANGED <<lastId, exchange>>

-----------------------------------------------------------------------------
\* The process dies, or the commit fails.
CrashSync(s) ==
    /\ Syncing(s)
    /\ IF pc[s] = "closing" THEN End(s) ELSE Return(s)
    /\ UNCHANGED <<database, exchange>>

\* The steps of a task that has started.
SyncTask(s) == \/ NoLocalTrigger(s)
               \/ CloseRefused(s)
               \/ SendClose(s)
               \/ CommitClose(s)
               \/ CloseNotFilled(s)
               \/ \E k \in OrderKey : ReadOrder(s, k) \/ CancelSibling(s, k)
               \/ ReadFails(s)
               \/ NoTriggeredExit(s)
               \/ CommitExit(s)
               \/ CrashSync(s)

SyncNext == \E s \in Sync : (\E p \in Plan : StartSync(s, p)) \/ SyncTask(s)
=============================================================================
