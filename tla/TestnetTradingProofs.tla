----------------------- MODULE TestnetTradingProofs -----------------------
(***************************************************************************)
(* Theorems about TestnetTrading, for any plans, symbols, quantities and   *)
(* requests, and any interleaving of them.                                 *)
(***************************************************************************)
EXTENDS TradingSteps

\* The initial states satisfy the invariant.
LEMMA InitInductive ==
  ASSUME Init
  PROVE  TypeOK /\ IInv
  <1>1. TypeOK
    BY Statuses, ConstantsAssumption
    DEF Init, TypeOK, PlanStatus, NoRow, PositionRow, NoReads, NoView, EntryPc, Request
  <1>2. \A e \in Exec : EntryInv(e) /\ ViewInv(e)
    BY Keys, ConstantsAssumption
    DEF Init, EntryInv, ViewInv, NoReads, NoRow, EntryPc, Request, Row
  <1>3. \A r \in Paper : PaperInv(r)
    BY DEF Init, PaperInv, PaperPc, NoRow, Request, Row
  <1>4. \A s \in Sync : SyncInv(s) /\ ReadInv(s)
    BY Keys DEF Init, SyncInv, ReadInv, SyncPc, NoReads, Request, Terminal
  <1>5. RowsNeverAhead
    BY Statuses DEF Init, RowsNeverAhead, NoReads
  <1>6. ClosedByFill
    BY DEF Init, ClosedByFill, NoRow
  <1>7. ExecutedIffPositioned
    BY DEF Init, ExecutedIffPositioned, ExecutedStatus, NoRow
  <1>8. QED
    BY <1>1, <1>2, <1>3, <1>4, <1>5, <1>6, <1>7 DEF IInv

\* A stuttering step preserves the invariant.
LEMMA StutterInductive ==
  ASSUME TypeOK, IInv, UNCHANGED vars
  PROVE  TypeOK' /\ IInv' /\ Stable
  <1>1. TypeOK'
    BY DEF TypeOK, vars, database, exchange, reads
  <1>2. Stable
    BY DEF Stable, PlansStable, OrdersStable, RowsStable, vars, database, exchange, reads
  <1>3. \A e \in Exec : EntryInv(e)' /\ ViewInv(e)'
    BY <1>2, EntryKept DEF IInv, EntryFrame, vars, database, exchange, reads
  <1>4. \A s \in Sync : book'[<<s, "exit">>] = "absent" <=> book[<<s, "exit">>] = "absent"
    BY DEF vars, exchange
  <1>5. IInv'
    BY <1>2, <1>3, <1>4, ExchangeStep DEF Stable, vars, database, exchange, reads
  <1>6. QED
    BY <1>1, <1>2, <1>5

\* Every step preserves the invariant.
LEMMA NextInductive ==
  ASSUME TypeOK, IInv, [Next]_vars
  PROVE  TypeOK' /\ IInv' /\ Stable
  <1>1. CASE EntryNext
    <2>1. ASSUME NEW e \in Exec, NEW p \in Plan, CheckPlan(e, p) PROVE TypeOK' /\ IInv' /\ Stable
      BY <2>1, CheckPlanInductive
    <2>2. ASSUME NEW e \in Exec, GiveUpEntry(e) PROVE TypeOK' /\ IInv' /\ Stable
      BY <2>2, GiveUpEntryInductive
    <2>3. ASSUME NEW e \in Exec, PlaceEntry(e) PROVE TypeOK' /\ IInv' /\ Stable
      BY <2>3, PlaceEntryInductive
    <2>4. ASSUME NEW e \in Exec, ConfirmEntry(e) PROVE TypeOK' /\ IInv' /\ Stable
      BY <2>4, ConfirmEntryInductive
    <2>5. ASSUME NEW e \in Exec, PriceEntry(e) PROVE TypeOK' /\ IInv' /\ Stable
      BY <2>5, PriceEntryInductive
    <2>6. ASSUME NEW e \in Exec, Protect(e) PROVE TypeOK' /\ IInv' /\ Stable
      BY <2>6, ProtectInductive
    <2>7. ASSUME NEW e \in Exec, CommitEntry(e) PROVE TypeOK' /\ IInv' /\ Stable
      BY <2>7, CommitEntryInductive
    <2>8. ASSUME NEW e \in Exec, CrashEntry(e) PROVE TypeOK' /\ IInv' /\ Stable
      BY <2>8, CrashEntryInductive
    <2>9. ASSUME NEW r \in Paper, NEW p \in Plan, PaperRead(r, p) PROVE TypeOK' /\ IInv' /\ Stable
      BY <2>9, PaperReadInductive
    <2>10. ASSUME NEW r \in Paper, PaperCommit(r) PROVE TypeOK' /\ IInv' /\ Stable
      BY <2>10, PaperCommitInductive
    <2>11. QED
      BY <1>1, <2>1, <2>2, <2>3, <2>4, <2>5, <2>6, <2>7, <2>8, <2>9, <2>10 DEF EntryNext
  <1>2. CASE SyncNext
    <2>1. ASSUME NEW s \in Sync, NEW p \in Plan, StartSync(s, p) PROVE TypeOK' /\ IInv' /\ Stable
      BY <2>1, StartSyncInductive
    <2>2. ASSUME NEW s \in Sync, NoLocalTrigger(s) \/ CloseRefused(s) \/ ReadFails(s)
          PROVE  TypeOK' /\ IInv' /\ Stable
      BY <2>2, ReturnInductive DEF NoLocalTrigger, CloseRefused, ReadFails
    <2>3. ASSUME NEW s \in Sync, SendClose(s) PROVE TypeOK' /\ IInv' /\ Stable
      BY <2>3, SendCloseInductive
    <2>4. ASSUME NEW s \in Sync, CommitClose(s) PROVE TypeOK' /\ IInv' /\ Stable
      BY <2>4, CommitCloseInductive
    <2>5. ASSUME NEW s \in Sync, CloseNotFilled(s) PROVE TypeOK' /\ IInv' /\ Stable
      BY <2>5, EndInductive DEF CloseNotFilled
    <2>6. ASSUME NEW s \in Sync, NEW k \in OrderKey, ReadOrder(s, k) PROVE TypeOK' /\ IInv' /\ Stable
      BY <2>6, ReadOrderInductive
    <2>7. ASSUME NEW s \in Sync, NEW k \in OrderKey, CancelSibling(s, k) PROVE TypeOK' /\ IInv' /\ Stable
      BY <2>7, CancelSiblingInductive
    <2>8. ASSUME NEW s \in Sync, NoTriggeredExit(s) PROVE TypeOK' /\ IInv' /\ Stable
      BY <2>8, NoTriggeredExitInductive
    <2>9. ASSUME NEW s \in Sync, CommitExit(s) PROVE TypeOK' /\ IInv' /\ Stable
      BY <2>9, CommitExitInductive
    <2>10. ASSUME NEW s \in Sync, CrashSync(s) PROVE TypeOK' /\ IInv' /\ Stable
      <3>1. CASE pc[s] = "closing"
        BY <2>10, <3>1, EndInductive DEF CrashSync
      <3>2. CASE pc[s] # "closing"
        BY <2>10, <3>2, ReturnInductive DEF CrashSync, Syncing
      <3>3. QED
        BY <3>1, <3>2
    <2>11. QED
      BY <1>2, <2>1, <2>2, <2>3, <2>4, <2>5, <2>6, <2>7, <2>8, <2>9, <2>10 DEF SyncNext, SyncTask
  <1>3. CASE ExchangeNext
    BY <1>3, FillEntryInductive, FillExitInductive, TriggerInductive, ExpireInductive
    DEF ExchangeNext
  <1>4. CASE UNCHANGED vars
    BY <1>4, StutterInductive
  <1>5. QED
    BY <1>1, <1>2, <1>3, <1>4 DEF Next

\* Type correctness: the tables, the exchange and the local state of the
\* handlers keep their types, for any number of requests.
THEOREM TypeCorrect == Spec => []TypeOK
  <1>1. Init => TypeOK /\ IInv
    BY InitInductive
  <1>2. TypeOK /\ IInv /\ [Next]_vars => (TypeOK /\ IInv)'
    BY NextInductive
  <1>3. QED
    BY <1>1, <1>2, PTL DEF Spec

\* The inductive invariant holds of every reachable state.
THEOREM Invariance == Spec => []IInv
  <1>1. Init => TypeOK /\ IInv
    BY InitInductive
  <1>2. TypeOK /\ IInv /\ [Next]_vars => (TypeOK /\ IInv)'
    BY NextInductive
  <1>3. QED
    BY <1>1, <1>2, PTL DEF Spec

\* The orders table of the service never claims an end that the exchange did
\* not reach, however confirmations, fills, cancellations and the delayed
\* commits of overlapping tasks interleave.
THEOREM RecordsFollowExchange == Spec => []RowsNeverAhead
  <1>1. IInv => RowsNeverAhead
    BY DEF IInv
  <1>2. QED
    BY <1>1, Invariance, PTL

\* No task of sync_exit_orders closes a position row without an exit order of
\* its plan filled at the exchange.
THEOREM ClosingNeedsFill == Spec => []ClosedByFill
  <1>1. IInv => ClosedByFill
    BY DEF IInv
  <1>2. QED
    BY <1>1, Invariance, PTL

\* The status of a plan and its position rows, written by three handlers
\* without a lock, always agree.
THEOREM ExecutedMeansPositioned == Spec => []ExecutedIffPositioned
  <1>1. IInv => ExecutedIffPositioned
    BY DEF IInv
  <1>2. QED
    BY <1>1, Invariance, PTL

\* No order of a plan that the risk engine blocked reaches the exchange.
THEOREM BlockedStaysOut == Spec => []BlockedPlansNeverTrade
  <1>1. ASSUME IInv PROVE BlockedPlansNeverTrade
    <2> SUFFICES ASSUME NEW k \in OrderKey, book[k] # "absent"
                 PROVE  planOf[k[1]] # None /\ planStatus[planOf[k[1]]] # "blocked"
      BY DEF BlockedPlansNeverTrade, KeyPlan
    <2>1. CASE k[1] \in Exec
      <3>1. EntryInv(k[1])
        BY <1>1, <2>1 DEF IInv
      <3>2. pc[k[1]] # "idle"
        BY <2>1, <3>1, KeyCases DEF EntryInv
      <3>3. QED
        BY <3>1, <3>2, ConstantsAssumption DEF EntryInv
    <2>2. CASE k[1] \in Sync
      <3>1. SyncInv(k[1]) /\ k = <<k[1], "exit">>
        BY <1>1, <2>2, KeyCases DEF IInv
      <3>2. pc[k[1]] # "idle"
        BY <3>1 DEF SyncInv
      <3>3. planStatus[planOf[k[1]]] \in ExecutedStatus
        BY <1>1, <3>1, <3>2 DEF IInv, SyncInv, ExecutedIffPositioned
      <3>4. QED
        BY <3>1, <3>2, <3>3, ConstantsAssumption DEF SyncInv, ExecutedStatus
    <2>3. QED
      BY <2>1, <2>2, KeyCases
  <1>2. QED
    BY <1>1, Invariance, PTL
-----------------------------------------------------------------------------
(* One execution at a time in a slot, and no paper executions.             *)

\* A step that starts no execution and no task, opens and closes no row and
\* stores no new protection order keeps the invariant.
Unrelated ==
  /\ UNCHANGED planStatus
  /\ \A e \in Exec : Executing(e)' => Executing(e) /\ planOf'[e] = planOf[e]
  /\ \A r \in Row :
       /\ position'[r].status = position[r].status
       /\ position[r].status # "none" => planOf'[r] = planOf[r]
  /\ \A e \in Exec : orders'[<<e, "stop">>] # "absent" =>
       orders[<<e, "stop">>] # "absent" /\ planOf'[e] = planOf[e]
  /\ \A s \in Sync : pc'[s] \in {"marking", "closing", "done"} =>
       pc[s] \in {"marking", "closing", "done"} /\ planOf'[s] = planOf[s]

LEMMA UnrelatedKeeps ==
  ASSUME ExclusiveInv, Unrelated
  PROVE  ExclusiveInv'
  <1>1. AloneInv'
    BY DEF ExclusiveInv, AloneInv, Unrelated, SameSlot
  <1>2. OneOpenRowPerSlot'
    BY DEF ExclusiveInv, OneOpenRowPerSlot, Unrelated, SameSlot
  <1>3. OneRowPerPlan'
    BY DEF ExclusiveInv, OneRowPerPlan, Unrelated
  <1>4. ClosedPlanHasNoOpenRow'
    BY DEF ExclusiveInv, ClosedPlanHasNoOpenRow, Unrelated
  <1>5. UnprotectedInv'
    BY DEF ExclusiveInv, UnprotectedInv, Unrelated
  <1>6. QED
    BY <1>1, <1>2, <1>3, <1>4, <1>5 DEF ExclusiveInv

\* Requests under way and position rows have a plan, and a synchronisation one
\* whose row it targets.
LEMMA PlansOfRequests ==
  ASSUME IInv
  PROVE  /\ \A e \in Exec : Executing(e) => planOf[e] \in Plan
         /\ \A r \in Row : position[r].status # "none" => planOf[r] \in Plan
         /\ \A s \in Sync : pc[s] # "idle" =>
              /\ planOf[s] \in Plan /\ target[s] \in Row
              /\ position[target[s]].status # "none" /\ planOf[target[s]] = planOf[s]
  <1>1. \A e \in Exec : Executing(e) => planOf[e] \in Plan
    BY DEF IInv, EntryInv, Executing
  <1>2. \A r \in Row : position[r].status # "none" => planOf[r] \in Plan
    <2>1. \A e \in Exec : position[e].status # "none" => planOf[e] \in Plan
      BY DEF IInv, EntryInv
    <2>2. \A r \in Paper : position[r].status # "none" => planOf[r] \in Plan
      BY DEF IInv, PaperInv
    <2>3. QED
      BY <2>1, <2>2 DEF Row
  <1>3. QED
    BY <1>1, <1>2 DEF IInv, SyncInv

\* The check of a new execution finds the slot empty, of rows and of others.
LEMMA CheckPlanExclusive ==
  ASSUME TypeOK, IInv, ExclusiveInv, OneAtATime, NEW e \in Exec, NEW p \in Plan,
         CheckPlan(e, p)
  PROVE  ExclusiveInv'
  <1>1. /\ pc[e] = "idle" /\ planStatus[p] = "approved"
        /\ \A r \in Row : position[r].status = "open" => ~SameSlot(planOf[r], p)
        /\ \A f \in Exec : Executing(f) => ~SameSlot(planOf[f], p)
        /\ planOf'[e] = p
        /\ \A q \in Request \ {e} : pc'[q] = pc[q] /\ planOf'[q] = planOf[q]
        /\ UNCHANGED <<planStatus, position, orders>>
    BY DEF CheckPlan, TypeOK, Request, database
  <1>2. position[e].status = "none" /\ orders[<<e, "stop">>] = "absent"
    BY <1>1 DEF IInv, EntryInv
  <1>3. \A f \in Exec \ {e} : Executing(f)' <=> Executing(f)
    BY <1>1 DEF Executing, Request
  <1>4. \A r \in Row : position[r].status # "none" => planOf'[r] = planOf[r]
    BY <1>1, <1>2 DEF Request, Row
  <1>5. AloneInv'
    BY <1>1, <1>2, <1>3, <1>4 DEF ExclusiveInv, AloneInv, SameSlot, Request
  <1>6. OneOpenRowPerSlot' /\ OneRowPerPlan' /\ ClosedPlanHasNoOpenRow'
    BY <1>1, <1>4
    DEF ExclusiveInv, OneOpenRowPerSlot, OneRowPerPlan, ClosedPlanHasNoOpenRow, SameSlot
  <1>7. UnprotectedInv'
    BY <1>1, <1>2, ConstantsAssumption DEF ExclusiveInv, UnprotectedInv, Request
  <1>8. QED
    BY <1>5, <1>6, <1>7 DEF ExclusiveInv

\* The commit of an execution opens the only row of its plan, in a slot that
\* has no other open one.
LEMMA CommitEntryExclusive ==
  ASSUME TypeOK, IInv, ExclusiveInv, NEW e \in Exec, CommitEntry(e)
  PROVE  ExclusiveInv'
  <1> DEFINE p == planOf[e]
  <1>1. /\ Executing(e) /\ pc[e] # "idle" /\ pc[e] # "done" /\ pc'[e] = "done" /\ e \in Row
        /\ \A q \in Request \ {e} : pc'[q] = pc[q]
        /\ position'[e].status = "open"
        /\ \A r \in Row \ {e} : position'[r] = position[r]
        /\ planStatus' = [planStatus EXCEPT ![p] = "testnet_executed"]
        /\ planOf' = planOf
    BY DEF CommitEntry, Executing, TypeOK, Request, Row
  <1>2. p \in Plan /\ position[e].status = "none" /\ planStatus[p] = "approved"
    BY <1>1 DEF IInv, EntryInv, ExclusiveInv, AloneInv
  <1>3. planStatus'[p] = "testnet_executed" /\ \A q \in Plan \ {p} : planStatus'[q] = planStatus[q]
    BY <1>1, <1>2 DEF TypeOK
  <1>4. \A r \in Row : position[r].status # "none" => planOf[r] # p
    BY <1>2 DEF IInv, ExecutedIffPositioned, ExecutedStatus
  <1>5. \A f \in Exec : Executing(f)' => f # e /\ Executing(f) /\ planOf[f] \in Plan
    BY <1>1, PlansOfRequests, ConstantsAssumption DEF Executing, Request
  <1>6. SameSlot(p, p)
    BY DEF SameSlot
  <1>7. AloneInv'
    <2> SUFFICES ASSUME NEW f \in Exec, Executing(f)'
                 PROVE  /\ planStatus'[planOf[f]] = "approved"
                        /\ \A g \in Exec : Executing(g)' /\ SameSlot(planOf[f], planOf[g]) => g = f
                        /\ \A r \in Row : position'[r].status = "open" =>
                                            ~SameSlot(planOf[r], planOf[f])
      BY <1>1 DEF AloneInv, SameSlot
    <2>1. f # e /\ Executing(f) /\ planOf[f] \in Plan
      BY <1>5
    <2>2. ~SameSlot(planOf[f], p) /\ ~SameSlot(p, planOf[f])
      BY <1>1, <2>1 DEF ExclusiveInv, AloneInv, SameSlot
    <2>3. planStatus'[planOf[f]] = "approved"
      BY <1>3, <1>6, <2>1, <2>2 DEF ExclusiveInv, AloneInv
    <2>4. QED
      BY <1>1, <1>5, <2>1, <2>2, <2>3 DEF ExclusiveInv, AloneInv
  <1>8. OneOpenRowPerSlot'
    <2>1. \A r \in Row \ {e} : position[r].status = "open" =>
            ~SameSlot(planOf[r], p) /\ ~SameSlot(p, planOf[r])
      BY <1>1 DEF ExclusiveInv, AloneInv, SameSlot
    <2>2. QED
      BY <1>1, <2>1 DEF ExclusiveInv, OneOpenRowPerSlot, SameSlot
  <1>9. OneRowPerPlan'
    BY <1>1, <1>4 DEF ExclusiveInv, OneRowPerPlan
  <1>10. ClosedPlanHasNoOpenRow'
    <2>1. \A r \in Row \ {e} : position[r].status # "none" => planOf[r] \in Plan \ {p}
      BY <1>4, PlansOfRequests
    <2>2. QED
      BY <1>1, <1>3, <2>1 DEF ExclusiveInv, ClosedPlanHasNoOpenRow, TypeOK, PositionRow
  <1>11. UnprotectedInv'
    <2> SUFFICES ASSUME NEW s \in Sync, pc'[s] \in {"marking", "closing", "done"},
                        NEW f \in Exec, planOf[f] = planOf[s]
                 PROVE  orders'[<<f, "stop">>] = "absent"
      BY <1>1 DEF UnprotectedInv
    <2>1. pc[s] \in {"marking", "closing", "done"} /\ planOf[s] # p
      BY <1>1, <1>4, PlansOfRequests, ConstantsAssumption DEF Request
    <2>2. orders[<<f, "stop">>] = "absent" /\ f # e
      BY <2>1 DEF ExclusiveInv, UnprotectedInv
    <2>3. QED
      BY <2>2, Keys DEF CommitEntry, ProtectionPair, TypeOK
  <1>12. QED
    BY <1>7, <1>8, <1>9, <1>10, <1>11 DEF ExclusiveInv

\* A commit that closes the row of a plan closes the only one it has.
LEMMA ClosingExclusive ==
  ASSUME TypeOK, IInv, ExclusiveInv, NEW s \in Sync, CommitClose(s) \/ CommitExit(s)
  PROVE  ExclusiveInv'
  <1> DEFINE p == planOf[s]
             r == target[s]
  <1>1. /\ pc[s] \in {"closing", "refreshing"} /\ pc'[s] \in {"idle", "done"}
        /\ \A q \in Request \ {s} : pc'[q] = pc[q] /\ planOf'[q] = planOf[q]
        /\ pc'[s] = "done" => planOf'[s] = p /\ pc[s] = "closing"
        /\ position' = [position EXCEPT ![r].status = "closed"]
        /\ planStatus' = [planStatus EXCEPT ![p] = "testnet_closed"]
    BY DEF CommitClose, CommitExit, Return, End, TypeOK, Request
  <1>2. p \in Plan /\ r \in Row /\ position[r].status # "none" /\ planOf[r] = p
    BY <1>1 DEF IInv, SyncInv
  <1>3. /\ planStatus[p] # "approved"
        /\ planStatus'[p] = "testnet_closed"
        /\ \A q \in Plan \ {p} : planStatus'[q] = planStatus[q]
    <2>1. planStatus[p] \in ExecutedStatus
      BY <1>2 DEF IInv, ExecutedIffPositioned
    <2>2. QED
      BY <1>1, <1>2, <2>1 DEF TypeOK, ExecutedStatus
  <1>4. /\ position'[r].status = "closed"
        /\ \A q \in Row \ {r} : position'[q] = position[q]
    <2>1. position[r] \in PositionRow
      BY <1>2 DEF TypeOK
    <2>2. QED
      BY <1>1, <1>2, <2>1 DEF TypeOK, PositionRow
  <1>5. /\ \A q \in Row : planOf'[q] = planOf[q]
        /\ \A f \in Exec : (Executing(f)' <=> Executing(f)) /\ planOf'[f] = planOf[f]
    BY <1>1, ConstantsAssumption DEF Executing, Request, Row
  <1>6. AloneInv'
    <2>1. \A f \in Exec : Executing(f) => planOf[f] \in Plan \ {p}
      BY <1>3, PlansOfRequests DEF ExclusiveInv, AloneInv
    <2>2. QED
      BY <1>3, <1>4, <1>5, <2>1 DEF ExclusiveInv, AloneInv, SameSlot
  <1>7. OneOpenRowPerSlot' /\ OneRowPerPlan'
    BY <1>2, <1>4, <1>5 DEF ExclusiveInv, OneOpenRowPerSlot, OneRowPerPlan, SameSlot
  <1>8. ClosedPlanHasNoOpenRow'
    <2>1. \A q \in Row \ {r} : position[q].status = "open" => planOf[q] \in Plan \ {p}
      BY <1>2, PlansOfRequests DEF ExclusiveInv, OneRowPerPlan
    <2>2. QED
      BY <1>3, <1>4, <1>5, <2>1 DEF ExclusiveInv, ClosedPlanHasNoOpenRow
  <1>9. UnprotectedInv'
    <2>1. ASSUME NEW f \in Exec, orders'[<<f, "stop">>] # "absent"
          PROVE  orders[<<f, "stop">>] # "absent"
      <3>1. CASE CommitClose(s)
        BY <2>1, <3>1, Keys, ConstantsAssumption DEF CommitClose, TypeOK
      <3>2. CASE CommitExit(s)
        BY <2>1, <3>2, Keys DEF CommitExit, StoreStatuses, IInv, ReadInv
      <3>3. QED
        BY <3>1, <3>2
    <2>2. QED
      BY <1>1, <1>5, <2>1 DEF ExclusiveInv, UnprotectedInv, Request
  <1>10. QED
    BY <1>6, <1>7, <1>8, <1>9 DEF ExclusiveInv

\* A task that starts with a synthetic exit found no stop order of its plan.
LEMMA StartSyncExclusive ==
  ASSUME TypeOK, IInv, ExclusiveInv, NEW s \in Sync, NEW p \in Plan, StartSync(s, p)
  PROVE  ExclusiveInv'
  <1>1. /\ pc[s] = "idle" /\ pc'[s] \in {"marking", "refreshing"} /\ planOf'[s] = p
        /\ pc'[s] = "marking" => ProtectionRows(p) = {}
        /\ \A q \in Request \ {s} : pc'[q] = pc[q] /\ planOf'[q] = planOf[q]
        /\ UNCHANGED <<planStatus, position, orders>>
    BY DEF StartSync, TypeOK, Request, database
  <1>2. /\ \A q \in Row : planOf'[q] = planOf[q]
        /\ \A f \in Exec : (Executing(f)' <=> Executing(f)) /\ planOf'[f] = planOf[f]
    BY <1>1, ConstantsAssumption DEF Executing, Request, Row
  <1>3. AloneInv' /\ OneOpenRowPerSlot' /\ OneRowPerPlan' /\ ClosedPlanHasNoOpenRow'
    BY <1>1, <1>2 DEF ExclusiveInv, AloneInv, OneOpenRowPerSlot, OneRowPerPlan,
                      ClosedPlanHasNoOpenRow, SameSlot
  <1>4. UnprotectedInv'
    <2>1. ASSUME ProtectionRows(p) = {}, NEW f \in Exec, planOf[f] = p
          PROVE  orders[<<f, "stop">>] = "absent"
      BY <2>1, Keys DEF ProtectionRows, KeyPlan
    <2>2. QED
      BY <1>1, <1>2, <2>1 DEF ExclusiveInv, UnprotectedInv, Request
  <1>5. QED
    BY <1>3, <1>4 DEF ExclusiveInv

\* The other steps of an execution.
LEMMA EntryUnrelated ==
  ASSUME TypeOK, IInv, NEW e \in Exec,
         \/ GiveUpEntry(e) \/ PlaceEntry(e) \/ ConfirmEntry(e) \/ PriceEntry(e)
         \/ Protect(e) \/ CrashEntry(e)
  PROVE  Unrelated
  <1>1. /\ \A q \in Request \ {e} : pc'[q] = pc[q] /\ planOf'[q] = planOf[q]
        /\ Executing(e)
        /\ Executing(e)' => planOf'[e] = planOf[e]
        /\ position[e].status # "none" \/ orders[<<e, "stop">>] # "absent" =>
             planOf'[e] = planOf[e]
        /\ UNCHANGED <<planStatus, position, orders>>
    <2>1. CASE GiveUpEntry(e)
      BY <2>1 DEF GiveUpEntry, Executing, TypeOK, Request, IInv, EntryInv, database
    <2>2. CASE ~GiveUpEntry(e)
      BY <2>2 DEF PlaceEntry, ConfirmEntry, PriceEntry, Protect, CrashEntry, Executing,
                  TypeOK, Request, database
    <2>3. QED
      BY <2>1, <2>2
  <1>2. \A f \in Exec : Executing(f)' => Executing(f) /\ planOf'[f] = planOf[f]
    BY <1>1 DEF Executing, Request
  <1>3. QED
    BY <1>1, <1>2, ConstantsAssumption DEF Unrelated, Request, Row

\* The other steps of a task.
LEMMA TaskUnrelated ==
  ASSUME TypeOK, IInv, NEW s \in Sync,
         \/ NoLocalTrigger(s) \/ CloseRefused(s) \/ SendClose(s) \/ CloseNotFilled(s)
         \/ \E k \in OrderKey : ReadOrder(s, k) \/ CancelSibling(s, k)
         \/ ReadFails(s) \/ NoTriggeredExit(s) \/ CrashSync(s)
  PROVE  Unrelated
  <1>1. /\ \A q \in Request \ {s} : pc'[q] = pc[q] /\ planOf'[q] = planOf[q]
        /\ pc'[s] \in {"marking", "closing", "done"} =>
             pc[s] \in {"marking", "closing", "done"} /\ planOf'[s] = planOf[s]
    BY DEF NoLocalTrigger, CloseRefused, SendClose, CloseNotFilled, ReadOrder, CancelSibling,
           ReadFails, NoTriggeredExit, CrashSync, Return, End, TypeOK, Request
  <1>2. /\ UNCHANGED <<planStatus, position>>
        /\ UNCHANGED orders \/ StoreStatuses(s)
    BY DEF NoLocalTrigger, CloseRefused, SendClose, CloseNotFilled, ReadOrder, CancelSibling,
           ReadFails, NoTriggeredExit, CrashSync, database
  <1>3. \A e \in Exec : orders'[<<e, "stop">>] # "absent" => orders[<<e, "stop">>] # "absent"
    <2> SUFFICES ASSUME NEW e \in Exec, orders'[<<e, "stop">>] # "absent", StoreStatuses(s)
                 PROVE  orders[<<e, "stop">>] # "absent"
      BY <1>2
    <2>1. <<e, "stop">> \in OrderKey
      BY Keys
    <2>2. seen[s][<<e, "stop">>] # "absent" => orders[<<e, "stop">>] # "absent"
      BY <2>1 DEF IInv, ReadInv
    <2>3. QED
      BY <2>1, <2>2 DEF StoreStatuses
  <1>4. QED
    BY <1>1, <1>2, <1>3, ConstantsAssumption DEF Unrelated, Executing, Request, Row

\* Every step keeps executions apart, given that the clients do not overlap
\* them and use no paper execution.
LEMMA NextExclusive ==
  ASSUME TypeOK, IInv, ExclusiveInv, [Next]_vars, OneAtATime, Paper = {}
  PROVE  ExclusiveInv'
  <1>1. CASE EntryNext
    <2>1. PICK e \in Exec : \/ \E p \in Plan : CheckPlan(e, p)
                           \/ GiveUpEntry(e) \/ PlaceEntry(e) \/ ConfirmEntry(e)
                           \/ PriceEntry(e) \/ Protect(e) \/ CommitEntry(e) \/ CrashEntry(e)
      BY <1>1 DEF EntryNext
    <2>2. QED
      BY <2>1, CheckPlanExclusive, CommitEntryExclusive, EntryUnrelated, UnrelatedKeeps
  <1>2. CASE SyncNext
    <2>1. ASSUME NEW s \in Sync, NEW p \in Plan, StartSync(s, p) PROVE ExclusiveInv'
      BY <2>1, StartSyncExclusive
    <2>2. ASSUME NEW s \in Sync, CommitClose(s) \/ CommitExit(s) PROVE ExclusiveInv'
      BY <2>2, ClosingExclusive
    <2>3. ASSUME NEW s \in Sync, SyncTask(s), ~CommitClose(s), ~CommitExit(s)
          PROVE  ExclusiveInv'
      BY <2>3, TaskUnrelated, UnrelatedKeeps DEF SyncTask
    <2>4. QED
      BY <1>2, <2>1, <2>2, <2>3 DEF SyncNext
  <1>3. CASE ExchangeNext \/ UNCHANGED vars
    <2>1. UNCHANGED <<planStatus, position, orders, pc, planOf>>
      BY <1>3 DEF ExchangeNext, FillEntry, FillExit, Trigger, Expire, vars, database
    <2>2. Unrelated
      BY <2>1 DEF Unrelated, Executing
    <2>3. QED
      BY <2>2, UnrelatedKeeps
  <1>4. QED
    BY <1>1, <1>2, <1>3 DEF Next

\* The inductive invariant of clients that keep executions of a slot apart.
THEOREM Exclusion ==
  ASSUME OneAtATime, Paper = {}
  PROVE  Spec => []ExclusiveInv
  <1>1. Init => ExclusiveInv
    BY DEF Init, ExclusiveInv, AloneInv, OneOpenRowPerSlot, OneRowPerPlan,
           ClosedPlanHasNoOpenRow, UnprotectedInv, Executing, NoRow, Request
  <1>2. TypeOK /\ IInv /\ ExclusiveInv /\ [Next]_vars => ExclusiveInv'
    BY NextExclusive
  <1>3. QED
    BY <1>1, <1>2, TypeCorrect, Invariance, PTL DEF Spec

\* When no two executions of a slot overlap, the open-position check of
\* execute_trade_plan is enough, although the position is stored several
\* awaits later and however many executions crash or lose an answer.
THEOREM SlotsAreExclusive ==
  ASSUME OneAtATime, Paper = {}
  PROVE  Spec => []OneOpenRowPerSlot
  <1>1. ExclusiveInv => OneOpenRowPerSlot
    BY DEF ExclusiveInv
  <1>2. QED
    BY <1>1, Exclusion, PTL

\* sync_exit_orders never leaves an open position behind a closed plan, where
\* it would return at once and not look at it again.
THEOREM ClosedPlansAreFlat ==
  ASSUME OneAtATime, Paper = {}
  PROVE  Spec => []ClosedPlanHasNoOpenRow
  <1>1. ExclusiveInv => ClosedPlanHasNoOpenRow
    BY DEF ExclusiveInv
  <1>2. QED
    BY <1>1, Exclusion, PTL

\* The synthetic close of sync_exit_orders is only ever sent for a plan whose
\* protection orders were not recorded, now or later.
THEOREM ExitsDoNotRace ==
  ASSUME OneAtATime, Paper = {}
  PROVE  Spec => []NoSyntheticExitUnderProtection
  <1>1. IInv /\ ExclusiveInv => NoSyntheticExitUnderProtection
    BY DEF IInv, SyncInv, ExclusiveInv, UnprotectedInv, NoSyntheticExitUnderProtection
  <1>2. QED
    BY <1>1, Exclusion, Invariance, PTL

\* No commit of an execution that was under way, and no later one, brings a
\* closed plan back to executed.
THEOREM ClosingIsFinal ==
  ASSUME OneAtATime, Paper = {}
  PROVE  Spec => ClosedIsFinal
  <1>1. ASSUME TypeOK, IInv, ExclusiveInv, [Next]_vars,
               NEW p \in Plan, planStatus[p] = "testnet_closed"
        PROVE  planStatus'[p] = "testnet_closed"
    <2>1. CASE \E e \in Exec : CommitEntry(e)
      <3>1. PICK e \in Exec : CommitEntry(e)
        BY <2>1
      <3>2. Executing(e)
        BY <3>1 DEF CommitEntry, Executing
      <3>3. planOf[e] # p
        BY <1>1, <3>2 DEF ExclusiveInv, AloneInv
      <3>4. QED
        BY <1>1, <3>1, <3>3 DEF CommitEntry, TypeOK
    <2>2. CASE \E s \in Sync : CommitClose(s) \/ CommitExit(s)
      BY <1>1, <2>2 DEF CommitClose, CommitExit, TypeOK
    <2>3. CASE UNCHANGED planStatus
      BY <1>1, <2>3
    <2>4. QED
      <3>1. CASE EntryNext
        BY <2>1, <2>3, <3>1
        DEF EntryNext, CheckPlan, GiveUpEntry, PlaceEntry, ConfirmEntry, PriceEntry, Protect,
            CrashEntry, database
      <3>2. CASE SyncNext
        BY <2>2, <2>3, <3>2
        DEF SyncNext, SyncTask, StartSync, NoLocalTrigger, CloseRefused, SendClose,
            CloseNotFilled, ReadOrder, CancelSibling, ReadFails, NoTriggeredExit, CrashSync,
            database
      <3>3. CASE ExchangeNext \/ UNCHANGED vars
        BY <2>3, <3>3 DEF ExchangeNext, FillEntry, FillExit, Trigger, Expire, vars, database
      <3>4. QED
        BY <1>1, <3>1, <3>2, <3>3 DEF Next
  <1>2. TypeOK /\ IInv /\ ExclusiveInv /\ [Next]_vars =>
          [\A p \in Plan : planStatus[p] = "testnet_closed" =>
               planStatus'[p] = "testnet_closed"]_vars
    BY <1>1
  <1>3. QED
    BY <1>2, Exclusion, TypeCorrect, Invariance, PTL DEF Spec, ClosedIsFinal

=============================================================================
