-------------------------- MODULE LedgerRefinement --------------------------
(***************************************************************************)
(* The trading core implements PositionLedger: every step of a handler, a  *)
(* task or the exchange opens one row, closes one row, makes a plan exited *)
(* or leaves the ledger alone.  The sweep of the worker and the reports of *)
(* the reconciliation add nothing to the core's behaviours, so the same    *)
(* holds of them.                                                          *)
(***************************************************************************)
EXTENDS TestnetTradingProofs, ExitSweep, Reconciliation

\* A step that changes no row, executes no plan and fills no exit leaves the
\* ledger alone.
LEMMA LedgerKept ==
  ASSUME TypeOK, IInv, TypeOK', Stable,
         \A r \in Row : position'[r].status = position[r].status,
         UNCHANGED planStatus,
         \A k \in OrderKey : book'[k] = "filled" => book[k] = "filled" \/ k[2] = "entry"
  PROVE  UNCHANGED Ledger!vars
  <1>1. UNCHANGED [r \in Row |-> position[r].status]
    BY DEF TypeOK
  <1>2. UNCHANGED [r \in Row |-> IF position[r].status = "none" THEN None ELSE planOf[r]]
    BY DEF Stable, RowsStable
  <1>3. Exited' = Exited
    <2>1. ASSUME NEW k \in OrderKey, NEW p \in Plan
          PROVE  (k \in ExitOf(p) /\ book[k] = "filled")' <=> (k \in ExitOf(p) /\ book[k] = "filled")
      BY DEF ExitOf, KeyPlan, Stable, OrdersStable, Terminal
    <2>2. ASSUME NEW p \in Plan
          PROVE  (\E k \in ExitOf(p) : book[k] = "filled")' <=> (\E k \in ExitOf(p) : book[k] = "filled")
      BY <2>1 DEF ExitOf
    <2>3. QED
      BY <2>2 DEF Exited
  <1>4. QED
    BY <1>1, <1>2, <1>3 DEF Ledger!vars

\* A commit that opens the row r of plan p is the ledger's Open.
LEMMA LedgerOpens ==
  ASSUME TypeOK, TypeOK', NEW r \in Row, NEW p \in Plan,
         planOf[r] = p, planStatus[p] # "blocked", PlansStable,
         position[r].status = "none", position'[r].status = "open",
         \A q \in Row \ {r} : position'[q].status = position[q].status,
         planStatus'[p] \in ExecutedStatus,
         \A q \in Plan \ {p} : planStatus'[q] = planStatus[q],
         UNCHANGED <<book, planOf>>
  PROVE  Ledger!Open(r, p)
  <1>1. r \in DOMAIN [q \in Row |-> position[q].status]
    OBVIOUS
  <1>2. [q \in Row |-> position[q].status]'
          = [[q \in Row |-> position[q].status] EXCEPT ![r] = "open"]
    OBVIOUS
  <1>3. [q \in Row |-> IF position[q].status = "none" THEN None ELSE planOf[q]]'
          = [[q \in Row |-> IF position[q].status = "none" THEN None ELSE planOf[q]]
               EXCEPT ![r] = p]
    OBVIOUS
  <1>4. {q \in Plan : planStatus[q] = "blocked"}' = {q \in Plan : planStatus[q] = "blocked"}
    BY DEF PlansStable
  <1>5. {q \in Plan : planStatus[q] \in ExecutedStatus}'
          = {q \in Plan : planStatus[q] \in ExecutedStatus} \cup {p}
    BY DEF ExecutedStatus
  <1>6. Exited' = Exited
    BY DEF Exited, ExitOf, KeyPlan
  <1>7. QED
    BY <1>2, <1>3, <1>4, <1>5, <1>6 DEF Ledger!Open

\* A commit that closes the row r is the ledger's Close, or repeats one.
LEMMA LedgerCloses ==
  ASSUME TypeOK, IInv, TypeOK', ClosedByFill', NEW r \in Row, planOf[r] \in Plan,
         Stable, ExecutedIffPositioned', UNCHANGED book,
         position[r].status # "none", position'[r].status = "closed",
         \A q \in Row \ {r} : position'[q] = position[q]
  PROVE  Ledger!Close(r) \/ UNCHANGED Ledger!vars
  <1> DEFINE row   == [q \in Row |-> position[q].status]
             owner == [q \in Row |-> IF position[q].status = "none" THEN None ELSE planOf[q]]
  <1>1. row' = [row EXCEPT ![r] = "closed"]
    OBVIOUS
  <1>2. owner' = owner
    BY DEF Stable, RowsStable
  <1>3. {q \in Plan : planStatus[q] = "blocked"}' = {q \in Plan : planStatus[q] = "blocked"}
    BY DEF Stable, PlansStable
  <1>4. {q \in Plan : planStatus[q] \in ExecutedStatus}'
          = {q \in Plan : planStatus[q] \in ExecutedStatus}
    <2>1. ASSUME NEW q \in Plan
          PROVE  (\E x \in Row : planOf[x] = q /\ position[x].status # "none")'
                   <=> \E x \in Row : planOf[x] = q /\ position[x].status # "none"
      BY DEF Stable, RowsStable
    <2>2. QED
      BY <2>1 DEF IInv, ExecutedIffPositioned
  <1>5. Exited' = Exited
    <2>1. ASSUME NEW k \in OrderKey, NEW p \in Plan
          PROVE  (k \in ExitOf(p) /\ book[k] = "filled")' <=> (k \in ExitOf(p) /\ book[k] = "filled")
      BY DEF ExitOf, KeyPlan, Stable, OrdersStable, Terminal
    <2>2. ASSUME NEW p \in Plan
          PROVE  (\E k \in ExitOf(p) : book[k] = "filled")' <=> (\E k \in ExitOf(p) : book[k] = "filled")
      BY <2>1 DEF ExitOf
    <2>3. QED
      BY <2>2 DEF Exited
  <1>6. CASE position[r].status = "open"
    <2>1. (\E k \in ExitOf(planOf[r]) : book[k] = "filled")'
      BY DEF ClosedByFill
    <2>2. planOf'[r] = planOf[r]
      BY DEF Stable, RowsStable
    <2>3. owner[r] \in Exited
      BY <1>5, <1>6, <2>1, <2>2 DEF Exited
    <2>4. QED
      BY <1>1, <1>2, <1>3, <1>4, <1>5, <1>6, <2>3 DEF Ledger!Close
  <1>7. CASE position[r].status # "open"
    <2>1. row' = row
      BY <1>7 DEF TypeOK, PositionRow
    <2>2. QED
      BY <1>2, <1>3, <1>4, <1>5, <2>1 DEF Ledger!vars
  <1>8. QED
    BY <1>6, <1>7

\* An exit order that moves, and may be filled, is the ledger's Exit or a
\* stutter.
LEMMA LedgerExits ==
  ASSUME TypeOK, NEW k \in OrderKey, planOf[k[1]] \in Plan,
         planStatus[planOf[k[1]]] # "blocked", book[k] # "filled",
         \A j \in OrderKey \ {k} : book'[j] = book[j],
         UNCHANGED <<planStatus, position, planOf>>
  PROVE  Ledger!Exit(planOf[k[1]]) \/ UNCHANGED Ledger!vars
  <1> DEFINE p == planOf[k[1]]
  <1>1. \A q \in Plan : ExitOf(q)' = ExitOf(q)
    BY DEF ExitOf, KeyPlan
  <1>2. \A q \in Plan : ExitOf(q) \subseteq OrderKey
    BY DEF ExitOf
  <1>3. CASE k \in ExitOf(p) /\ book'[k] = "filled"
    <2>1. Exited' = Exited \cup {p}
      <3>1. \A q \in Plan \ {p} : k \notin ExitOf(q)
        BY DEF ExitOf, KeyPlan
      <3>2. QED
        BY <1>1, <1>2, <1>3, <3>1 DEF Exited
    <2>2. p \notin {q \in Plan : planStatus[q] = "blocked"}
      OBVIOUS
    <2>3. QED
      BY <2>1, <2>2 DEF Ledger!Exit
  <1>4. CASE ~(k \in ExitOf(p) /\ book'[k] = "filled")
    <2>1. \A q \in Plan \ {p} : k \notin ExitOf(q)
      BY DEF ExitOf, KeyPlan
    <2>2. Exited' = Exited
      BY <1>1, <1>2, <1>4, <2>1 DEF Exited
    <2>3. QED
      BY <2>2 DEF Ledger!vars
  <1>5. QED
    BY <1>3, <1>4

\* Every step of the core is a step of the ledger or leaves it alone.
LEMMA LedgerStep ==
  ASSUME TypeOK, IInv, [Next]_vars
  PROVE  [Ledger!Next]_(Ledger!vars)
  <1>1. TypeOK' /\ IInv' /\ Stable
    BY NextInductive
  <1>2. \A e \in Exec : pc[e] # "idle" => planOf[e] \in Plan /\ planStatus[planOf[e]] # "blocked"
    BY DEF IInv, EntryInv
  <1>3. \A s \in Sync : pc[s] # "idle" =>
          /\ planOf[s] \in Plan /\ target[s] \in Row
          /\ planOf[target[s]] = planOf[s]
          /\ position[target[s]].status # "none"
    BY DEF IInv, SyncInv
  <1>4. ASSUME NEW e \in Exec, CommitEntry(e)
        PROVE  Ledger!Next
    <2>p. PICK p : p = planOf[e]
      OBVIOUS
    <2>1. /\ pc[e] # "idle" /\ e \in Row
          /\ position[e].status = "none"
      BY <1>4 DEF CommitEntry, IInv, EntryInv, Row
    <2>2. p \in Plan /\ planStatus[p] # "blocked"
      BY <1>2, <2>p, <2>1
    <2>3. /\ position'[e].status = "open"
          /\ \A q \in Row \ {e} : position'[q].status = position[q].status
          /\ planStatus'[p] \in ExecutedStatus
          /\ \A q \in Plan \ {p} : planStatus'[q] = planStatus[q]
          /\ UNCHANGED <<book, planOf>>
      BY <1>4, <2>p, <2>1, <2>2 DEF CommitEntry, TypeOK, ExecutedStatus, exchange
    <2>4. Ledger!Open(e, p)
      BY <1>1, <2>p, <2>1, <2>2, <2>3, LedgerOpens DEF Stable
    <2>5. QED
      BY <2>1, <2>2, <2>4 DEF Ledger!Next
  <1>5. ASSUME NEW r \in Paper, PaperCommit(r)
        PROVE  Ledger!Next
    <2>p. PICK p : p = planOf[r]
      OBVIOUS
    <2>1. /\ pc[r] # "idle" /\ r \in Row
          /\ position[r].status = "none" /\ p \in Plan /\ planStatus[p] # "blocked"
      BY <1>5, <2>p DEF PaperCommit, IInv, PaperInv, Row
    <2>2. /\ position'[r].status = "open"
          /\ \A q \in Row \ {r} : position'[q].status = position[q].status
          /\ planStatus'[p] \in ExecutedStatus
          /\ \A q \in Plan \ {p} : planStatus'[q] = planStatus[q]
          /\ UNCHANGED <<book, planOf>>
      BY <1>5, <2>p, <2>1 DEF PaperCommit, TypeOK, ExecutedStatus, exchange
    <2>3. Ledger!Open(r, p)
      BY <1>1, <2>p, <2>1, <2>2, LedgerOpens DEF Stable
    <2>4. QED
      BY <2>1, <2>3 DEF Ledger!Next
  <1>6. ASSUME NEW s \in Sync, CommitClose(s) \/ CommitExit(s)
        PROVE  Ledger!Next \/ UNCHANGED Ledger!vars
    <2>r. PICK r : r = target[s]
      OBVIOUS
    <2>1. pc[s] # "idle"
      BY <1>6 DEF CommitClose, CommitExit
    <2>2. r \in Row /\ planOf[r] \in Plan /\ position[r].status # "none"
      BY <1>3, <2>r, <2>1
    <2>3. position' = [position EXCEPT ![r].status = "closed"] /\ UNCHANGED book
      BY <1>6, <2>r DEF CommitClose, CommitExit, exchange
    <2>4. position'[r].status = "closed" /\ \A q \in Row \ {r} : position'[q] = position[q]
      <3>1. position \in [Row -> PositionRow] /\ position[r] \in PositionRow
        BY <2>2 DEF TypeOK
      <3>2. position'[r] = [position[r] EXCEPT !.status = "closed"]
        BY <2>2, <2>3, <3>1
      <3>3. QED
        BY <2>3, <3>1, <3>2 DEF PositionRow
    <2>5. Ledger!Close(r) \/ UNCHANGED Ledger!vars
      BY <1>1, <2>2, <2>3, <2>4, LedgerCloses DEF IInv
    <2>6. QED
      BY <2>2, <2>5 DEF Ledger!Next
  <1>7. ASSUME NEW s \in Sync, FillExit(s)
        PROVE  Ledger!Next \/ UNCHANGED Ledger!vars
    <2> DEFINE k == <<s, "exit">>
    <2>1. k \in OrderKey /\ k[1] = s /\ book[k] \in Live
      BY <1>7, Keys DEF FillExit
    <2>2. pc[s] # "idle"
      BY <2>1, Statuses DEF IInv, SyncInv
    <2>3. planOf[s] \in Plan /\ planStatus[planOf[s]] # "blocked"
      BY <1>3, <2>2 DEF IInv, ExecutedIffPositioned, ExecutedStatus
    <2>4. \A j \in OrderKey \ {k} : book'[j] = book[j]
      BY <1>7 DEF FillExit, TypeOK
    <2>5. UNCHANGED <<planStatus, position, planOf>>
      BY <1>7 DEF FillExit, database
    <2>6. Ledger!Exit(planOf[s]) \/ UNCHANGED Ledger!vars
      BY <2>1, <2>3, <2>4, <2>5, Statuses, LedgerExits
    <2>7. QED
      BY <2>3, <2>6 DEF Ledger!Next
  <1>8. ASSUME NEW k \in Protective, Trigger(k)
        PROVE  Ledger!Next \/ UNCHANGED Ledger!vars
    <2>1. k \in OrderKey /\ k[1] \in Exec /\ book[k] \in Live
      BY <1>8 DEF Trigger, Protective, OrderKey
    <2>2. pc[k[1]] # "idle"
      <3>1. EntryInv(k[1]) /\ book[k] # "absent"
        BY <2>1, Statuses DEF IInv
      <3>2. QED
        BY <2>1, <3>1, KeyCases DEF EntryInv
    <2>3. planOf[k[1]] \in Plan /\ planStatus[planOf[k[1]]] # "blocked"
      BY <1>2, <2>1, <2>2
    <2>4. \A j \in OrderKey \ {k} : book'[j] = book[j]
      BY <1>8 DEF Trigger, TypeOK
    <2>5. UNCHANGED <<planStatus, position, planOf>>
      BY <1>8 DEF Trigger, database
    <2>6. Ledger!Exit(planOf[k[1]]) \/ UNCHANGED Ledger!vars
      BY <2>1, <2>3, <2>4, <2>5, Statuses, LedgerExits
    <2>7. QED
      BY <2>3, <2>6 DEF Ledger!Next
  <1>9. ASSUME NEW e \in Exec,
               \/ \E p \in Plan : CheckPlan(e, p)
               \/ GiveUpEntry(e) \/ PlaceEntry(e) \/ ConfirmEntry(e)
               \/ PriceEntry(e) \/ Protect(e) \/ CrashEntry(e)
        PROVE  UNCHANGED Ledger!vars
    <2>1. UNCHANGED <<planStatus, position>>
      BY <1>9 DEF CheckPlan, GiveUpEntry, PlaceEntry, ConfirmEntry, PriceEntry, Protect,
                  CrashEntry, database
    <2>2. UNCHANGED book \/ PlaceEntry(e) \/ Protect(e)
      BY <1>9 DEF CheckPlan, GiveUpEntry, ConfirmEntry, PriceEntry, CrashEntry, exchange
    <2>3. ASSUME NEW k \in OrderKey, book'[k] = "filled" PROVE book[k] = "filled"
      <3>1. CASE PlaceEntry(e)
        BY <2>3, <3>1 DEF PlaceEntry, TypeOK
      <3>2. CASE Protect(e)
        BY <2>3, <3>2 DEF Protect
      <3>3. QED
        BY <2>2, <2>3, <3>1, <3>2
    <2>4. QED
      BY <1>1, <2>1, <2>3, LedgerKept
  <1>10. ASSUME NEW r \in Paper, NEW p \in Plan, PaperRead(r, p)
         PROVE  UNCHANGED Ledger!vars
    BY <1>1, <1>10, LedgerKept DEF PaperRead, database, exchange
  <1>11. ASSUME NEW s \in Sync,
                \/ \E p \in Plan : StartSync(s, p)
                \/ \E k \in OrderKey : ReadOrder(s, k) \/ CancelSibling(s, k)
                \/ NoLocalTrigger(s) \/ CloseRefused(s) \/ SendClose(s)
                \/ CloseNotFilled(s) \/ ReadFails(s)
                \/ NoTriggeredExit(s) \/ CrashSync(s)
         PROVE  UNCHANGED Ledger!vars
    <2>1. UNCHANGED <<planStatus, position>>
      BY <1>11 DEF StartSync, NoLocalTrigger, CloseRefused, SendClose, CloseNotFilled,
                   ReadOrder, ReadFails, NoTriggeredExit, CancelSibling, CrashSync, database
    <2>2. UNCHANGED book \/ SendClose(s) \/ \E k \in OrderKey : CancelSibling(s, k)
      BY <1>11 DEF StartSync, NoLocalTrigger, CloseRefused, CloseNotFilled,
                   ReadOrder, ReadFails, NoTriggeredExit, CrashSync, exchange
    <2>3. ASSUME NEW j \in OrderKey, book'[j] = "filled" PROVE book[j] = "filled"
      <3>1. CASE SendClose(s)
        BY <2>3, <3>1 DEF SendClose, TypeOK
      <3>2. CASE \E k \in OrderKey : CancelSibling(s, k)
        BY <2>3, <3>2 DEF CancelSibling, TypeOK
      <3>3. QED
        BY <2>2, <2>3, <3>1, <3>2
    <2>4. QED
      BY <1>1, <2>1, <2>3, LedgerKept
  <1>12. ASSUME NEW e \in Exec, FillEntry(e)
         PROVE  UNCHANGED Ledger!vars
    <2>1. UNCHANGED <<planStatus, position>>
      BY <1>12 DEF FillEntry, database
    <2>2. \A j \in OrderKey \ {<<e, "entry">>} : book'[j] = book[j]
      BY <1>12 DEF FillEntry, TypeOK
    <2>3. QED
      BY <1>1, <2>1, <2>2, LedgerKept
  <1>13. ASSUME NEW k \in OrderKey, Expire(k)
         PROVE  UNCHANGED Ledger!vars
    <2>1. UNCHANGED <<planStatus, position>>
      BY <1>13 DEF Expire, database
    <2>2. \A j \in OrderKey : book'[j] = "filled" => book[j] = "filled"
      BY <1>13 DEF Expire, TypeOK
    <2>3. QED
      BY <1>1, <2>1, <2>2, LedgerKept
  <1>14. CASE UNCHANGED vars
    BY <1>1, <1>14, LedgerKept DEF vars, database, exchange
  <1>15. CASE EntryNext
    BY <1>4, <1>5, <1>9, <1>10, <1>15 DEF EntryNext
  <1>16. CASE SyncNext
    <2>1. PICK s \in Sync : \/ \E p \in Plan : StartSync(s, p)
                            \/ NoLocalTrigger(s) \/ CloseRefused(s) \/ SendClose(s)
                            \/ CommitClose(s) \/ CloseNotFilled(s)
                            \/ \E k \in OrderKey : ReadOrder(s, k) \/ CancelSibling(s, k)
                            \/ ReadFails(s) \/ NoTriggeredExit(s) \/ CommitExit(s)
                            \/ CrashSync(s)
      BY <1>16 DEF SyncNext, SyncTask
    <2>2. QED
      BY <1>6, <1>11, <2>1
  <1>17. CASE ExchangeNext
    BY <1>7, <1>8, <1>12, <1>13, <1>17 DEF ExchangeNext
  <1>18. QED
    BY <1>14, <1>15, <1>16, <1>17 DEF Next

\* The trading core, its three kinds of handler interleaved at every await
\* with the exchange, with lost answers and crashes, implements the ledger.
THEOREM Refinement == Spec => ImplementsLedger
  <1>1. Init => Ledger!Init
    <2> SUFFICES ASSUME Init PROVE Ledger!Init
      OBVIOUS
    <2>1. [r \in Row |-> position[r].status] = [r \in Row |-> "none"]
      BY DEF Init, NoRow
    <2>2. [r \in Row |-> IF position[r].status = "none" THEN None ELSE planOf[r]]
            = [r \in Row |-> None]
      BY DEF Init, NoRow
    <2>3. {p \in Plan : planStatus[p] \in ExecutedStatus} = {}
      BY DEF Init, ExecutedStatus
    <2>4. Exited = {}
      BY DEF Init, Exited, ExitOf, NoReads
    <2>5. QED
      BY <2>1, <2>2, <2>3, <2>4 DEF Ledger!Init
  <1>2. TypeOK /\ IInv /\ [Next]_vars => [Ledger!Next]_(Ledger!vars)
    BY LedgerStep
  <1>3. QED
    BY <1>1, <1>2, TypeCorrect, Invariance, PTL DEF Spec, ImplementsLedger, Ledger!Spec

\* A sweep visits the plans with open positions in turn, through tasks that
\* are those of the core: it brings about nothing the core could not do.
THEOREM SweepIsCore == SweepSpec => Spec
  <1>1. SweepInit => Init
    BY DEF SweepInit
  <1>2. [SweepNext]_sweepVars => [Next]_vars
    <2> SUFFICES ASSUME [SweepNext]_sweepVars PROVE [Next]_vars
      OBVIOUS
    <2>1. CASE (EntryNext \/ ExchangeNext) /\ UNCHANGED sweep
      BY <2>1 DEF Next
    <2>2. CASE StartSweep
      BY <2>2 DEF StartSweep
    <2>3. ASSUME NEW p \in Plan, Visit(p) PROVE [Next]_vars
      <3>1. PICK s \in Sync : StartSync(s, p)
        BY <2>3 DEF Visit
      <3>2. QED
        BY <3>1 DEF Next, SyncNext
    <2>4. ASSUME NEW p \in Plan, Skip(p) PROVE [Next]_vars
      BY <2>4 DEF Skip
    <2>5. ASSUME NEW s \in Sync, TaskStep(s) PROVE [Next]_vars
      BY <2>5 DEF TaskStep, Next, SyncNext
    <2>6. ASSUME NEW s \in Sync, Abandon(s) PROVE [Next]_vars
      BY <2>6 DEF Abandon, Next, SyncNext, SyncTask
    <2>7. CASE UNCHANGED sweepVars
      BY <2>7 DEF sweepVars
    <2>8. ASSUME NEW s \in Late, LateStep(s) PROVE [Next]_vars
      BY <2>8, LateAssumption DEF LateStep, Next, SyncNext
    <2>9. QED
      BY <2>1, <2>2, <2>3, <2>4, <2>5, <2>6, <2>7, <2>8 DEF SweepNext
  <1>3. QED
    BY <1>1, <1>2, PTL DEF SweepSpec, Spec

\* The invariant of the core and its ledger therefore hold of every sweep.
THEOREM SweepKeepsLedger == SweepSpec => []IInv /\ ImplementsLedger
  BY SweepIsCore, Invariance, Refinement, PTL

\* A reconciliation only reads: with one beside them, the handlers behave as
\* without, and implement the ledger.
THEOREM ReportOnlyReads == ReportSpec => Spec /\ ImplementsLedger
  <1>1. ReportInit => Init
    BY DEF ReportInit
  <1>2. [ReportNext]_reportVars => [Next]_vars
    BY DEF ReportNext, reportVars
  <1>3. ReportSpec => Spec
    BY <1>1, <1>2, PTL DEF ReportSpec, Spec
  <1>4. QED
    BY <1>3, Refinement, PTL
=============================================================================
