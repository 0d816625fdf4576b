------------------------ MODULE ReconciliationProofs ------------------------
(***************************************************************************)
(* What reconcile_trade_plan reports is what the tables held while it read *)
(* them, whatever the handlers of the core committed meanwhile.  First the *)
(* part of the invariant about the tables, kept by every step of the core; *)
(* then the part about the report.                                         *)
(***************************************************************************)
EXTENDS LedgerRefinement, FiniteSetTheorems

\* An order that has moved is never new again, nor out of the book.
Onward == \A k \in OrderKey : book[k] \in Moved => book'[k] \in Moved

LEMMA BookOnward ==
  ASSUME TypeOK, IInv, [Next]_vars
  PROVE  Onward
  <1> SUFFICES ASSUME NEW k \in OrderKey, book[k] \in Moved
               PROVE  book'[k] \in Moved
    BY DEF Onward
  <1>1. CASE UNCHANGED book
    BY <1>1
  <1>2. ASSUME NEW e \in Exec, PlaceEntry(e) PROVE book'[k] \in Moved
    <2>1. book[<<e, "entry">>] = "absent"
      BY <1>2 DEF PlaceEntry, IInv, EntryInv
    <2>2. k # <<e, "entry">>
      BY <2>1 DEF Moved, Terminal
    <2>3. QED
      BY <1>2, <2>2 DEF PlaceEntry, TypeOK
  <1>3. ASSUME NEW e \in Exec, Protect(e) PROVE book'[k] \in Moved
    <2>1. /\ book[<<e, "stop">>] = "absent" /\ book[<<e, "tp">>] = "absent"
          /\ book[<<e, "orphan">>] = "absent"
      BY <1>3 DEF Protect, IInv, EntryInv
    <2>2. k \notin ProtectionPair(e) /\ k # <<e, "orphan">>
      BY <2>1 DEF ProtectionPair, Moved, Terminal
    <2>3. QED
      BY <1>3, <2>2 DEF Protect
  <1>4. ASSUME NEW s \in Sync, SendClose(s) PROVE book'[k] \in Moved
    <2>1. book[<<s, "exit">>] = "absent"
      BY <1>4 DEF SendClose, IInv, SyncInv
    <2>2. k # <<s, "exit">>
      BY <2>1 DEF Moved, Terminal
    <2>3. QED
      BY <1>4, <2>2 DEF SendClose, TypeOK
  <1>5. ASSUME NEW s \in Sync, NEW j \in OrderKey, CancelSibling(s, j) PROVE book'[k] \in Moved
    BY <1>5 DEF CancelSibling, TypeOK, Moved, Terminal
  <1>6. CASE ExchangeNext
    BY <1>6 DEF ExchangeNext, FillEntry, FillExit, Trigger, Expire, TypeOK, Moved, Terminal
  <1>7. CASE EntryNext
    BY <1>1, <1>2, <1>3, <1>7
    DEF EntryNext, CheckPlan, GiveUpEntry, ConfirmEntry, PriceEntry, CommitEntry, CrashEntry,
        PaperRead, PaperCommit, exchange
  <1>8. CASE SyncNext
    BY <1>1, <1>4, <1>5, <1>8
    DEF SyncNext, SyncTask, StartSync, NoLocalTrigger, CloseRefused, CommitClose,
        CloseNotFilled, ReadOrder, ReadFails, NoTriggeredExit, CommitExit, CrashSync, exchange
  <1>9. QED
    BY <1>1, <1>6, <1>7, <1>8 DEF Next, vars, exchange

\* What the tasks have read, after a step in which they read nothing.
LEMMA ReadsKept ==
  ASSUME NeverNewAgain, FillsStayShown, Onward, Stable,
         \A s \in Sync : \/ loaded'[s] = loaded[s] /\ seen'[s] = seen[s]
                         \/ loaded'[s] = NoReads /\ seen'[s] = NoReads,
         \A k \in ExitKey : /\ orders'[k] \in Moved => book'[k] \in Moved
                            /\ ShownFilled(k) => ShownFilled(k)'
  PROVE  NeverNewAgain' /\ FillsStayShown'
  <1>1. \A k \in ExitKey : k \in OrderKey
    BY DEF ExitKey
  <1>2. \A k \in OrderKey : NoReads[k] = "absent"
    BY DEF NoReads
  <1>3. NeverNewAgain'
    BY <1>1, <1>2 DEF NeverNewAgain, Onward, Stable, OrdersStable, Moved, Terminal, ExitKey
  <1>4. FillsStayShown'
    BY <1>1, <1>2 DEF FillsStayShown, ExitKey
  <1>5. QED
    BY <1>3, <1>4

\* The statuses of the plans, after a step that writes none and closes no row.
LEMMA StatusKept ==
  ASSUME StatusInv, Stable, UNCHANGED planStatus,
         \A r \in Row : position[r].status = "open" => position'[r].status = "open",
         \A k \in ExitKey : ShownFilled(k) => ShownFilled(k)'
  PROVE  StatusInv'
  <1> SUFFICES ASSUME NEW p \in Plan
               PROVE  /\ Traded(p) => OpenRows(p)' # {}
                      /\ planStatus[p] = "testnet_closed" =>
                           (\E k \in ExitOf(p) : ShownFilled(k))'
    BY DEF StatusInv, Traded
  <1>1. ASSUME Traded(p) PROVE OpenRows(p)' # {}
    <2>1. PICK r \in OpenRows(p) : TRUE
      BY <1>1 DEF StatusInv
    <2>2. r \in OpenRows(p)'
      BY <2>1 DEF OpenRows, Stable, RowsStable
    <2>3. QED
      BY <2>2
  <1>2. ASSUME planStatus[p] = "testnet_closed" PROVE (\E k \in ExitOf(p) : ShownFilled(k))'
    <2>1. PICK k \in ExitOf(p) : ShownFilled(k)
      BY <1>2 DEF StatusInv
    <2>2. k \in ExitKey /\ k \in ExitOf(p)'
      BY <2>1 DEF ExitOf, ExitKey, ShownFilled, KeyPlan, Stable, OrdersStable
    <2>3. QED
      BY <2>1, <2>2
  <1>3. QED
    BY <1>1, <1>2

\* A task that writes the statuses it read takes back no fill, and shows the
\* fills it read.
LEMMA StoredOnward ==
  ASSUME TypeOK, IInv, NeverNewAgain, FillsStayShown, NEW s \in Sync,
         StoreStatuses(s), UNCHANGED book
  PROVE  \A k \in ExitKey : /\ orders'[k] \in Moved => book'[k] \in Moved
                            /\ ShownFilled(k) => ShownFilled(k)'
                            /\ seen[s][k] = "filled" => ShownFilled(k)'
  <1> SUFFICES ASSUME NEW k \in ExitKey
               PROVE  /\ orders'[k] \in Moved => book[k] \in Moved
                      /\ ShownFilled(k) => ShownFilled(k)'
                      /\ seen[s][k] = "filled" => ShownFilled(k)'
    OBVIOUS
  <1>1. k \in OrderKey
    BY DEF ExitKey
  <1>2. orders'[k] = IF seen[s][k] # "absent" /\ seen[s][k] # loaded[s][k]
                     THEN seen[s][k] ELSE orders[k]
    BY <1>1 DEF StoreStatuses
  <1>3. /\ seen[s][k] \in Terminal => book[k] = seen[s][k]
        /\ seen[s][k] # "absent" => loaded[s][k] # "absent"
    BY <1>1 DEF IInv, ReadInv
  <1>4. seen[s][k] = "new" /\ seen[s][k] # loaded[s][k] => FALSE
    <2>1. seen[s][k] \in Status /\ loaded[s][k] \in Status
      BY <1>1 DEF TypeOK
    <2>2. QED
      BY <1>3, <2>1, Statuses DEF NeverNewAgain, Moved
  <1>5. seen[s][k] \in Status
    BY <1>1 DEF TypeOK
  <1>6. orders'[k] \in Moved => book[k] \in Moved
    BY <1>2 DEF NeverNewAgain
  <1>7. ShownFilled(k) => ShownFilled(k)'
    BY <1>2, <1>3, <1>4, <1>5, Statuses DEF ShownFilled
  <1>8. seen[s][k] = "filled" => ShownFilled(k)'
    <2>1. CASE loaded[s][k] = "filled"
      BY <1>7, <2>1 DEF FillsStayShown
    <2>2. CASE loaded[s][k] # "filled"
      BY <1>2, <1>3, <2>2 DEF ShownFilled, Terminal
    <2>3. QED
      BY <2>1, <2>2
  <1>9. QED
    BY <1>6, <1>7, <1>8

-----------------------------------------------------------------------------
(* The steps of the core.                                                  *)

\* A step that writes no table keeps what is said of them, when every task
\* goes on with what it has read or forgets it.
LEMMA QuietTables ==
  ASSUME TypeOK, IInv, TablesInv, [Next]_vars,
         UNCHANGED <<planStatus, position, orders>>,
         \A s \in Sync : \/ loaded'[s] = loaded[s] /\ seen'[s] = seen[s]
                         \/ loaded'[s] = NoReads /\ seen'[s] = NoReads
  PROVE  TablesInv'
  <1>1. IInv' /\ Stable
    BY NextInductive
  <1>2. Onward
    BY BookOnward
  <1>3. \A k \in ExitKey : k \in OrderKey
    BY DEF ExitKey
  <1>4. \A k \in ExitKey : /\ orders'[k] \in Moved => book'[k] \in Moved
                           /\ ShownFilled(k) => ShownFilled(k)'
    BY <1>1, <1>2, <1>3
    DEF TablesInv, NeverNewAgain, Onward, ShownFilled, Stable, OrdersStable, Terminal
  <1>5. QED
    BY <1>1, <1>2, <1>4, ReadsKept, StatusKept DEF TablesInv

\* The steps of the executions before their commit, and those of the exchange.
LEMMA EntryTables ==
  ASSUME TypeOK, IInv, TablesInv, [Next]_vars, NEW e \in Exec,
         \/ \E p \in Plan : CheckPlan(e, p)
         \/ GiveUpEntry(e) \/ PlaceEntry(e) \/ ConfirmEntry(e)
         \/ PriceEntry(e) \/ Protect(e) \/ CrashEntry(e)
  PROVE  TablesInv'
  <1>1. UNCHANGED <<planStatus, position, orders, loaded, seen>>
    BY DEF CheckPlan, GiveUpEntry, PlaceEntry, ConfirmEntry, PriceEntry, Protect, CrashEntry,
           database, reads
  <1>2. QED
    BY <1>1, QuietTables

\* The steps of a task that read nothing and store nothing.
LEMMA TaskTables ==
  ASSUME TypeOK, IInv, TablesInv, [Next]_vars, NEW s \in Sync,
         \/ NoLocalTrigger(s) \/ CloseRefused(s) \/ SendClose(s) \/ CloseNotFilled(s)
         \/ ReadFails(s) \/ CrashSync(s)
  PROVE  TablesInv'
  <1>1. UNCHANGED <<planStatus, position, orders>>
    BY DEF NoLocalTrigger, CloseRefused, SendClose, CloseNotFilled, ReadFails, CrashSync,
           database
  <1>2. \A t \in Sync : \/ loaded'[t] = loaded[t] /\ seen'[t] = seen[t]
                        \/ loaded'[t] = NoReads /\ seen'[t] = NoReads
    BY DEF NoLocalTrigger, CloseRefused, SendClose, CloseNotFilled, ReadFails, CrashSync,
           Return, End, TypeOK, reads
  <1>3. QED
    BY <1>1, <1>2, QuietTables

\* A task that starts loads the rows as they are stored.
LEMMA StartTables ==
  ASSUME TypeOK, IInv, TablesInv, [Next]_vars, NEW s \in Sync, NEW p \in Plan,
         StartSync(s, p)
  PROVE  TablesInv'
  <1>1. /\ UNCHANGED <<planStatus, position, orders, book, seen>>
        /\ \A t \in Sync \ {s} : loaded'[t] = loaded[t]
        /\ \A k \in OrderKey : loaded'[s][k] \in {orders[k], "absent"}
        /\ pc[s] = "idle"
    BY DEF StartSync, TypeOK, database, exchange
  <1>2. \A k \in OrderKey : seen[s][k] = "absent"
    BY <1>1 DEF IInv, ReadInv
  <1>3. \A k \in ExitKey : k \in OrderKey
    BY DEF ExitKey
  <1>4. NeverNewAgain'
    BY <1>1, <1>2, <1>3, Statuses DEF TablesInv, NeverNewAgain, IInv, RowsNeverAhead
  <1>5. FillsStayShown'
    BY <1>1, <1>3, Statuses DEF TablesInv, FillsStayShown, ShownFilled, IInv, RowsNeverAhead
  <1>6. StatusInv'
    <2>1. Stable
      BY NextInductive
    <2>2. QED
      BY <1>1, <2>1, StatusKept DEF TablesInv, ShownFilled
  <1>7. QED
    BY <1>4, <1>5, <1>6 DEF TablesInv

\* An order that is read, or cancelled, is not new when its row was not.
LEMMA ReadTables ==
  ASSUME TypeOK, IInv, TablesInv, [Next]_vars, NEW s \in Sync, NEW j \in OrderKey,
         ReadOrder(s, j) \/ CancelSibling(s, j)
  PROVE  TablesInv'
  <1>1. /\ UNCHANGED <<planStatus, position, orders, loaded>>
        /\ \A t \in Sync : \A k \in OrderKey :
             \/ seen'[t][k] = seen[t][k]
             \/ seen'[t][k] = book'[k]
    BY DEF ReadOrder, CancelSibling, TypeOK, database, exchange
  <1>2. Stable /\ Onward
    BY NextInductive, BookOnward
  <1>3. \A k \in ExitKey : k \in OrderKey
    BY DEF ExitKey
  <1>4. \A k \in ExitKey : ShownFilled(k) => ShownFilled(k)'
    BY <1>1, <1>2, <1>3 DEF ShownFilled, Stable, OrdersStable, Terminal
  <1>5. NeverNewAgain'
    <2> SUFFICES ASSUME NEW k \in ExitKey, NEW t \in Sync
                 PROVE  /\ orders[k] \in Moved => book'[k] \in Moved
                        /\ loaded[t][k] \in Moved => book'[k] \in Moved /\ seen'[t][k] # "new"
                        /\ loaded[t][k] \in Terminal => book'[k] = loaded[t][k]
                        /\ seen'[t][k] \in Moved => book'[k] \in Moved
      BY <1>1, <1>2, <1>3 DEF NeverNewAgain, TablesInv, Onward
    <2>1. "new" \notin Moved
      BY DEF Moved, Terminal
    <2>2. QED
      BY <1>1, <1>2, <1>3, <2>1
      DEF TablesInv, NeverNewAgain, Onward, Stable, OrdersStable
  <1>6. FillsStayShown'
    BY <1>1, <1>4 DEF TablesInv, FillsStayShown
  <1>7. StatusInv'
    BY <1>1, <1>2, <1>4, StatusKept DEF TablesInv
  <1>8. QED
    BY <1>5, <1>6, <1>7 DEF TablesInv

\* A task that found nothing triggered stores the statuses it read.
LEMMA NoTriggeredExitTables ==
  ASSUME TypeOK, IInv, TablesInv, [Next]_vars, NEW s \in Sync, NoTriggeredExit(s)
  PROVE  TablesInv'
  <1>1. /\ UNCHANGED <<planStatus, position, book>> /\ StoreStatuses(s)
        /\ \A t \in Sync : \/ loaded'[t] = loaded[t] /\ seen'[t] = seen[t]
                           \/ loaded'[t] = NoReads /\ seen'[t] = NoReads
    BY DEF NoTriggeredExit, Return, TypeOK, exchange
  <1>2. Stable /\ Onward
    BY NextInductive, BookOnward
  <1>3. \A k \in ExitKey : /\ orders'[k] \in Moved => book'[k] \in Moved
                           /\ ShownFilled(k) => ShownFilled(k)'
    BY <1>1, StoredOnward DEF TablesInv
  <1>4. QED
    BY <1>1, <1>2, <1>3, ReadsKept, StatusKept DEF TablesInv

\* A plan is closed together with an exit order that shows its fill.
LEMMA ClosingTables ==
  ASSUME TypeOK, IInv, TablesInv, [Next]_vars, NEW s \in Sync, CommitClose(s) \/ CommitExit(s)
  PROVE  TablesInv'
  <1>p. PICK p : p = planOf[s]
    OBVIOUS
  <1>1. /\ pc[s] \in {"closing", "refreshing"} /\ UNCHANGED book
        /\ position' = [position EXCEPT ![target[s]].status = "closed"]
        /\ planStatus' = [planStatus EXCEPT ![p] = "testnet_closed"]
        /\ \A t \in Sync : \/ loaded'[t] = loaded[t] /\ seen'[t] = seen[t]
                           \/ loaded'[t] = NoReads /\ seen'[t] = NoReads
    BY <1>p DEF CommitClose, CommitExit, Return, End, TypeOK, exchange, reads
  <1>2. IInv' /\ Stable /\ Onward
    BY NextInductive, BookOnward
  <1>3. /\ p \in Plan /\ target[s] \in Row /\ planOf[target[s]] = p
        /\ \A r \in Row \ {target[s]} : position'[r] = position[r]
    BY <1>p, <1>1, RowCloses
  <1>4. /\ planStatus'[p] = "testnet_closed"
        /\ \A q \in Plan \ {p} : planStatus'[q] = planStatus[q]
    BY <1>1, <1>3 DEF TypeOK
  <1>5. /\ \A k \in ExitKey : /\ orders'[k] \in Moved => book'[k] \in Moved
                              /\ ShownFilled(k) => ShownFilled(k)'
        /\ \E k \in ExitOf(p) : k \in ExitKey /\ ShownFilled(k)'
    <2>1. CASE CommitClose(s)
      <3>1. /\ <<s, "exit">> \in ExitKey /\ book[<<s, "exit">>] = "filled"
            /\ orders'[<<s, "exit">>] \in {"partially_filled", "filled"}
            /\ \A k \in OrderKey \ {<<s, "exit">>} : orders'[k] = orders[k]
        BY <2>1, Keys DEF CommitClose, TypeOK, ExitKey
      <3>2. <<s, "exit">> \in ExitOf(p)
        BY <1>p, <3>1 DEF ExitOf, ExitKey, KeyPlan
      <3>3. QED
        BY <1>1, <3>1, <3>2 DEF ShownFilled, ExitKey, TablesInv, NeverNewAgain, Moved, Terminal
    <2>2. CASE CommitExit(s)
      <3>1. PICK k \in OrderKey : seen[s][k] = "filled"
        BY <2>2 DEF CommitExit, Triggered
      <3>2. k \in ExitOf(p) /\ k \in ExitKey
        BY <1>p, <3>1 DEF IInv, ReadInv, ExitOf, ExitKey
      <3>3. StoreStatuses(s)
        BY <2>2 DEF CommitExit
      <3>4. QED
        BY <1>1, <3>1, <3>2, <3>3, StoredOnward DEF TablesInv
    <2>3. QED
      BY <2>1, <2>2
  <1>6. NeverNewAgain' /\ FillsStayShown'
    BY <1>1, <1>2, <1>5, ReadsKept DEF TablesInv
  <1>7. StatusInv'
    <2> SUFFICES ASSUME NEW q \in Plan
                 PROVE  /\ Traded(q)' => OpenRows(q)' # {}
                        /\ planStatus'[q] = "testnet_closed" =>
                             (\E k \in ExitOf(q) : ShownFilled(k))'
      BY DEF StatusInv
    <2>1. CASE q = p
      <3>1. PICK k \in ExitOf(p) : k \in ExitKey /\ ShownFilled(k)'
        BY <1>5
      <3>2. book[k] # "absent"
        BY <1>1, <3>1 DEF ShownFilled
      <3>3. k \in ExitOf(p)'
        BY <1>2, <3>1, <3>2 DEF ExitOf, KeyPlan, Stable, OrdersStable
      <3>4. QED
        BY <1>4, <2>1, <3>1, <3>3 DEF Traded
    <2>2. CASE q # p
      <3>1. ASSUME Traded(q)' PROVE OpenRows(q)' # {}
        <4>1. PICK r \in OpenRows(q) : TRUE
          BY <1>4, <2>2, <3>1 DEF TablesInv, StatusInv, Traded
        <4>2. r \in OpenRows(q)'
          BY <1>2, <1>3, <2>2, <4>1 DEF OpenRows, Stable, RowsStable
        <4>3. QED
          BY <4>2
      <3>2. ASSUME planStatus'[q] = "testnet_closed"
            PROVE  (\E k \in ExitOf(q) : ShownFilled(k))'
        <4>1. PICK k \in ExitOf(q) : ShownFilled(k)
          BY <1>4, <2>2, <3>2 DEF TablesInv, StatusInv
        <4>2. k \in ExitKey /\ k \in ExitOf(q)'
          BY <1>2, <4>1 DEF ExitOf, ExitKey, ShownFilled, KeyPlan, Stable, OrdersStable
        <4>3. QED
          BY <1>5, <4>1, <4>2
      <3>3. QED
        BY <3>1, <3>2
    <2>3. QED
      BY <2>1, <2>2
  <1>8. QED
    BY <1>6, <1>7 DEF TablesInv

\* A commit that opens the row r of plan p.
LEMMA OpeningStatus ==
  ASSUME TypeOK, StatusInv, Stable, NEW r \in Row, NEW p \in Plan,
         planOf'[r] = p, position'[r].status = "open",
         \A q \in Row \ {r} : position'[q] = position[q],
         planStatus'[p] \in {"paper_executed", "testnet_executed"},
         \A q \in Plan \ {p} : planStatus'[q] = planStatus[q],
         \A k \in ExitKey : ShownFilled(k) => ShownFilled(k)'
  PROVE  StatusInv'
  <1> SUFFICES ASSUME NEW q \in Plan
               PROVE  /\ Traded(q)' => OpenRows(q)' # {}
                      /\ planStatus'[q] = "testnet_closed" =>
                           (\E k \in ExitOf(q) : ShownFilled(k))'
    BY DEF StatusInv
  <1>1. CASE q = p
    <2>1. r \in OpenRows(p)'
      BY DEF OpenRows
    <2>2. QED
      BY <1>1, <2>1
  <1>2. CASE q # p
    <2>1. ASSUME Traded(q)' PROVE OpenRows(q)' # {}
      <3>1. PICK x \in OpenRows(q) : TRUE
        BY <1>2, <2>1 DEF StatusInv, Traded
      <3>2. x \in OpenRows(q)'
        BY <1>2, <3>1 DEF OpenRows, Stable, RowsStable
      <3>3. QED
        BY <3>2
    <2>2. ASSUME planStatus'[q] = "testnet_closed"
          PROVE  (\E k \in ExitOf(q) : ShownFilled(k))'
      <3>1. PICK k \in ExitOf(q) : ShownFilled(k)
        BY <1>2, <2>2 DEF StatusInv
      <3>2. k \in ExitKey /\ k \in ExitOf(q)'
        BY <3>1 DEF ExitOf, ExitKey, ShownFilled, KeyPlan, Stable, OrdersStable
      <3>3. QED
        BY <3>1, <3>2
    <2>3. QED
      BY <2>1, <2>2
  <1>3. QED
    BY <1>1, <1>2

\* The commit of an execution.
LEMMA CommitEntryTables ==
  ASSUME TypeOK, IInv, TablesInv, [Next]_vars, NEW e \in Exec, CommitEntry(e)
  PROVE  TablesInv'
  <1>p. PICK p : p = planOf[e]
    OBVIOUS
  <1>1. Stable /\ Onward
    BY NextInductive, BookOnward
  <1>2. p \in Plan /\ e \in Row
    BY <1>p, PlansOfRequests DEF CommitEntry, Executing, Row
  <1>3. /\ position'[e].status = "open"
        /\ \A q \in Row \ {e} : position'[q] = position[q]
        /\ planStatus'[p] = "testnet_executed"
        /\ \A q \in Plan \ {p} : planStatus'[q] = planStatus[q]
        /\ UNCHANGED <<book, planOf, loaded, seen>>
    BY <1>p, <1>2 DEF CommitEntry, TypeOK, exchange, reads
  <1>4. \A k \in ExitKey : orders'[k] \in {orders[k], "new"} /\ (orders'[k] # orders[k] => orders[k] = "absent")
    <2>1. pc[e] # "done"
      BY DEF CommitEntry
    <2>2. orders[<<e, "stop">>] = "absent" /\ orders[<<e, "tp">>] = "absent"
      BY <2>1 DEF IInv, EntryInv
    <2>3. \A k \in ExitKey : k \in OrderKey /\ k # <<e, "entry">>
      BY DEF ExitKey
    <2>4. QED
      BY <2>2, <2>3 DEF CommitEntry, ProtectionPair
  <1>5. \A k \in ExitKey : /\ orders'[k] \in Moved => book'[k] \in Moved
                           /\ ShownFilled(k) => ShownFilled(k)'
    BY <1>3, <1>4 DEF TablesInv, NeverNewAgain, ShownFilled, Moved, Terminal
  <1>6. NeverNewAgain' /\ FillsStayShown'
    BY <1>1, <1>3, <1>5, ReadsKept DEF TablesInv
  <1>7. StatusInv'
    BY <1>p, <1>1, <1>2, <1>3, <1>5, OpeningStatus DEF TablesInv
  <1>8. QED
    BY <1>6, <1>7 DEF TablesInv

\* The commit of a paper execution.
LEMMA PaperCommitTables ==
  ASSUME TypeOK, IInv, TablesInv, [Next]_vars, NEW r \in Paper, PaperCommit(r)
  PROVE  TablesInv'
  <1>p. PICK p : p = planOf[r]
    OBVIOUS
  <1>1. Stable /\ Onward
    BY NextInductive, BookOnward
  <1>2. p \in Plan /\ r \in Row
    BY <1>p DEF PaperCommit, IInv, PaperInv, Row
  <1>3. /\ position'[r].status = "open"
        /\ \A q \in Row \ {r} : position'[q] = position[q]
        /\ planStatus'[p] = "paper_executed"
        /\ \A q \in Plan \ {p} : planStatus'[q] = planStatus[q]
        /\ UNCHANGED <<book, planOf, orders, loaded, seen>>
    BY <1>p, <1>2 DEF PaperCommit, TypeOK, exchange, reads
  <1>4. \A k \in ExitKey : /\ orders'[k] \in Moved => book'[k] \in Moved
                           /\ ShownFilled(k) => ShownFilled(k)'
    BY <1>3 DEF TablesInv, NeverNewAgain, ShownFilled
  <1>5. NeverNewAgain' /\ FillsStayShown'
    BY <1>1, <1>3, <1>4, ReadsKept DEF TablesInv
  <1>6. StatusInv'
    BY <1>p, <1>1, <1>2, <1>3, <1>4, OpeningStatus DEF TablesInv
  <1>7. QED
    BY <1>5, <1>6 DEF TablesInv

\* Every step of the core keeps what is said of the tables.
LEMMA NextTables ==
  ASSUME TypeOK, IInv, TablesInv, [Next]_vars
  PROVE  TablesInv'
  <1>1. ASSUME NEW e \in Exec,
               \/ \E p \in Plan : CheckPlan(e, p)
               \/ GiveUpEntry(e) \/ PlaceEntry(e) \/ ConfirmEntry(e)
               \/ PriceEntry(e) \/ Protect(e) \/ CommitEntry(e) \/ CrashEntry(e)
        PROVE  TablesInv'
    BY <1>1, EntryTables, CommitEntryTables
  <1>2. ASSUME NEW r \in Paper, NEW p \in Plan, PaperRead(r, p) PROVE TablesInv'
    BY <1>2, QuietTables DEF PaperRead, database, reads
  <1>3. ASSUME NEW s \in Sync, SyncTask(s) PROVE TablesInv'
    BY <1>3, TaskTables, ReadTables, NoTriggeredExitTables, ClosingTables DEF SyncTask
  <1>4. CASE ExchangeNext \/ UNCHANGED vars
    <2>1. UNCHANGED <<planStatus, position, orders, loaded, seen>>
      BY <1>4 DEF ExchangeNext, FillEntry, FillExit, Trigger, Expire, vars, database, reads
    <2>2. QED
      BY <2>1, QuietTables
  <1>5. CASE EntryNext
    BY <1>1, <1>2, <1>5, PaperCommitTables DEF EntryNext
  <1>6. CASE SyncNext
    BY <1>3, <1>6, StartTables DEF SyncNext
  <1>7. QED
    BY <1>4, <1>5, <1>6 DEF Next

\* What the three tables say of a plan agrees, whatever handlers interleave.
THEOREM TablesAgree == Spec => []TablesInv
  <1>1. Init => TablesInv
    <2> SUFFICES ASSUME Init PROVE TablesInv
      OBVIOUS
    <2>1. \A k \in OrderKey : NoReads[k] = "absent"
      BY DEF NoReads
    <2>2. NeverNewAgain /\ FillsStayShown
      BY <2>1, Statuses DEF Init, NeverNewAgain, FillsStayShown, ExitKey, Moved
    <2>3. StatusInv
      BY DEF Init, StatusInv, Traded
    <2>4. QED
      BY <2>2, <2>3 DEF TablesInv
  <1>2. TypeOK /\ IInv /\ TablesInv /\ [Next]_vars => TablesInv'
    BY NextTables
  <1>3. QED
    BY <1>1, <1>2, TypeCorrect, Invariance, PTL DEF Spec

-----------------------------------------------------------------------------
(* The report.                                                             *)

ReportRows == SUBSET (Row \X {"none", "open", "closed"})
ReportEvents == SUBSET DriftTypes
ReportRecord ==
  [plan : Plan \cup {None}, at : 1 .. 4, status : PlanStatus, filled : BOOLEAN,
   guards : Nat, rejected : BOOLEAN, rows : ReportRows, events : ReportEvents]

\* The order of the three reads, spelled out for the solver.
LEMMA Statements ==
  Len(Reading) = 3 /\ Reading[1] = "plan" /\ Reading[2] = "orders" /\ Reading[3] = "positions"
  BY DEF Reading

\* A plan has finitely many protection rows, and a step only adds to them.
LEMMA GuardsGrow ==
  ASSUME IsFiniteSet(Exec), IsFiniteSet(Sync), NEW p \in Plan
  PROVE  /\ Cardinality(ProtectionRows(p)) \in Nat
         /\ Cardinality(ProtectionRows(p)') \in Nat
         /\ (IInv /\ Stable) => Cardinality(ProtectionRows(p)) <= Cardinality(ProtectionRows(p)')
  <1>1. IsFiniteSet(OrderKey)
    <2>1. IsFiniteSet({"entry", "stop", "tp", "orphan"}) /\ IsFiniteSet({"exit"})
      <3>1. /\ IsFiniteSet({"entry"}) /\ IsFiniteSet({"stop"})
            /\ IsFiniteSet({"tp"}) /\ IsFiniteSet({"orphan"})
        BY FS_Singleton
      <3>2. IsFiniteSet({"entry"} \cup {"stop"}) /\ IsFiniteSet({"tp"} \cup {"orphan"})
        BY <3>1, FS_Union
      <3>3. IsFiniteSet(({"entry"} \cup {"stop"}) \cup ({"tp"} \cup {"orphan"}))
        BY <3>2, FS_Union
      <3>4. ({"entry"} \cup {"stop"}) \cup ({"tp"} \cup {"orphan"}) = {"entry", "stop", "tp", "orphan"}
        OBVIOUS
      <3>5. QED
        BY <3>3, <3>4, FS_Singleton
    <2>2. QED
      BY <2>1, FS_Product, FS_Union DEF OrderKey
  <1>2. IsFiniteSet(ProtectionRows(p)) /\ IsFiniteSet(ProtectionRows(p)')
    <2>1. ProtectionRows(p) \subseteq OrderKey /\ ProtectionRows(p)' \subseteq OrderKey
      BY DEF ProtectionRows
    <2>2. QED
      BY <1>1, <2>1, FS_Subset
  <1>3. ASSUME IInv, Stable PROVE ProtectionRows(p) \subseteq ProtectionRows(p)'
    BY <1>3 DEF ProtectionRows, KeyPlan, Stable, OrdersStable, IInv, RowsNeverAhead
  <1>4. QED
    BY <1>2, <1>3, FS_CardinalityType, FS_Subset

\* What can be missing: an execution, and half of the protection.
LEMMA WhatIsMissing ==
  ASSUME IInv, NEW p \in Plan
  PROVE  /\ "missing_position_association" \notin Critical(p)
         /\ Critical(p) \subseteq CriticalTypes
         /\ Critical(p) # {} => Traded(p)
         /\ "missing_filled_order" \in Critical(p) <=> Traded(p) /\ ~HasExecution(p)
         /\ "missing_exit_protection" \in Critical(p) <=>
              Traded(p) /\ OpenRows(p) # {} /\ Cardinality(ProtectionRows(p)) < 2
  <1>1. Traded(p) => \E r \in Row : planOf[r] = p /\ position[r].status # "none"
    BY DEF IInv, ExecutedIffPositioned, Traded, ExecutedStatus
  <1>2. QED
    BY <1>1 DEF Critical, CriticalTypes

\* A step of a handler beside the report.
LEMMA HandlerReport ==
  ASSUME IsFiniteSet(Exec), IsFiniteSet(Sync), TypeOK, IInv, ReportInv,
         report \in ReportRecord, [Next]_vars, UNCHANGED report,
         Watch \/ UNCHANGED <<ever, always>>
  PROVE  ReportInv'
  <1>1. IInv' /\ Stable
    BY NextInductive
  <1>2. ever \subseteq ever' /\ always' \subseteq always
    BY DEF Watch, InProgress
  <1>3. report.at = 4 => UNCHANGED <<ever, always>>
    BY Statements DEF Watch, InProgress
  <1>4. report.at >= 2 /\ ReadTraded => planStatus'[report.plan] \in ExecutedStatus
    <2> SUFFICES ASSUME report.at >= 2, ReadTraded
                 PROVE  planStatus'[report.plan] \in ExecutedStatus
      OBVIOUS
    <2>1. report.plan \in Plan /\ planStatus[report.plan] \in ExecutedStatus
      BY DEF ReportInv
    <2>2. PICK r \in Row : planOf[r] = report.plan /\ position[r].status # "none"
      BY <2>1 DEF IInv, ExecutedIffPositioned
    <2>3. planOf'[r] = report.plan /\ position'[r].status # "none"
      BY <1>1, <2>2 DEF Stable, RowsStable
    <2>4. QED
      BY <1>1, <2>1, <2>3 DEF IInv, ExecutedIffPositioned
  <1>5. (/\ report.at = 2 /\ ReadTraded
         /\ Cardinality(ProtectionRows(report.plan)') < 2) => "missing_exit_protection" \in ever'
    <2> SUFFICES ASSUME report.at = 2, ReadTraded,
                        Cardinality(ProtectionRows(report.plan)') < 2
                 PROVE  "missing_exit_protection" \in ever'
      OBVIOUS
    <2>1. report.plan \in Plan
      BY DEF ReportInv
    <2>2. /\ Cardinality(ProtectionRows(report.plan)) \in Nat
          /\ Cardinality(ProtectionRows(report.plan)')  \in Nat
          /\ Cardinality(ProtectionRows(report.plan)) <= Cardinality(ProtectionRows(report.plan)')
      <3>1. PICK p \in Plan : p = report.plan
        BY <2>1
      <3>2. QED
        BY <1>1, <3>1, GuardsGrow
    <2>3. QED
      BY <1>2, <2>2 DEF ReportInv
  <1>6. DriftIsReal' /\ LastingDriftIsReported'
    BY <1>3, Statements DEF ReportInv, DriftIsReal, LastingDriftIsReported, Done, ReportRecord
  <1>7. QED
    BY <1>2, <1>4, <1>5, <1>6 DEF ReportInv, ReadTraded

\* The report is asked for.
LEMMA OpenReport ==
  ASSUME IInv, ReportInv, report \in ReportRecord, NEW p \in Plan, Open(p), UNCHANGED vars, Watch
  PROVE  ReportInv' /\ report' \in ReportRecord
  <1>1. report.at = 1
    BY ConstantsAssumption DEF Open, ReportInv, ReportRecord
  <1>2. report' = [report EXCEPT !.plan = p] /\ report'.at = 1 /\ report' \in ReportRecord
    BY <1>1 DEF Open, ReportRecord
  <1>3. QED
    BY <1>2, Statements DEF ReportInv, DriftIsReal, LastingDriftIsReported, Done

\* The first read, of the plan: what is missing now is noted.
LEMMA ReadPlan ==
  ASSUME IInv, TablesInv, TypeOK, ReportInv, report \in ReportRecord, report.at = 1,
         Read, UNCHANGED vars, Watch
  PROVE  ReportInv' /\ report' \in ReportRecord
  <1>p. PICK p : p = report.plan
    OBVIOUS
  <1>1. p \in Plan /\ planStatus[p] \in PlanStatus
    BY <1>p DEF Read, ReportRecord, TypeOK
  <1>2. PICK s : s = [report EXCEPT !.status = planStatus[p]]
    OBVIOUS
  <1>s. s \in ReportRecord /\ s.at = 1 /\ s.plan = p /\ s.status = planStatus[p]
    BY <1>p, <1>1, <1>2 DEF ReportRecord
  <1>t. report' = [s EXCEPT !.at = 2, !.events = {}]
    <2>1. ReadPlanRow(report) = s /\ Reading[report.at] = "plan"
      BY <1>p, <1>2, Statements DEF ReadPlanRow
    <2>2. report' = [s EXCEPT !.at = @ + 1,
                              !.events = IF s.at = Len(Reading) THEN Report(s) ELSE {}]
      BY <2>1 DEF Read
    <2>3. QED
      BY <1>s, <2>2, Statements DEF ReportRecord
  <1>3. /\ report' \in ReportRecord
        /\ report'.at = 2 /\ report'.plan = p /\ report'.status = planStatus[p]
    <2>1. PICK said \in ReportEvents : said = {}
      BY DEF ReportEvents
    <2>u. PICK u : u = [s EXCEPT !.at = 2]
      OBVIOUS
    <2>v. /\ u \in ReportRecord /\ u.at = 2 /\ u.plan = s.plan /\ u.status = s.status
          /\ u.filled = s.filled /\ u.guards = s.guards
      BY <1>s, <2>u DEF ReportRecord
    <2>w. report' = [u EXCEPT !.events = said]
      BY <1>t, <2>1, <2>u
    <2>2. /\ report' \in ReportRecord
          /\ report'.at = 2 /\ report'.plan = s.plan /\ report'.status = s.status
          /\ report'.filled = s.filled /\ report'.guards = s.guards
      BY <2>v, <2>w DEF ReportRecord
    <2>3. QED
      BY <1>s, <2>2
  <1>4. ever' = Critical(p) /\ always' = Critical(p)
    BY <1>p, <1>3, Statements DEF Watch, InProgress
  <1>5. ReadTraded' <=> Traded(p)
    BY <1>3 DEF ReadTraded, Traded
  <1>6. Traded(p) => OpenRows(p) # {} /\ planStatus[p] \in ExecutedStatus
    BY <1>1 DEF TablesInv, StatusInv, Traded, ExecutedStatus
  <1>7. ReadTraded' /\ Cardinality(ProtectionRows(p)) < 2 => "missing_exit_protection" \in ever'
    BY <1>1, <1>4, <1>5, <1>6, WhatIsMissing
  <1>8. always' \subseteq CriticalTypes \ {"missing_position_association"}
        /\ (always' # {} => ReadTraded')
    BY <1>1, <1>4, <1>5, WhatIsMissing
  <1>9. planStatus' = planStatus /\ ProtectionRows(p)' = ProtectionRows(p)
    BY DEF vars, database, ProtectionRows, KeyPlan
  <1>10. DriftIsReal' /\ LastingDriftIsReported'
    BY <1>3, Statements DEF DriftIsReal, LastingDriftIsReported, Done
  <1>11. QED
    BY <1>1, <1>3, <1>5, <1>6, <1>7, <1>8, <1>9, <1>10, Statements DEF ReportInv

\* The second read, of the orders.
LEMMA ReadOrders ==
  ASSUME IsFiniteSet(Exec), IsFiniteSet(Sync), IInv, TablesInv, TypeOK, ReportInv,
         report \in ReportRecord, report.at = 2, Read, UNCHANGED vars, Watch
  PROVE  ReportInv' /\ report' \in ReportRecord
  <1>p. PICK p : p = report.plan
    OBVIOUS
  <1>1. p \in Plan
    BY <1>p DEF ReportInv
  <1>f. PICK f \in BOOLEAN : f <=> HasExecution(p)
    OBVIOUS
  <1>r. PICK r \in BOOLEAN : r <=> \E k \in OrdersOf(p) : IsRejected(k)
    OBVIOUS
  <1>n. PICK n \in Nat : n = Cardinality(ProtectionRows(p))
    BY <1>1, GuardsGrow
  <1>2. PICK s : s = [report EXCEPT !.filled = f, !.guards = n, !.rejected = r]
    OBVIOUS
  <1>s. /\ s \in ReportRecord /\ s.at = 2 /\ s.plan = p /\ s.status = report.status
        /\ s.filled = f /\ s.guards = n
    BY <1>p, <1>2 DEF ReportRecord
  <1>t. report' = [s EXCEPT !.at = 3, !.events = {}]
    <2>1. ReadOrderRows(report) = s
      <3>1. f = (PaperRows(p) # {} \/ \E k \in OrdersOf(p) : Executed(k))
        BY <1>f DEF HasExecution
      <3>2. r = (\E k \in OrdersOf(p) : IsRejected(k))
        BY <1>r
      <3>3. QED
        BY <1>p, <1>n, <1>2, <3>1, <3>2 DEF ReadOrderRows
    <2>2. Reading[report.at] = "orders"
      BY Statements
    <2>3. report' = [s EXCEPT !.at = @ + 1,
                              !.events = IF s.at = Len(Reading) THEN Report(s) ELSE {}]
      BY <2>1, <2>2 DEF Read
    <2>4. QED
      BY <1>s, <2>3, Statements DEF ReportRecord
  <1>4. /\ report' \in ReportRecord
        /\ report'.at = 3 /\ report'.plan = p /\ report'.status = report.status
        /\ report'.filled = f /\ report'.guards = Cardinality(ProtectionRows(p))
    <2>1. PICK said \in ReportEvents : said = {}
      BY DEF ReportEvents
    <2>u. PICK u : u = [s EXCEPT !.at = 3]
      OBVIOUS
    <2>v. /\ u \in ReportRecord /\ u.at = 3 /\ u.plan = s.plan /\ u.status = s.status
          /\ u.filled = s.filled /\ u.guards = s.guards
      BY <1>s, <2>u DEF ReportRecord
    <2>w. report' = [u EXCEPT !.events = said]
      BY <1>t, <2>1, <2>u
    <2>2. /\ report' \in ReportRecord
          /\ report'.at = 3 /\ report'.plan = s.plan /\ report'.status = s.status
          /\ report'.filled = s.filled /\ report'.guards = s.guards
      BY <2>v, <2>w DEF ReportRecord
    <2>3. QED
      BY <1>n, <1>s, <2>2
  <1>5. /\ Critical(p)' = Critical(p) /\ planStatus' = planStatus
        /\ report'.plan = report.plan
    BY <1>p, <1>4 DEF vars, database, Critical, Traded, HasExecution, PaperRows, OrdersOf, KeyPlan,
           Executed, PartlyDone, OpenRows, ProtectionRows
  <1>6. ever' = ever \cup Critical(p) /\ always' = always \cap Critical(p)
    <2>1. ever' = ever \cup Critical(report.plan)' /\ always' = always \cap Critical(report.plan)'
      BY <1>4, Statements DEF Watch, InProgress
    <2>2. Critical(report.plan)' = Critical(p)'
      BY <1>p, <1>5
    <2>3. QED
      BY <1>5, <2>1, <2>2
  <1>7. ReadTraded' <=> ReadTraded
    BY <1>4 DEF ReadTraded
  <1>8. ASSUME ReadTraded, ~f PROVE "missing_filled_order" \in ever'
    <2>1. planStatus[p] \in ExecutedStatus
      BY <1>p, <1>8 DEF ReportInv
    <2>2. ~HasExecution(p)
      BY <1>f, <1>8
    <2>3. planStatus[p] # "testnet_closed"
      <3> SUFFICES ASSUME planStatus[p] = "testnet_closed" PROVE FALSE
        OBVIOUS
      <3>1. PICK k \in ExitOf(p) : ShownFilled(k)
        BY <1>1 DEF TablesInv, StatusInv
      <3>2. k \in OrdersOf(p) /\ Executed(k)
        BY <3>1 DEF ExitOf, ShownFilled, OrdersOf, Executed
      <3>3. QED
        BY <2>2, <3>2 DEF HasExecution
    <2>4. Traded(p)
      BY <2>1, <2>3 DEF Traded, ExecutedStatus
    <2>5. QED
      BY <1>1, <1>6, <2>2, <2>4, WhatIsMissing
  <1>9. ReadTraded /\ Cardinality(ProtectionRows(p)) < 2 => "missing_exit_protection" \in ever'
    BY <1>p, <1>6 DEF ReportInv
  <1>10. /\ "missing_filled_order" \in always' => ~f
         /\ "missing_exit_protection" \in always' => Cardinality(ProtectionRows(p)) < 2
    BY <1>1, <1>f, <1>6, WhatIsMissing
  <1>11. /\ always' \subseteq CriticalTypes \ {"missing_position_association"}
         /\ always' # {} => ReadTraded'
         /\ ReadTraded' => planStatus'[p] \in ExecutedStatus
    BY <1>p, <1>5, <1>6, <1>7 DEF ReportInv
  <1>12. DriftIsReal' /\ LastingDriftIsReported'
    BY <1>4, Statements DEF DriftIsReal, LastingDriftIsReported, Done
  <1>13. QED
    BY <1>1, <1>4, <1>7, <1>8, <1>9, <1>10, <1>11, <1>12, Statements DEF ReportInv

\* What the report says of what was read.
LEMMA WhatIsSaid ==
  ASSUME NEW s \in ReportRecord
  PROVE  LET executed == s.status \in {"testnet_executed", "paper_executed"}
             open     == {row \in s.rows : row[2] = "open"}
         IN  /\ Drifts(s) \subseteq DriftTypes
             /\ "missing_filled_order" \in Drifts(s) <=> executed /\ ~s.filled
             /\ "missing_position_association" \in Drifts(s) <=> executed /\ s.rows = {}
             /\ "missing_exit_protection" \in Drifts(s) <=>
                  executed /\ open # {} /\ s.guards < 2
  BY DEF Drifts, DriftTypes

\* The third read, of the positions, after which the report speaks.
LEMMA ReadPositions ==
  ASSUME IInv, TablesInv, TypeOK, ReportInv,
         report \in ReportRecord, report.at = 3, Read, UNCHANGED vars, Watch
  PROVE  ReportInv' /\ report' \in ReportRecord
  <1>p. PICK p : p = report.plan
    OBVIOUS
  <1>1. p \in Plan
    BY <1>p DEF ReportInv
  <1>r. PICK rows \in ReportRows :
          rows = {<<r, position[r].status>> :
                    r \in {q \in Row : planOf[q] = p /\ position[q].status # "none"}}
    <2>1. \A r \in Row : <<r, position[r].status>> \in Row \X {"none", "open", "closed"}
      BY DEF TypeOK, PositionRow
    <2>2. QED
      BY <2>1 DEF ReportRows
  <1>2. PICK s : s = [report EXCEPT !.rows = rows]
    OBVIOUS
  <1>s. /\ s \in ReportRecord /\ s.at = 3 /\ s.plan = p /\ s.status = report.status
        /\ s.filled = report.filled /\ s.guards = report.guards /\ s.rows = rows
    BY <1>p, <1>2 DEF ReportRecord
  <1>d. PICK said \in ReportEvents : said = Drifts(s)
    BY <1>s, WhatIsSaid DEF ReportEvents
  <1>t. report' = [s EXCEPT !.at = 4, !.events = said]
    <2>1. ReadPositionRows(report) = s
      BY <1>p, <1>r, <1>2 DEF ReadPositionRows
    <2>2. Reading[report.at] = "positions"
      BY Statements
    <2>3. report' = [s EXCEPT !.at = @ + 1,
                              !.events = IF s.at = Len(Reading) THEN Report(s) ELSE {}]
      BY <2>1, <2>2 DEF Read
    <2>4. QED
      BY <1>s, <1>d, <2>3, Statements DEF ReportRecord, Report
  <1>3. /\ report' \in ReportRecord
        /\ report'.at = 4 /\ report'.plan = p /\ report'.status = report.status
        /\ report'.filled = report.filled /\ report'.guards = report.guards
        /\ report'.events = said
    <2>1. PICK u : u = [s EXCEPT !.at = 4]
      OBVIOUS
    <2>2. /\ u \in ReportRecord /\ u.at = 4 /\ u.plan = p /\ u.status = report.status
          /\ u.filled = report.filled /\ u.guards = report.guards
      BY <1>s, <2>1 DEF ReportRecord
    <2>3. report' = [u EXCEPT !.events = said]
      BY <1>t, <2>1
    <2>4. QED
      BY <2>2, <2>3 DEF ReportRecord
  <1>5. /\ Critical(p)' = Critical(p) /\ planStatus' = planStatus
        /\ report'.plan = report.plan
    BY <1>p, <1>3 DEF vars, database, Critical, Traded, HasExecution, PaperRows, OrdersOf, KeyPlan,
           Executed, PartlyDone, OpenRows, ProtectionRows
  <1>6. ever' = ever \cup Critical(p) /\ always' = always \cap Critical(p)
    <2>1. ever' = ever \cup Critical(report.plan)' /\ always' = always \cap Critical(report.plan)'
      BY <1>3, Statements DEF Watch, InProgress
    <2>2. Critical(report.plan)' = Critical(p)'
      BY <1>p, <1>5
    <2>3. QED
      BY <1>5, <2>1, <2>2
  <1>7. ReadTraded' <=> ReadTraded
    BY <1>3 DEF ReadTraded
  <1>8. /\ "missing_filled_order" \in said <=> ReadTraded /\ ~report.filled
        /\ "missing_position_association" \in said <=> ReadTraded /\ rows = {}
        /\ "missing_exit_protection" \in said <=>
             /\ ReadTraded /\ report.guards < 2
             /\ {row \in rows : row[2] = "open"} # {}
    BY <1>s, <1>d, WhatIsSaid DEF ReadTraded
  <1>9. ReadTraded => rows # {}
    <2>1. ASSUME ReadTraded PROVE \E r \in Row : planOf[r] = p /\ position[r].status # "none"
      BY <1>p, <1>1, <2>1 DEF ReportInv, IInv, ExecutedIffPositioned
    <2>2. QED
      BY <1>r, <2>1
  <1>10. OpenRows(p) # {} => {row \in rows : row[2] = "open"} # {}
    <2>1. ASSUME NEW r \in OpenRows(p) PROVE <<r, "open">> \in rows
      <3>1. r \in {q \in Row : planOf[q] = p /\ position[q].status # "none"}
        BY DEF OpenRows
      <3>2. QED
        BY <1>r, <3>1 DEF OpenRows
    <2>2. \A r \in OpenRows(p) : <<r, "open">> \in {row \in rows : row[2] = "open"}
      BY <2>1
    <2>3. QED
      BY <2>2
  <1>11. DriftIsReal'
    BY <1>3, <1>6, <1>8, <1>9 DEF DriftIsReal, CriticalTypes, ReportInv
  <1>12. LastingDriftIsReported'
    <2>1. ASSUME NEW d \in always' PROVE d \in said
      <3>1. d \in {"missing_filled_order", "missing_exit_protection"} /\ ReadTraded
        BY <1>6, <2>1 DEF ReportInv, CriticalTypes
      <3>2. CASE d = "missing_filled_order"
        BY <1>6, <1>8, <2>1, <3>1, <3>2 DEF ReportInv
      <3>3. CASE d = "missing_exit_protection"
        BY <1>1, <1>6, <1>8, <1>10, <2>1, <3>1, <3>3, WhatIsMissing DEF ReportInv
      <3>4. QED
        BY <3>1, <3>2, <3>3
    <2>2. QED
      BY <1>3, <2>1 DEF LastingDriftIsReported
  <1>13. /\ always' \subseteq CriticalTypes \ {"missing_position_association"}
         /\ always' # {} => ReadTraded'
         /\ ReadTraded' => planStatus'[p] \in ExecutedStatus
    BY <1>p, <1>5, <1>6, <1>7 DEF ReportInv
  <1>14. /\ ReadTraded' /\ ~report'.filled => "missing_filled_order" \in ever'
         /\ ReadTraded' /\ report'.guards < 2 => "missing_exit_protection" \in ever'
         /\ "missing_filled_order" \in always' => ~report'.filled
         /\ "missing_exit_protection" \in always' => report'.guards < 2
    BY <1>3, <1>6, <1>7 DEF ReportInv
  <1>15. QED
    BY <1>1, <1>3, <1>11, <1>12, <1>13, <1>14, Statements DEF ReportInv

\* The invariant of a report beside the handlers of the core.
THEOREM ReportsInvariance ==
  ASSUME IsFiniteSet(Exec), IsFiniteSet(Sync)
  PROVE  ReportSpec => [](report \in ReportRecord /\ ReportInv)
  <1> DEFINE Inv == report \in ReportRecord /\ ReportInv
  <1>1. ReportInit => Inv
    <2> SUFFICES ASSUME ReportInit PROVE Inv
      OBVIOUS
    <2>1. report = NoReport /\ report.at = 1
      BY DEF ReportInit, NoReport
    <2>2. report \in ReportRecord
      BY <2>1 DEF NoReport, ReportRecord, ReportRows, ReportEvents, PlanStatus
    <2>3. ReportInv
      BY <2>1, Statements DEF ReportInv, DriftIsReal, LastingDriftIsReported, Done
    <2>4. QED
      BY <2>2, <2>3
  <1>2. TypeOK /\ IInv /\ TablesInv /\ Inv /\ [ReportNext]_reportVars => Inv'
    <2> SUFFICES ASSUME TypeOK, IInv, TablesInv, Inv, [ReportNext]_reportVars
                 PROVE  Inv'
      OBVIOUS
    <2>1. CASE Next /\ UNCHANGED report /\ Watch
      BY <2>1, HandlerReport
    <2>2. ASSUME NEW p \in Plan, Open(p), UNCHANGED vars, Watch PROVE Inv'
      BY <2>2, OpenReport
    <2>3. CASE Read /\ UNCHANGED vars /\ Watch
      <3>1. report.at \in {1, 2, 3}
        BY <2>3, Statements DEF Read, ReportRecord
      <3>2. QED
        BY <2>3, <3>1, ReadPlan, ReadOrders, ReadPositions
    <2>4. CASE UNCHANGED reportVars
      BY <2>4, HandlerReport DEF reportVars
    <2>5. QED
      BY <2>1, <2>2, <2>3, <2>4 DEF ReportNext
  <1>3. ReportSpec => []TypeOK /\ []IInv /\ []TablesInv
    BY ReportOnlyReads, TypeCorrect, Invariance, TablesAgree, PTL
  <1>4. QED
    BY <1>1, <1>2, <1>3, PTL DEF ReportSpec

\* A critical drift in the report of reconcile_trade_plan was there at some
\* moment while it read, although every statement it read with saw another
\* state of the tables.
THEOREM ReportedDriftIsReal ==
  ASSUME IsFiniteSet(Exec), IsFiniteSet(Sync)
  PROVE  ReportSpec => []DriftIsReal
  <1>1. ReportInv => DriftIsReal
    BY DEF ReportInv
  <1>2. QED
    BY <1>1, ReportsInvariance, PTL

\* A critical drift that was there from the first read of
\* reconcile_trade_plan to the last is in its report.
THEOREM LastingDriftIsSeen ==
  ASSUME IsFiniteSet(Exec), IsFiniteSet(Sync)
  PROVE  ReportSpec => []LastingDriftIsReported
  <1>1. ReportInv => LastingDriftIsReported
    BY DEF ReportInv
  <1>2. QED
    BY <1>1, ReportsInvariance, PTL
=============================================================================
