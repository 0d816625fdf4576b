--------------------------- MODULE TradingSteps ---------------------------
(***************************************************************************)
(* The inductive invariant of TestnetTrading is preserved.  First the      *)
(* frames: what no step takes back, what a step leaves alone of the        *)
(* requests that do not take it, and the invariant assembled from the two. *)
(* Then one lemma per action, which names the effect of the action first   *)
(* (<1>1), and uses nothing else of it after that.                         *)
(***************************************************************************)
EXTENDS TestnetTrading, TLAPS

\* The orders of a request are order keys.
LEMMA Keys ==
  /\ \A e \in Exec : /\ <<e, "entry">> \in OrderKey
                     /\ <<e, "stop">> \in OrderKey
                     /\ <<e, "tp">> \in OrderKey
                     /\ <<e, "orphan">> \in OrderKey
  /\ \A s \in Sync : <<s, "exit">> \in OrderKey
  BY DEF OrderKey

\* An order key names an order of an execution or the exit of a synchronisation.
LEMMA KeyCases ==
  ASSUME NEW k \in OrderKey
  PROVE  /\ k[1] \in Exec \cup Sync
         /\ k[1] \in Exec => k \in {<<k[1], "entry">>, <<k[1], "stop">>, <<k[1], "tp">>, <<k[1], "orphan">>}
         /\ k[1] \in Sync => k = <<k[1], "exit">>
  BY ConstantsAssumption DEF OrderKey

(* What no step takes back. *)

\* A plan is blocked before a step exactly when it is after.
PlansStable ==
  \A p \in Plan : planStatus'[p] = "blocked" <=> planStatus[p] = "blocked"

\* An order stays in the book with its plan, its end is final, its row stays.
OrdersStable ==
  \A k \in OrderKey :
    /\ book[k] # "absent" => book'[k] # "absent" /\ planOf'[k[1]] = planOf[k[1]]
    /\ book[k] \in Terminal => book'[k] = book[k]
    /\ orders[k] # "absent" => orders'[k] # "absent"

\* A position row stays, and stays with its plan.
RowsStable ==
  \A r \in Row : position[r].status # "none" =>
    position'[r].status # "none" /\ planOf'[r] = planOf[r]

Stable == PlansStable /\ OrdersStable /\ RowsStable

-----------------------------------------------------------------------------
(* What a step leaves alone of a request that does not take it. *)

EntryFrame(e) ==
  /\ pc'[e] = pc[e] /\ planOf'[e] = planOf[e] /\ view'[e] = view[e] /\ fill'[e] = fill[e]
  /\ position'[e].status = "none" <=> position[e].status = "none"
  /\ \A kind \in {"entry", "stop", "tp", "orphan"} :
       /\ book'[<<e, kind>>] = "absent" <=> book[<<e, kind>>] = "absent"
       /\ orders'[<<e, kind>>] = "absent" <=> orders[<<e, kind>>] = "absent"

PaperFrame(r) ==
  /\ pc'[r] = pc[r] /\ planOf'[r] = planOf[r]
  /\ position'[r].status = "none" <=> position[r].status = "none"

SyncFrame(s) ==
  /\ pc'[s] = pc[s] /\ planOf'[s] = planOf[s] /\ target'[s] = target[s]
  /\ loaded'[s] = loaded[s] /\ seen'[s] = seen[s]
  /\ book'[<<s, "exit">>] = "absent" <=> book[<<s, "exit">>] = "absent"
  /\ orders'[<<s, "exit">>] = "absent" <=> orders[<<s, "exit">>] = "absent"

-----------------------------------------------------------------------------
(* The parts of the invariant, each from what a step leaves alone. *)

\* An execution keeps its invariant through a step that is not its own.
LEMMA EntryKept ==
  ASSUME NEW e \in Exec, TypeOK, EntryInv(e), ViewInv(e), Stable, EntryFrame(e)
  PROVE  EntryInv(e)' /\ ViewInv(e)'
  <1>1. EntryInv(e)'
    BY Keys DEF EntryInv, Stable, PlansStable, OrdersStable, EntryFrame, Terminal
  <1>2. ViewInv(e)'
    BY Keys DEF ViewInv, Stable, OrdersStable, EntryFrame
  <1>3. QED BY <1>1, <1>2

\* A paper execution keeps its invariant through a step that is not its own.
LEMMA PaperKept ==
  ASSUME NEW r \in Paper, PaperInv(r), Stable, PaperFrame(r)
  PROVE  PaperInv(r)'
  BY DEF PaperInv, Stable, PlansStable, PaperFrame

\* A synchronisation keeps its invariant through a step that is not its own.
LEMMA SyncKept ==
  ASSUME NEW s \in Sync, SyncInv(s), Stable, SyncFrame(s)
  PROVE  SyncInv(s)'
  BY Keys DEF SyncInv, Stable, RowsStable, SyncFrame

\* What a synchronisation has read stays true while others move on.
LEMMA ReadKept ==
  ASSUME NEW s \in Sync, ReadInv(s), RowsNeverAhead, Stable,
         pc'[s] = pc[s], planOf'[s] = planOf[s], loaded'[s] = loaded[s], seen'[s] = seen[s]
  PROVE  ReadInv(s)'
  BY DEF ReadInv, KeyPlan, Stable, OrdersStable, RowsNeverAhead

\* A step that writes no order row keeps the table behind the exchange.
LEMMA RowsKept ==
  ASSUME RowsNeverAhead, Stable, UNCHANGED orders
  PROVE  RowsNeverAhead'
  BY DEF RowsNeverAhead, Stable, OrdersStable, Terminal

\* A step that closes no position keeps the fill behind each closed one.
LEMMA ClosedKept ==
  ASSUME ClosedByFill, Stable,
         \A r \in Row : position'[r].status = "closed" => position[r].status = "closed"
  PROVE  ClosedByFill'
  <1> SUFFICES ASSUME NEW r \in Row, position'[r].status = "closed"
               PROVE  (\E k \in ExitOf(planOf[r]) : book[k] = "filled")'
    BY DEF ClosedByFill
  <1>1. PICK k \in ExitOf(planOf[r]) : book[k] = "filled"
    BY DEF ClosedByFill
  <1>2. (k \in ExitOf(planOf[r]))' /\ book'[k] = "filled"
    BY <1>1 DEF ExitOf, KeyPlan, Stable, OrdersStable, RowsStable, Terminal
  <1>3. QED BY <1>2

\* A step that writes no plan and opens no row keeps the two in agreement.
LEMMA ExecutedKept ==
  ASSUME ExecutedIffPositioned, Stable, UNCHANGED planStatus,
         \A r \in Row : position'[r].status = "none" <=> position[r].status = "none"
  PROVE  ExecutedIffPositioned'
  BY DEF ExecutedIffPositioned, Stable, RowsStable

\* The statuses, spelled out for the solver.
LEMMA Statuses ==
  /\ Status = {"absent", "new", "partially_filled", "filled", "canceled", "expired"}
  /\ Terminal = {"filled", "canceled", "expired"}
  /\ Live = {"new", "partially_filled"}
  BY DEF Status, OrderStatus, Live, Terminal

\* An execution that has sent nothing has no row and no order.
LEMMA Unsent ==
  ASSUME NEW e \in Exec, EntryInv(e), RowsNeverAhead, pc[e] \in {"idle", "checked"}
  PROVE  /\ position[e].status = "none"
         /\ \A k \in OrderKey : k[1] = e => book[k] = "absent" /\ orders[k] = "absent"
  <1>1. position[e].status = "none"
    BY DEF EntryInv
  <1>2. ASSUME NEW k \in OrderKey, k[1] = e
        PROVE  book[k] = "absent" /\ orders[k] = "absent"
    <2>1. k \in {<<e, "entry">>, <<e, "stop">>, <<e, "tp">>, <<e, "orphan">>}
      BY <1>2, KeyCases
    <2>2. book[k] = "absent"
      BY <2>1 DEF EntryInv
    <2>3. QED
      BY <2>2 DEF RowsNeverAhead
  <1>3. QED
    BY <1>1, <1>2

\* The invariant from its parts, after a step of the execution e.
LEMMA EntryStep ==
  ASSUME NEW e \in Exec, TypeOK, IInv, Stable, EntryInv(e)', ViewInv(e)',
         \A f \in Exec \ {e} : EntryFrame(f),
         \A q \in Paper : PaperFrame(q),
         \A s \in Sync : SyncFrame(s),
         RowsNeverAhead', ClosedByFill', ExecutedIffPositioned'
  PROVE  IInv'
  <1>1. \A f \in Exec : EntryInv(f)' /\ ViewInv(f)'
    BY EntryKept DEF IInv
  <1>2. \A q \in Paper : PaperInv(q)'
    BY PaperKept DEF IInv
  <1>3. \A s \in Sync : SyncInv(s)' /\ ReadInv(s)'
    BY SyncKept, ReadKept DEF IInv, SyncFrame
  <1>4. QED
    BY <1>1, <1>2, <1>3 DEF IInv

\* The invariant from its parts, after a step of the paper execution r.
LEMMA PaperStep ==
  ASSUME NEW r \in Paper, TypeOK, IInv, Stable, PaperInv(r)',
         \A f \in Exec : EntryFrame(f),
         \A q \in Paper \ {r} : PaperFrame(q),
         \A s \in Sync : SyncFrame(s),
         RowsNeverAhead', ClosedByFill', ExecutedIffPositioned'
  PROVE  IInv'
  <1>1. \A f \in Exec : EntryInv(f)' /\ ViewInv(f)'
    BY EntryKept DEF IInv
  <1>2. \A q \in Paper : PaperInv(q)'
    BY PaperKept DEF IInv
  <1>3. \A s \in Sync : SyncInv(s)' /\ ReadInv(s)'
    BY SyncKept, ReadKept DEF IInv, SyncFrame
  <1>4. QED
    BY <1>1, <1>2, <1>3 DEF IInv

\* The invariant from its parts, after a step of the synchronisation s.
LEMMA SyncStep ==
  ASSUME NEW s \in Sync, TypeOK, IInv, Stable, SyncInv(s)', ReadInv(s)',
         \A f \in Exec : EntryFrame(f),
         \A q \in Paper : PaperFrame(q),
         \A t \in Sync \ {s} : SyncFrame(t),
         RowsNeverAhead', ClosedByFill', ExecutedIffPositioned'
  PROVE  IInv'
  <1>1. \A f \in Exec : EntryInv(f)' /\ ViewInv(f)'
    BY EntryKept DEF IInv
  <1>2. \A q \in Paper : PaperInv(q)'
    BY PaperKept DEF IInv
  <1>3. \A t \in Sync : SyncInv(t)' /\ ReadInv(t)'
    BY SyncKept, ReadKept DEF IInv, SyncFrame
  <1>4. QED
    BY <1>1, <1>2, <1>3 DEF IInv

\* The invariant from its parts, after a step of the exchange.
LEMMA ExchangeStep ==
  ASSUME TypeOK, IInv, OrdersStable,
         UNCHANGED <<planStatus, position, orders, pc, planOf, view, target, loaded, seen>>,
         \A e \in Exec : EntryInv(e)' /\ ViewInv(e)',
         \A s \in Sync : book'[<<s, "exit">>] = "absent" <=> book[<<s, "exit">>] = "absent"
  PROVE  IInv' /\ Stable
  <1>1. Stable
    BY DEF Stable, PlansStable, RowsStable
  <1>2. \A q \in Paper : PaperInv(q)'
    BY <1>1, PaperKept DEF IInv, PaperFrame
  <1>3. \A s \in Sync : SyncInv(s)' /\ ReadInv(s)'
    BY <1>1, SyncKept, ReadKept DEF IInv, SyncFrame
  <1>4. RowsNeverAhead' /\ ClosedByFill' /\ ExecutedIffPositioned'
    BY <1>1, RowsKept, ClosedKept, ExecutedKept DEF IInv
  <1>5. QED
    BY <1>1, <1>2, <1>3, <1>4 DEF IInv

\* An order that stays in the book, in a status that is not behind.
LEMMA OrderMoves ==
  ASSUME TypeOK, IInv, NEW k \in OrderKey, book[k] \in Live, book'[k] # "absent",
         \A j \in OrderKey \ {k} : book'[j] = book[j],
         \A e \in Exec : fill'[e] = fill[e],
         UNCHANGED <<planStatus, position, orders, pc, planOf, view, target, loaded, seen>>
  PROVE  IInv' /\ Stable
  <1>1. OrdersStable
    BY Statuses DEF OrdersStable
  <1>2. \A j \in OrderKey : book'[j] = "absent" <=> book[j] = "absent"
    BY Statuses
  <1>3. \A e \in Exec : EntryInv(e)' /\ ViewInv(e)'
    <2>1. Stable
      BY <1>1 DEF Stable, PlansStable, RowsStable
    <2>2. \A e \in Exec : EntryFrame(e)
      BY <1>2, Keys DEF EntryFrame
    <2>3. QED
      BY <2>1, <2>2, EntryKept DEF IInv
  <1>4. QED
    BY <1>1, <1>2, <1>3, Keys, ExchangeStep

-----------------------------------------------------------------------------
(* Executions. *)

\* The guards of execute_trade_plan preserve the invariant.
LEMMA CheckPlanInductive ==
  ASSUME TypeOK, IInv, NEW e \in Exec, NEW p \in Plan, CheckPlan(e, p)
  PROVE  TypeOK' /\ IInv' /\ Stable
  <1>1. /\ e \in Request
        /\ pc[e] = "idle" /\ pc'[e] = "checked" /\ planOf'[e] = p /\ planStatus[p] = "approved"
        /\ \A q \in Request \ {e} : pc'[q] = pc[q] /\ planOf'[q] = planOf[q]
        /\ UNCHANGED <<planStatus, position, orders, book, fill, view, target, loaded, seen>>
    BY ConstantsAssumption, Keys DEF CheckPlan, TypeOK, Request, Row, database, exchange, reads
  <1>2. EntryInv(e) /\ ViewInv(e) /\ RowsNeverAhead
    BY DEF IInv
  <1>3. TypeOK'
    BY DEF CheckPlan, TypeOK, EntryPc, PaperPc, SyncPc, Request, Row, database, exchange, reads
  <1>4. Stable
    <2>1. PlansStable
      BY <1>1 DEF PlansStable
    <2>2. OrdersStable
      BY <1>1, <1>2, Unsent, KeyCases DEF OrdersStable, Request
    <2>3. RowsStable
      BY <1>1, <1>2, Unsent DEF RowsStable, Row, Request
    <2>4. QED
      BY <2>1, <2>2, <2>3 DEF Stable
  <1>5. EntryInv(e)' /\ ViewInv(e)'
    <2>1. EntryInv(e)'
      BY <1>1, <1>2, ConstantsAssumption DEF EntryInv, EntryPc
    <2>2. ViewInv(e)'
      BY <1>1 DEF ViewInv
    <2>3. QED
      BY <2>1, <2>2
  <1>6. \A f \in Exec \ {e} : EntryFrame(f)
    BY <1>1, ConstantsAssumption, Keys DEF EntryFrame, Request, Row
  <1>7. \A q \in Paper : PaperFrame(q)
    BY <1>1, ConstantsAssumption DEF PaperFrame, Request, Row
  <1>8. \A s \in Sync : SyncFrame(s)
    BY <1>1, ConstantsAssumption, Keys DEF SyncFrame, Request
  <1>9. RowsNeverAhead'
    BY <1>1, <1>2, <1>4, RowsKept
  <1>10. ClosedByFill'
    BY <1>1, <1>4, ClosedKept DEF IInv
  <1>11. ExecutedIffPositioned'
    BY <1>1, <1>4, ExecutedKept DEF IInv
  <1>12. QED
    BY <1>3, <1>4, <1>5, <1>6, <1>7, <1>8, <1>9, <1>10, <1>11, EntryStep

\* An execution that returns before sending its order preserves the invariant.
LEMMA GiveUpEntryInductive ==
  ASSUME TypeOK, IInv, NEW e \in Exec, GiveUpEntry(e)
  PROVE  TypeOK' /\ IInv' /\ Stable
  <1>1. /\ e \in Request
        /\ pc[e] = "checked" /\ pc'[e] = "idle" /\ planOf'[e] = None
        /\ \A q \in Request \ {e} : pc'[q] = pc[q] /\ planOf'[q] = planOf[q]
        /\ UNCHANGED <<planStatus, position, orders, book, fill, view, target, loaded, seen>>
    BY ConstantsAssumption, Keys DEF GiveUpEntry, TypeOK, Request, Row, database, exchange, reads
  <1>2. EntryInv(e) /\ ViewInv(e) /\ RowsNeverAhead
    BY DEF IInv
  <1>3. TypeOK'
    BY DEF GiveUpEntry, TypeOK, EntryPc, PaperPc, SyncPc, Request, Row, database, exchange, reads
  <1>4. Stable
    <2>1. PlansStable
      BY <1>1 DEF PlansStable
    <2>2. OrdersStable
      BY <1>1, <1>2, Unsent, KeyCases DEF OrdersStable, Request
    <2>3. RowsStable
      BY <1>1, <1>2, Unsent DEF RowsStable, Row, Request
    <2>4. QED
      BY <2>1, <2>2, <2>3 DEF Stable
  <1>5. EntryInv(e)' /\ ViewInv(e)'
    <2>1. EntryInv(e)'
      BY <1>1, <1>2, ConstantsAssumption DEF EntryInv, EntryPc
    <2>2. ViewInv(e)'
      BY <1>1 DEF ViewInv
    <2>3. QED
      BY <2>1, <2>2
  <1>6. \A f \in Exec \ {e} : EntryFrame(f)
    BY <1>1, ConstantsAssumption, Keys DEF EntryFrame, Request, Row
  <1>7. \A q \in Paper : PaperFrame(q)
    BY <1>1, ConstantsAssumption DEF PaperFrame, Request, Row
  <1>8. \A s \in Sync : SyncFrame(s)
    BY <1>1, ConstantsAssumption, Keys DEF SyncFrame, Request
  <1>9. RowsNeverAhead'
    BY <1>1, <1>2, <1>4, RowsKept
  <1>10. ClosedByFill'
    BY <1>1, <1>4, ClosedKept DEF IInv
  <1>11. ExecutedIffPositioned'
    BY <1>1, <1>4, ExecutedKept DEF IInv
  <1>12. QED
    BY <1>3, <1>4, <1>5, <1>6, <1>7, <1>8, <1>9, <1>10, <1>11, EntryStep

\* Sending the entry preserves the invariant, answered or not.
LEMMA PlaceEntryInductive ==
  ASSUME TypeOK, IInv, NEW e \in Exec, PlaceEntry(e)
  PROVE  TypeOK' /\ IInv' /\ Stable
  <1>1. /\ e \in Request
        /\ pc[e] = "checked" /\ pc'[e] \in {"placed", "failed"}
        /\ \A q \in Request \ {e} : pc'[q] = pc[q]
        /\ book'[<<e, "entry">>] = "new"
        /\ \A k \in OrderKey \ {<<e, "entry">>} : book'[k] = book[k]
        /\ UNCHANGED <<planStatus, position, orders, fill, planOf, view, target, loaded, seen>>
    BY ConstantsAssumption, Keys DEF PlaceEntry, TypeOK, Request, Row, database, exchange, reads
  <1>2. EntryInv(e) /\ ViewInv(e) /\ RowsNeverAhead
    BY DEF IInv
  <1>3. TypeOK'
    BY Keys, Statuses DEF PlaceEntry, TypeOK, EntryPc, PaperPc, SyncPc, Request, Row, database, exchange, reads
  <1>4. Stable
    <2>1. PlansStable
      BY <1>1 DEF PlansStable
    <2>2. OrdersStable
      BY <1>1, <1>2, Unsent, Statuses, Keys DEF OrdersStable
    <2>3. RowsStable
      BY <1>1 DEF RowsStable
    <2>4. QED
      BY <2>1, <2>2, <2>3 DEF Stable
  <1>5. EntryInv(e)' /\ ViewInv(e)'
    <2>1. EntryInv(e)'
      <3>1. Qty[planOf[e]] > 0
        BY <1>1, <1>2, ConstantsAssumption DEF EntryInv
      <3>2. QED
        BY <1>1, <1>2, <3>1, Keys DEF EntryInv, EntryPc
    <2>2. ViewInv(e)'
      BY <1>1 DEF ViewInv
    <2>3. QED
      BY <2>1, <2>2
  <1>6. \A f \in Exec \ {e} : EntryFrame(f)
    BY <1>1, ConstantsAssumption, Keys DEF EntryFrame, Request, Row
  <1>7. \A q \in Paper : PaperFrame(q)
    BY <1>1, ConstantsAssumption DEF PaperFrame, Request, Row
  <1>8. \A s \in Sync : SyncFrame(s)
    BY <1>1, ConstantsAssumption, Keys DEF SyncFrame, Request
  <1>9. RowsNeverAhead'
    BY <1>1, <1>2, <1>4, RowsKept
  <1>10. ClosedByFill'
    BY <1>1, <1>4, ClosedKept DEF IInv
  <1>11. ExecutedIffPositioned'
    BY <1>1, <1>4, ExecutedKept DEF IInv
  <1>12. QED
    BY <1>3, <1>4, <1>5, <1>6, <1>7, <1>8, <1>9, <1>10, <1>11, EntryStep

\* Reading the entry back preserves the invariant.
LEMMA ConfirmEntryInductive ==
  ASSUME TypeOK, IInv, NEW e \in Exec, ConfirmEntry(e)
  PROVE  TypeOK' /\ IInv' /\ Stable
  <1>1. /\ e \in Request
        /\ pc[e] = "placed" /\ pc'[e] = "confirmed"
        /\ \A q \in Request \ {e} : pc'[q] = pc[q]
        /\ view'[e].status \in {"new", "partially_filled", book[<<e, "entry">>]}
        /\ view'[e].qty \in 0 .. fill[e]
        /\ \A f \in Exec \ {e} : view'[f] = view[f]
        /\ UNCHANGED <<planStatus, position, orders, book, fill, planOf, target, loaded, seen>>
    BY ConstantsAssumption, Keys DEF ConfirmEntry, Claims, TypeOK, Request, Row, database, exchange,
       reads
  <1>2. EntryInv(e) /\ ViewInv(e) /\ RowsNeverAhead
    BY DEF IInv
  <1>3. TypeOK'
    <2>1. PICK answer \in Claims(e) : view' = [view EXCEPT ![e] = answer]
      BY DEF ConfirmEntry
    <2>a. /\ book[<<e, "entry">>] \in Status /\ fill[e] \in Nat
          /\ "new" \in Status /\ "partially_filled" \in Status
      BY Keys, Statuses DEF TypeOK
    <2>b. answer \in [status : Status, qty : Nat]
      BY <2>1, <2>a DEF Claims
    <2>2. QED
      BY <2>1, <2>b DEF ConfirmEntry, TypeOK, EntryPc, PaperPc, SyncPc, Request, database, exchange, reads
  <1>4. Stable
    <2>1. PlansStable
      BY <1>1 DEF PlansStable
    <2>2. OrdersStable
      BY <1>1 DEF OrdersStable
    <2>3. RowsStable
      BY <1>1 DEF RowsStable
    <2>4. QED
      BY <2>1, <2>2, <2>3 DEF Stable
  <1>5. EntryInv(e)' /\ ViewInv(e)'
    <2>1. EntryInv(e)'
      BY <1>1, <1>2, ConstantsAssumption DEF EntryInv, EntryPc
    <2>2. ViewInv(e)'
      <3>1. fill[e] \in Nat
        BY DEF TypeOK
      <3>2. QED
        BY <1>1, <1>2, <3>1, Statuses DEF ViewInv, EntryInv
    <2>3. QED
      BY <2>1, <2>2
  <1>6. \A f \in Exec \ {e} : EntryFrame(f)
    BY <1>1, ConstantsAssumption, Keys DEF EntryFrame, Request, Row
  <1>7. \A q \in Paper : PaperFrame(q)
    BY <1>1, ConstantsAssumption DEF PaperFrame, Request, Row
  <1>8. \A s \in Sync : SyncFrame(s)
    BY <1>1, ConstantsAssumption, Keys DEF SyncFrame, Request
  <1>9. RowsNeverAhead'
    BY <1>1, <1>2, <1>4, RowsKept
  <1>10. ClosedByFill'
    BY <1>1, <1>4, ClosedKept DEF IInv
  <1>11. ExecutedIffPositioned'
    BY <1>1, <1>4, ExecutedKept DEF IInv
  <1>12. QED
    BY <1>3, <1>4, <1>5, <1>6, <1>7, <1>8, <1>9, <1>10, <1>11, EntryStep

\* The userTrades lookup preserves the invariant.
LEMMA PriceEntryInductive ==
  ASSUME TypeOK, IInv, NEW e \in Exec, PriceEntry(e)
  PROVE  TypeOK' /\ IInv' /\ Stable
  <1>1. /\ e \in Request
        /\ pc[e] = "confirmed" /\ pc'[e] = "priced"
        /\ \A q \in Request \ {e} : pc'[q] = pc[q]
        /\ view'[e].status = view[e].status
        /\ view'[e].qty = view[e].qty \/ view'[e].qty \in 1 .. fill[e]
        /\ \A f \in Exec \ {e} : view'[f] = view[f]
        /\ UNCHANGED <<planStatus, position, orders, book, fill, planOf, target, loaded, seen>>
    <2>1. view[e] \in [status : Status, qty : Nat] /\ view \in [Exec -> [status : Status, qty : Nat]]
      BY DEF TypeOK
    <2>2. \/ UNCHANGED view
          \/ \E q \in 1 .. fill[e] : view' = [view EXCEPT ![e] = [@ EXCEPT !.qty = q]]
      BY DEF PriceEntry
    <2>3. /\ view'[e].status = view[e].status
          /\ view'[e].qty = view[e].qty \/ view'[e].qty \in 1 .. fill[e]
          /\ \A f \in Exec \ {e} : view'[f] = view[f]
      BY <2>1, <2>2
    <2>4. QED
      BY <2>3 DEF PriceEntry, TypeOK, Request, database, exchange, reads
  <1>2. EntryInv(e) /\ ViewInv(e) /\ RowsNeverAhead
    BY DEF IInv
  <1>3. TypeOK'
    <2>1. view' \in [Exec -> [status : Status, qty : Nat]]
      <3>1. ASSUME NEW q \in 1 .. fill[e], view' = [view EXCEPT ![e].qty = q]
            PROVE  view' \in [Exec -> [status : Status, qty : Nat]]
        <4>1. q \in Nat /\ view[e] \in [status : Status, qty : Nat]
          BY DEF TypeOK
        <4>2. [view[e] EXCEPT !.qty = q] \in [status : Status, qty : Nat]
          BY <4>1
        <4>3. QED
          BY <3>1, <4>2 DEF TypeOK
      <3>2. CASE UNCHANGED view
        BY <3>2 DEF TypeOK
      <3>3. QED
        BY <3>1, <3>2 DEF PriceEntry
    <2>2. QED
      BY <2>1 DEF PriceEntry, TypeOK, EntryPc, PaperPc, SyncPc, Request, database, exchange, reads
  <1>4. Stable
    <2>1. PlansStable
      BY <1>1 DEF PlansStable
    <2>2. OrdersStable
      BY <1>1 DEF OrdersStable
    <2>3. RowsStable
      BY <1>1 DEF RowsStable
    <2>4. QED
      BY <2>1, <2>2, <2>3 DEF Stable
  <1>5. EntryInv(e)' /\ ViewInv(e)'
    <2>1. EntryInv(e)'
      BY <1>1, <1>2, ConstantsAssumption DEF EntryInv, EntryPc
    <2>2. ViewInv(e)'
      <3>1. fill[e] \in Nat
        BY DEF TypeOK
      <3>2. QED
        BY <1>1, <1>2, <3>1 DEF ViewInv
    <2>3. QED
      BY <2>1, <2>2
  <1>6. \A f \in Exec \ {e} : EntryFrame(f)
    BY <1>1, ConstantsAssumption, Keys DEF EntryFrame, Request, Row
  <1>7. \A q \in Paper : PaperFrame(q)
    BY <1>1, ConstantsAssumption DEF PaperFrame, Request, Row
  <1>8. \A s \in Sync : SyncFrame(s)
    BY <1>1, ConstantsAssumption, Keys DEF SyncFrame, Request
  <1>9. RowsNeverAhead'
    BY <1>1, <1>2, <1>4, RowsKept
  <1>10. ClosedByFill'
    BY <1>1, <1>4, ClosedKept DEF IInv
  <1>11. ExecutedIffPositioned'
    BY <1>1, <1>4, ExecutedKept DEF IInv
  <1>12. QED
    BY <1>3, <1>4, <1>5, <1>6, <1>7, <1>8, <1>9, <1>10, <1>11, EntryStep

\* Placing the protection orders preserves the invariant.
LEMMA ProtectInductive ==
  ASSUME TypeOK, IInv, NEW e \in Exec, Protect(e)
  PROVE  TypeOK' /\ IInv' /\ Stable
  <1>1. /\ e \in Request
        /\ pc[e] = "priced"
        /\ \/ /\ pc'[e] = "protected"
              /\ book'[<<e, "stop">>] = "new" /\ book'[<<e, "tp">>] = "new"
           \/ /\ pc'[e] = "bare"
              /\ book'[<<e, "stop">>] = book[<<e, "stop">>]
              /\ book'[<<e, "tp">>] = book[<<e, "tp">>]
        /\ \A q \in Request \ {e} : pc'[q] = pc[q]
        /\ book'[<<e, "orphan">>] \in {"new", book[<<e, "orphan">>]}
        /\ book'[<<e, "entry">>] = book[<<e, "entry">>]
        /\ \A k \in OrderKey : k[1] # e => book'[k] = book[k]
        /\ UNCHANGED <<planStatus, position, orders, fill, planOf, view, target, loaded, seen>>
    <2>1. PICK recorded, orphaned \in BOOLEAN :
           /\ pc' = [pc EXCEPT ![e] = IF recorded THEN "protected" ELSE "bare"]
           /\ book' = [k \in OrderKey |->
                IF \/ recorded /\ k \in ProtectionPair(e)
                   \/ orphaned /\ k = <<e, "orphan">>
                THEN "new" ELSE book[k]]
      BY DEF Protect
    <2>2. \A k \in OrderKey : k[1] # e => book'[k] = book[k]
      BY <2>1 DEF ProtectionPair
    <2>3. /\ book'[<<e, "orphan">>] \in {"new", book[<<e, "orphan">>]}
          /\ book'[<<e, "entry">>] = book[<<e, "entry">>]
      BY <2>1, Keys DEF ProtectionPair
    <2>4. IF recorded THEN book'[<<e, "stop">>] = "new" /\ book'[<<e, "tp">>] = "new"
          ELSE book'[<<e, "stop">>] = book[<<e, "stop">>] /\ book'[<<e, "tp">>] = book[<<e, "tp">>]
      BY <2>1, Keys DEF ProtectionPair
    <2>5. pc[e] = "priced" /\ pc'[e] = IF recorded THEN "protected" ELSE "bare"
      BY <2>1 DEF Protect, TypeOK, Request
    <2>6. QED
      BY <2>1, <2>2, <2>3, <2>4, <2>5 DEF Protect, TypeOK, Request, database, reads
  <1>2. EntryInv(e) /\ ViewInv(e) /\ RowsNeverAhead
    BY DEF IInv
  <1>3. TypeOK'
    <2>1. book' \in [OrderKey -> Status]
      BY Keys, Statuses DEF Protect, TypeOK, ProtectionPair
    <2>2. QED
      BY <2>1 DEF Protect, TypeOK, EntryPc, PaperPc, SyncPc, Request, database, exchange, reads
  <1>4. Stable
    <2>1. PlansStable
      BY <1>1 DEF PlansStable
    <2>2. OrdersStable
      <3>1. ASSUME NEW k \in OrderKey, k[1] = e
            PROVE  book[k] # "absent" => k = <<e, "entry">>
        BY <1>1, <1>2, <3>1, KeyCases DEF EntryInv
      <3>2. ASSUME NEW k \in OrderKey, book[k] # "absent"
            PROVE  book'[k] = book[k]
        BY <1>1, <3>1, <3>2
      <3>3. QED
        BY <1>1, <3>2, Statuses DEF OrdersStable
    <2>3. RowsStable
      BY <1>1 DEF RowsStable
    <2>4. QED
      BY <2>1, <2>2, <2>3 DEF Stable
  <1>5. EntryInv(e)' /\ ViewInv(e)'
    <2>1. EntryInv(e)'
      BY <1>1, <1>2, ConstantsAssumption DEF EntryInv, EntryPc
    <2>2. ViewInv(e)'
      BY <1>1, <1>2 DEF ViewInv
    <2>3. QED
      BY <2>1, <2>2
  <1>6. \A f \in Exec \ {e} : EntryFrame(f)
    BY <1>1, ConstantsAssumption, Keys DEF EntryFrame, Request, Row
  <1>7. \A q \in Paper : PaperFrame(q)
    BY <1>1, ConstantsAssumption DEF PaperFrame, Request, Row
  <1>8. \A s \in Sync : SyncFrame(s)
    BY <1>1, ConstantsAssumption, Keys DEF SyncFrame, Request
  <1>9. RowsNeverAhead'
    BY <1>1, <1>2, <1>4, RowsKept
  <1>10. ClosedByFill'
    BY <1>1, <1>4, ClosedKept DEF IInv
  <1>11. ExecutedIffPositioned'
    BY <1>1, <1>4, ExecutedKept DEF IInv
  <1>12. QED
    BY <1>3, <1>4, <1>5, <1>6, <1>7, <1>8, <1>9, <1>10, <1>11, EntryStep

\* An execution that dies preserves the invariant.
LEMMA CrashEntryInductive ==
  ASSUME TypeOK, IInv, NEW e \in Exec, CrashEntry(e)
  PROVE  TypeOK' /\ IInv' /\ Stable
  <1>1. /\ e \in Request
        /\ pc[e] \in {"placed", "confirmed", "priced", "protected", "bare"} /\ pc'[e] = "failed"
        /\ \A q \in Request \ {e} : pc'[q] = pc[q]
        /\ \A f \in Exec \ {e} : view'[f] = view[f]
        /\ UNCHANGED <<planStatus, position, orders, book, fill, planOf, target, loaded, seen>>
    BY ConstantsAssumption, Keys DEF CrashEntry, TypeOK, Request, Row, database, exchange, reads
  <1>2. EntryInv(e) /\ ViewInv(e) /\ RowsNeverAhead
    BY DEF IInv
  <1>3. TypeOK'
    BY Statuses DEF CrashEntry, NoView, TypeOK, EntryPc, PaperPc, SyncPc, Request, database, exchange, reads
  <1>4. Stable
    <2>1. PlansStable
      BY <1>1 DEF PlansStable
    <2>2. OrdersStable
      BY <1>1 DEF OrdersStable
    <2>3. RowsStable
      BY <1>1 DEF RowsStable
    <2>4. QED
      BY <2>1, <2>2, <2>3 DEF Stable
  <1>5. EntryInv(e)' /\ ViewInv(e)'
    <2>1. EntryInv(e)'
      BY <1>1, <1>2, ConstantsAssumption DEF EntryInv, EntryPc
    <2>2. ViewInv(e)'
      BY <1>1 DEF ViewInv
    <2>3. QED
      BY <2>1, <2>2
  <1>6. \A f \in Exec \ {e} : EntryFrame(f)
    BY <1>1, ConstantsAssumption, Keys DEF EntryFrame, Request, Row
  <1>7. \A q \in Paper : PaperFrame(q)
    BY <1>1, ConstantsAssumption DEF PaperFrame, Request, Row
  <1>8. \A s \in Sync : SyncFrame(s)
    BY <1>1, ConstantsAssumption, Keys DEF SyncFrame, Request
  <1>9. RowsNeverAhead'
    BY <1>1, <1>2, <1>4, RowsKept
  <1>10. ClosedByFill'
    BY <1>1, <1>4, ClosedKept DEF IInv
  <1>11. ExecutedIffPositioned'
    BY <1>1, <1>4, ExecutedKept DEF IInv
  <1>12. QED
    BY <1>3, <1>4, <1>5, <1>6, <1>7, <1>8, <1>9, <1>10, <1>11, EntryStep

\* The paper handler reading its plan preserves the invariant.
LEMMA PaperReadInductive ==
  ASSUME TypeOK, IInv, NEW r \in Paper, NEW p \in Plan, PaperRead(r, p)
  PROVE  TypeOK' /\ IInv' /\ Stable
  <1>1. /\ r \in Request
        /\ pc[r] = "idle" /\ pc'[r] = "checked" /\ planOf'[r] = p /\ planStatus[p] = "approved"
        /\ \A q \in Request \ {r} : pc'[q] = pc[q] /\ planOf'[q] = planOf[q]
        /\ UNCHANGED <<planStatus, position, orders, book, fill, view, target, loaded, seen>>
    BY ConstantsAssumption, Keys DEF PaperRead, TypeOK, Request, Row, database, exchange, reads
  <1>2. PaperInv(r) /\ RowsNeverAhead
    BY DEF IInv
  <1>3. TypeOK'
    BY DEF PaperRead, TypeOK, EntryPc, PaperPc, SyncPc, Request, Row, database, exchange, reads
  <1>4. Stable
    <2>1. PlansStable
      BY <1>1 DEF PlansStable
    <2>2. OrdersStable
      BY <1>1, KeyCases, ConstantsAssumption DEF OrdersStable, Request
    <2>3. RowsStable
      BY <1>1, <1>2 DEF RowsStable, Row, Request, PaperInv
    <2>4. QED
      BY <2>1, <2>2, <2>3 DEF Stable
  <1>5. PaperInv(r)'
    BY <1>1, <1>2 DEF PaperInv, PaperPc
  <1>6. \A f \in Exec : EntryFrame(f)
    BY <1>1, ConstantsAssumption, Keys DEF EntryFrame, Request, Row
  <1>7. \A q \in Paper \ {r} : PaperFrame(q)
    BY <1>1, ConstantsAssumption DEF PaperFrame, Request, Row
  <1>8. \A s \in Sync : SyncFrame(s)
    BY <1>1, ConstantsAssumption, Keys DEF SyncFrame, Request
  <1>9. RowsNeverAhead'
    BY <1>1, <1>2, <1>4, RowsKept
  <1>10. ClosedByFill'
    BY <1>1, <1>4, ClosedKept DEF IInv
  <1>11. ExecutedIffPositioned'
    BY <1>1, <1>4, ExecutedKept DEF IInv
  <1>12. QED
    BY <1>3, <1>4, <1>5, <1>6, <1>7, <1>8, <1>9, <1>10, <1>11, PaperStep

\* The commit of the paper handler preserves the invariant.
LEMMA PaperCommitInductive ==
  ASSUME TypeOK, IInv, NEW r \in Paper, PaperCommit(r)
  PROVE  TypeOK' /\ IInv' /\ Stable
  <1>1. /\ r \in Request /\ r \in Row
        /\ pc[r] = "checked" /\ pc'[r] = "done"
        /\ \A q \in Request \ {r} : pc'[q] = pc[q]
        /\ position'[r].status = "open"
        /\ \A q \in Row \ {r} : position'[q] = position[q]
        /\ planOf[r] \in Plan => planStatus'[planOf[r]] = "paper_executed"
        /\ \A p \in Plan \ {planOf[r]} : planStatus'[p] = planStatus[p]
        /\ UNCHANGED <<orders, book, fill, planOf, view, target, loaded, seen>>
    BY ConstantsAssumption, Keys DEF PaperCommit, TypeOK, Request, Row, database, exchange, reads
  <1>2. PaperInv(r) /\ RowsNeverAhead
    BY DEF IInv
  <1>3. TypeOK'
    <2>1. Qty[planOf[r]] \in Nat /\ planOf[r] \in Plan
      BY <1>1, <1>2, ConstantsAssumption DEF PaperInv
    <2>2. position' \in [Row -> PositionRow] /\ lastId' \in Nat
      <3>1. position \in [Row -> PositionRow] /\ lastId \in Nat
        BY DEF TypeOK
      <3>2. [status |-> "open", qty |-> Qty[planOf[r]], id |-> lastId + 1] \in PositionRow
        BY <2>1, <3>1 DEF PositionRow
      <3>3. QED
        BY <3>1, <3>2 DEF PaperCommit, Row
    <2>3. QED
      BY <2>2 DEF PaperCommit, TypeOK, EntryPc, PaperPc, SyncPc, PlanStatus, Request, exchange, reads
  <1>4. Stable
    <2>1. PlansStable
      BY <1>1, <1>2 DEF PlansStable, PaperInv
    <2>2. OrdersStable
      BY <1>1 DEF OrdersStable
    <2>3. RowsStable
      BY <1>1 DEF RowsStable
    <2>4. QED
      BY <2>1, <2>2, <2>3 DEF Stable
  <1>5. PaperInv(r)'
    BY <1>1, <1>2 DEF PaperInv, PaperPc
  <1>6. \A f \in Exec : EntryFrame(f)
    BY <1>1, ConstantsAssumption, Keys DEF EntryFrame, Request, Row
  <1>7. \A q \in Paper \ {r} : PaperFrame(q)
    BY <1>1, ConstantsAssumption DEF PaperFrame, Request, Row
  <1>8. \A s \in Sync : SyncFrame(s)
    BY <1>1, ConstantsAssumption, Keys DEF SyncFrame, Request
  <1>9. RowsNeverAhead'
    BY <1>1, <1>2, <1>4, RowsKept
  <1>10. ClosedByFill'
    BY <1>1, <1>4, ClosedKept DEF IInv
  <1>11. ExecutedIffPositioned'
    <2>1. planOf[r] \in Plan
      BY <1>1, <1>2 DEF PaperInv
    <2>2. QED
      BY <1>1, <2>1 DEF IInv, ExecutedIffPositioned, ExecutedStatus
  <1>12. QED
    BY <1>3, <1>4, <1>5, <1>6, <1>7, <1>8, <1>9, <1>10, <1>11, PaperStep

\* _normalize_order_status returns an order status, and claims an end only for
\* an order that ended or whose fills reach the requested quantity.
LEMMA Normalized ==
  ASSUME NEW status \in OrderStatus, NEW executed \in Nat, NEW requested \in Nat \ {0}
  PROVE  /\ NormalizedStatus(status, executed, requested) \in OrderStatus
         /\ NormalizedStatus(status, executed, requested) \in Terminal =>
              \/ NormalizedStatus(status, executed, requested) = status
              \/ /\ NormalizedStatus(status, executed, requested) = "filled"
                 /\ executed >= requested
         /\ AssumedQty(NormalizedStatus(status, executed, requested), executed, requested) \in Nat
  <1> DEFINE n == NormalizedStatus(status, executed, requested)
  <1>1. n \in {status, "filled", "partially_filled"}
    BY DEF NormalizedStatus
  <1>2. n \in OrderStatus
    BY <1>1 DEF OrderStatus, Live, Terminal
  <1>3. n \in Terminal => n = status \/ (n = "filled" /\ executed >= requested)
    <2>1. CASE executed <= 0 \/ status \in {"filled", "partially_filled"}
      BY <2>1 DEF NormalizedStatus
    <2>2. CASE ~(executed <= 0 \/ status \in {"filled", "partially_filled"})
      <3>1. CASE executed >= requested
        BY <2>2, <3>1 DEF NormalizedStatus
      <3>2. CASE ~(executed >= requested)
        BY <2>2, <3>2 DEF NormalizedStatus, Terminal
      <3>3. QED
        BY <3>1, <3>2
    <2>3. QED
      BY <2>1, <2>2
  <1>4. AssumedQty(n, executed, requested) \in Nat
    BY DEF AssumedQty
  <1>5. QED
    BY <1>2, <1>3, <1>4

\* The commit of execute_trade_plan preserves the invariant.
LEMMA CommitEntryInductive ==
  ASSUME TypeOK, IInv, NEW e \in Exec, CommitEntry(e)
  PROVE  TypeOK' /\ IInv' /\ Stable
  <1> DEFINE p      == planOf[e]
             status == NormalizedStatus(view[e].status, view[e].qty, Qty[p])
  <1>1. /\ e \in Request /\ e \in Row
        /\ pc[e] \in {"protected", "bare"} /\ pc'[e] = "done"
        /\ \A q \in Request \ {e} : pc'[q] = pc[q]
        /\ position'[e].status = "open"
        /\ \A q \in Row \ {e} : position'[q] = position[q]
        /\ planOf[e] \in Plan => planStatus'[planOf[e]] = "testnet_executed"
        /\ \A q \in Plan \ {planOf[e]} : planStatus'[q] = planStatus[q]
        /\ orders'[<<e, "entry">>] = NormalizedStatus(view[e].status, view[e].qty, Qty[planOf[e]])
        /\ \A k \in OrderKey \ {<<e, "entry">>} :
             \/ orders'[k] = orders[k]
             \/ pc[e] = "protected" /\ k \in ProtectionPair(e) /\ orders'[k] = "new"
        /\ \A k \in OrderKey : k[1] # e => orders'[k] = orders[k]
        /\ \A f \in Exec \ {e} : view'[f] = view[f]
        /\ UNCHANGED <<book, fill, planOf, target, loaded, seen>>
    <2>1. orders' = [[k \in OrderKey |->
                     IF pc[e] = "protected" /\ k \in ProtectionPair(e)
                     THEN "new" ELSE orders[k]] EXCEPT ![<<e, "entry">>] = status]
      BY DEF CommitEntry
    <2>2. /\ orders'[<<e, "entry">>] = status
          /\ \A k \in OrderKey \ {<<e, "entry">>} :
               \/ orders'[k] = orders[k]
               \/ pc[e] = "protected" /\ k \in ProtectionPair(e) /\ orders'[k] = "new"
      BY <2>1, Keys
    <2>3. \A k \in OrderKey : k[1] # e => orders'[k] = orders[k]
      BY <2>2 DEF ProtectionPair
    <2>4. QED
      BY <2>2, <2>3, ConstantsAssumption DEF CommitEntry, TypeOK, Request, Row, exchange, reads
  <1>2. EntryInv(e) /\ ViewInv(e) /\ RowsNeverAhead
    BY DEF IInv
  <1>n. /\ p \in Plan /\ Qty[p] \in Nat \ {0} /\ view[e].qty \in Nat
        /\ status \in OrderStatus
        /\ status \in Terminal =>
             status = view[e].status \/ (status = "filled" /\ view[e].qty >= Qty[p])
        /\ AssumedQty(status, view[e].qty, Qty[p]) \in Nat
    <2>1. p \in Plan /\ Qty[p] \in Nat \ {0}
      BY <1>1, <1>2, ConstantsAssumption DEF EntryInv
    <2>2. view[e].qty \in Nat /\ view[e].status \in OrderStatus
      BY <1>1, <1>2 DEF TypeOK, ViewInv, Status
    <2>3. QED
      BY <2>1, <2>2, Normalized
  <1>3. TypeOK'
    <2>1. position' \in [Row -> PositionRow] /\ lastId' \in Nat
      <3>1. position \in [Row -> PositionRow] /\ lastId \in Nat
        BY DEF TypeOK
      <3>2. [status |-> "open", qty |-> AssumedQty(status, view[e].qty, Qty[p]), id |-> lastId + 1] \in PositionRow
        BY <1>n, <3>1 DEF PositionRow
      <3>3. lastId' = lastId + 1
        BY DEF CommitEntry
      <3>4. QED
        BY <1>1, <3>1, <3>2, <3>3 DEF CommitEntry
    <2>2. orders' \in [OrderKey -> Status]
      <3>1. status \in Status /\ "new" \in Status
        BY <1>n, Statuses DEF Status
      <3>2. QED
        BY <3>1, Keys DEF CommitEntry, TypeOK
    <2>3. view' \in [Exec -> [status : Status, qty : Nat]]
      BY Statuses DEF CommitEntry, TypeOK, NoView
    <2>4. QED
      BY <2>1, <2>2, <2>3 DEF CommitEntry, TypeOK, EntryPc, PaperPc, SyncPc, PlanStatus, Request, exchange, reads
  <1>4. Stable
    <2>1. PlansStable
      BY <1>1, <1>2 DEF PlansStable, EntryInv
    <2>2. OrdersStable
      <3>1. status # "absent"
        BY <1>n, Statuses DEF OrderStatus
      <3>2. QED
        BY <1>1, <3>1, Statuses DEF OrdersStable
    <2>3. RowsStable
      BY <1>1 DEF RowsStable
    <2>4. QED
      BY <2>1, <2>2, <2>3 DEF Stable
  <1>5. EntryInv(e)' /\ ViewInv(e)'
    <2>1. EntryInv(e)'
      <3>1. /\ orders'[<<e, "orphan">>] = orders[<<e, "orphan">>]
        BY <1>1, Keys DEF ProtectionPair
      <3>2. QED
        BY <1>1, <1>2, <3>1 DEF EntryInv, EntryPc
    <2>2. ViewInv(e)'
      BY <1>1 DEF ViewInv
    <2>3. QED
      BY <2>1, <2>2
  <1>6. \A f \in Exec \ {e} : EntryFrame(f)
    BY <1>1, ConstantsAssumption, Keys DEF EntryFrame, Request, Row
  <1>7. \A q \in Paper : PaperFrame(q)
    BY <1>1, ConstantsAssumption DEF PaperFrame, Request, Row
  <1>8. \A s \in Sync : SyncFrame(s)
    BY <1>1, ConstantsAssumption, Keys DEF SyncFrame, Request
  <1>9. RowsNeverAhead'
    <2>1. ASSUME NEW k \in OrderKey \ {<<e, "entry">>}
          PROVE  /\ orders'[k] # "absent" => book'[k] # "absent"
                 /\ orders'[k] \in Terminal => book'[k] = orders'[k]
      BY <1>1, <1>2, Statuses DEF RowsNeverAhead, EntryInv, ProtectionPair
    <2>2. book[<<e, "entry">>] # "absent"
      BY <1>1, <1>2 DEF EntryInv
    <2>3. status \in Terminal => book[<<e, "entry">>] = status
      <3>1. view[e].qty >= Qty[p] => book[<<e, "entry">>] = "filled"
        <4>1. fill[e] \in Nat /\ view[e].qty \in Nat /\ Qty[p] \in Nat
          BY <1>n DEF TypeOK
        <4>2. QED
          BY <1>1, <1>2, <4>1 DEF EntryInv, ViewInv
      <3>2. QED
        BY <1>1, <1>2, <1>n, <3>1 DEF ViewInv
    <2>4. QED
      BY <1>1, <2>1, <2>2, <2>3 DEF RowsNeverAhead
  <1>10. ClosedByFill'
    BY <1>1, <1>4, ClosedKept DEF IInv
  <1>11. ExecutedIffPositioned'
    BY <1>1, <1>2 DEF IInv, ExecutedIffPositioned, ExecutedStatus, EntryInv
  <1>12. QED
    BY <1>3, <1>4, <1>5, <1>6, <1>7, <1>8, <1>9, <1>10, <1>11, EntryStep

-----------------------------------------------------------------------------
(* The exchange. *)

\* A fill of an entry preserves the invariant.
LEMMA FillEntryInductive ==
  ASSUME TypeOK, IInv, NEW e \in Exec, FillEntry(e)
  PROVE  TypeOK' /\ IInv' /\ Stable
  <1> DEFINE k == <<e, "entry">>
             p == planOf[e]
  <1>1. k \in OrderKey /\ book[k] \in Live /\ KeyPlan(k) = p
    BY Keys DEF FillEntry, KeyPlan
  <1>2. EntryInv(e) /\ ViewInv(e)
    BY DEF IInv
  <1>3. /\ p \in Plan /\ Qty[p] \in Nat /\ fill[e] \in Nat /\ view[e].qty \in Nat
        /\ fill[e] < Qty[p]
    BY <1>1, <1>2, Statuses, ConstantsAssumption DEF EntryInv, TypeOK
  <1>4. PICK x \in 1 .. Qty[p] - fill[e] :
          /\ fill' = [fill EXCEPT ![e] = @ + x]
          /\ held' = [held EXCEPT ![SymbolOf[p]] = @ + Dir[p] * x]
          /\ book' = [book EXCEPT ![k] =
               IF fill[e] + x = Qty[p] THEN "filled" ELSE "partially_filled"]
    BY <1>1 DEF FillEntry
  <1>5. UNCHANGED <<database, pc, planOf, view, target, reads>>
    BY DEF FillEntry
  <1>6. TypeOK'
    <2>1. x \in Nat
      BY <1>3
    <2>2. fill' \in [Exec \cup Sync -> Nat]
      BY <1>3, <1>4, <2>1 DEF TypeOK
    <2>3. held' \in [Symbol -> Int]
      <3>1. SymbolOf[p] \in Symbol /\ Dir[p] \in {-1, 1}
        BY <1>3, ConstantsAssumption
      <3>2. Dir[p] * x \in Int
        BY <2>1, <3>1
      <3>3. QED
        BY <1>4, <3>1, <3>2 DEF TypeOK
    <2>4. book' \in [OrderKey -> Status]
      BY <1>4, Statuses DEF TypeOK
    <2>5. QED
      BY <1>5, <2>2, <2>3, <2>4 DEF TypeOK, database, reads
  <1>7. /\ \A j \in OrderKey \ {k} : book'[j] = book[j]
        /\ book'[k] \in {"filled", "partially_filled"}
        /\ book'[k] # "filled" => fill'[e] < Qty[p]
        /\ fill'[e] > fill[e]
        /\ \A f \in Exec \ {e} : fill'[f] = fill[f]
    <2>1. fill'[e] = fill[e] + x /\ \A f \in Exec \ {e} : fill'[f] = fill[f]
      BY <1>4 DEF TypeOK
    <2>2. /\ \A j \in OrderKey \ {k} : book'[j] = book[j]
          /\ book'[k] = IF fill[e] + x = Qty[p] THEN "filled" ELSE "partially_filled"
      BY <1>1, <1>4 DEF TypeOK
    <2>3. x \in Nat /\ x > 0 /\ fill[e] + x <= Qty[p]
      BY <1>3
    <2>4. QED
      BY <1>3, <2>1, <2>2, <2>3
  <1>8. OrdersStable
    BY <1>1, <1>5, <1>7, Statuses DEF OrdersStable, database
  <1>9. EntryInv(e)' /\ ViewInv(e)'
    <2>1. EntryInv(e)'
      BY <1>1, <1>2, <1>5, <1>7, Keys, Statuses DEF EntryInv, database
    <2>2. ViewInv(e)'
      <3>1. fill'[e] \in Nat
        BY <1>6 DEF TypeOK
      <3>2. QED
        BY <1>1, <1>2, <1>3, <1>5, <1>7, <3>1, Statuses DEF ViewInv
    <2>3. QED
      BY <2>1, <2>2
  <1>10. \A f \in Exec \ {e} : EntryInv(f)' /\ ViewInv(f)'
    <2>1. Stable
      BY <1>5, <1>8 DEF Stable, PlansStable, RowsStable, database
    <2>2. \A f \in Exec \ {e} : EntryFrame(f)
      BY <1>5, <1>7, Keys DEF EntryFrame, database
    <2>3. QED
      BY <2>1, <2>2, EntryKept DEF IInv
  <1>11. \A s \in Sync : book'[<<s, "exit">>] = book[<<s, "exit">>]
    BY <1>7, Keys
  <1>12. QED
    BY <1>5, <1>6, <1>8, <1>9, <1>10, <1>11, ExchangeStep DEF database, reads

\* A fill of a synthetic close preserves the invariant.
LEMMA FillExitInductive ==
  ASSUME TypeOK, IInv, NEW s \in Sync, FillExit(s)
  PROVE  TypeOK' /\ IInv' /\ Stable
  <1> DEFINE k == <<s, "exit">>
             p == planOf[s]
             left == position[target[s]].qty - fill[s]
  <1>1. k \in OrderKey /\ book[k] \in Live /\ KeyPlan(k) = p
    BY Keys DEF FillExit, KeyPlan
  <1>2. p \in Plan /\ target[s] \in Row
    BY <1>1, Statuses DEF IInv, SyncInv
  <1>3. PICK x \in 1 .. left :
          /\ fill' = [fill EXCEPT ![s] = @ + x]
          /\ held' = [held EXCEPT ![SymbolOf[p]] = @ - Dir[p] * x]
          /\ \E status \in {"partially_filled", "filled"} :
               book' = [book EXCEPT ![k] = status]
    BY <1>1 DEF FillExit
  <1>4. UNCHANGED <<database, pc, planOf, view, target, reads>>
    BY DEF FillExit
  <1>5. TypeOK'
    <2>1. position[target[s]].qty \in Nat /\ fill[s] \in Nat
      BY <1>2 DEF TypeOK, PositionRow
    <2>2. x \in Nat
      BY <2>1
    <2>3. fill' \in [Exec \cup Sync -> Nat]
      BY <1>3, <2>1, <2>2 DEF TypeOK
    <2>4. held' \in [Symbol -> Int]
      <3>1. SymbolOf[p] \in Symbol /\ Dir[p] \in {-1, 1}
        BY <1>2, ConstantsAssumption
      <3>2. Dir[p] * x \in Int
        BY <2>2, <3>1
      <3>3. QED
        BY <1>3, <3>1, <3>2 DEF TypeOK
    <2>5. book' \in [OrderKey -> Status]
      BY <1>3, Statuses DEF TypeOK
    <2>6. QED
      BY <1>4, <2>3, <2>4, <2>5 DEF TypeOK, database, reads
  <1>6. /\ \A j \in OrderKey \ {k} : book'[j] = book[j]
        /\ book'[k] # "absent"
        /\ \A e \in Exec : fill'[e] = fill[e]
    BY <1>1, <1>3, ConstantsAssumption DEF TypeOK
  <1>7. QED
    BY <1>1, <1>4, <1>5, <1>6, OrderMoves DEF database, reads

\* A triggered protection order preserves the invariant.
LEMMA TriggerInductive ==
  ASSUME TypeOK, IInv, NEW k \in Protective, Trigger(k)
  PROVE  TypeOK' /\ IInv' /\ Stable
  <1> DEFINE p == planOf[k[1]]
  <1>1. k \in OrderKey /\ k[1] \in Exec /\ book[k] \in Live /\ KeyPlan(k) = p
    BY DEF Trigger, KeyPlan, Protective, OrderKey
  <1>2. p \in Plan
    <2>1. EntryInv(k[1]) /\ book[k] # "absent"
      BY <1>1, Statuses DEF IInv
    <2>2. QED
      BY <1>1, <2>1, KeyCases DEF EntryInv
  <1>3. PICK x \in 1 .. Exposure(p) :
          /\ held' = [held EXCEPT ![SymbolOf[p]] = @ - Dir[p] * x]
          /\ \/ book' = [book EXCEPT ![k] = "filled"]
             \/ book' = [book EXCEPT ![k] = "partially_filled"]
    BY <1>1 DEF Trigger
  <1>4. UNCHANGED <<database, fill, pc, planOf, view, target, reads>>
    BY DEF Trigger
  <1>5. TypeOK'
    <2>1. SymbolOf[p] \in Symbol /\ Dir[p] \in {-1, 1}
      BY <1>2, ConstantsAssumption
    <2>2. held[SymbolOf[p]] \in Int
      BY <2>1 DEF TypeOK
    <2>3. x \in Int
      BY <2>1, <2>2 DEF Exposure
    <2>4. Dir[p] * x \in Int
      BY <2>1, <2>3
    <2>5. held' \in [Symbol -> Int]
      BY <1>3, <2>1, <2>4 DEF TypeOK
    <2>6. book' \in [OrderKey -> Status]
      BY <1>3, Statuses DEF TypeOK
    <2>7. QED
      BY <1>4, <2>5, <2>6 DEF TypeOK, database, reads
  <1>6. book'[k] # "absent" /\ \A j \in OrderKey \ {k} : book'[j] = book[j]
    BY <1>1, <1>3 DEF TypeOK
  <1>7. QED
    BY <1>1, <1>4, <1>5, <1>6, OrderMoves DEF database, reads

\* An order that ends unexecuted preserves the invariant.
LEMMA ExpireInductive ==
  ASSUME TypeOK, IInv, NEW k \in OrderKey, Expire(k)
  PROVE  TypeOK' /\ IInv' /\ Stable
  <1>1. book[k] \in Live /\ book' = [book EXCEPT ![k] = "expired"]
    BY DEF Expire
  <1>2. UNCHANGED <<database, fill, held, pc, planOf, view, target, reads>>
    BY DEF Expire
  <1>3. TypeOK'
    BY <1>1, <1>2, Statuses DEF TypeOK, database, reads
  <1>4. book'[k] # "absent" /\ \A j \in OrderKey \ {k} : book'[j] = book[j]
    BY <1>1 DEF TypeOK
  <1>5. QED
    BY <1>1, <1>2, <1>3, <1>4, OrderMoves DEF database, reads

-----------------------------------------------------------------------------
(* Synchronisations. *)

\* The frames of a step of s that touches no order and no row.
LEMMA QuietFrames ==
  ASSUME NEW s \in Sync, TypeOK,
         UNCHANGED <<planStatus, position, orders, book, fill, view>>,
         \A q \in Request \ {s} : pc'[q] = pc[q] /\ planOf'[q] = planOf[q],
         \A t \in Sync \ {s} : /\ target'[t] = target[t]
                               /\ loaded'[t] = loaded[t]
                               /\ seen'[t] = seen[t],
         planOf'[s] = planOf[s] \/ book[<<s, "exit">>] = "absent",
         IInv, SyncInv(s)', ReadInv(s)'
  PROVE  IInv' /\ Stable
  <1>1. Stable
    <2>1. PlansStable
      BY DEF PlansStable
    <2>2. OrdersStable
      BY KeyCases, ConstantsAssumption DEF OrdersStable, Request
    <2>3. RowsStable
      BY ConstantsAssumption DEF RowsStable, Row, Request
    <2>4. QED
      BY <2>1, <2>2, <2>3 DEF Stable
  <1>2. \A f \in Exec : EntryFrame(f)
    BY ConstantsAssumption DEF EntryFrame, Request
  <1>3. \A q \in Paper : PaperFrame(q)
    BY ConstantsAssumption DEF PaperFrame, Request
  <1>4. \A t \in Sync \ {s} : SyncFrame(t)
    BY DEF SyncFrame, Request
  <1>5. RowsNeverAhead' /\ ClosedByFill' /\ ExecutedIffPositioned'
    BY <1>1, RowsKept, ClosedKept, ExecutedKept DEF IInv
  <1>6. QED
    BY <1>1, <1>2, <1>3, <1>4, <1>5, SyncStep

\* A task that returns leaves no trace.
LEMMA ReturnInductive ==
  ASSUME TypeOK, IInv, NEW s \in Sync, pc[s] \in {"marking", "refreshing"},
         Return(s), UNCHANGED <<database, exchange>>
  PROVE  TypeOK' /\ IInv' /\ Stable
  <1>1. /\ s \in Request
        /\ pc'[s] = "idle" /\ planOf'[s] = None
        /\ loaded'[s] = NoReads /\ seen'[s] = NoReads
        /\ \A q \in Request \ {s} : pc'[q] = pc[q] /\ planOf'[q] = planOf[q]
        /\ \A t \in Sync \ {s} : /\ target'[t] = target[t]
                                 /\ loaded'[t] = loaded[t]
                                 /\ seen'[t] = seen[t]
        /\ UNCHANGED <<planStatus, position, orders, book, fill, view>>
    BY DEF Return, TypeOK, Request, database, exchange
  <1>2. SyncInv(s)
    BY DEF IInv
  <1>3. TypeOK'
    <2>1. NoReads \in [OrderKey -> Status]
      BY Statuses DEF NoReads
    <2>2. QED
      BY <2>1 DEF Return, TypeOK, SyncPc, Request, database, exchange
  <1>4. book[<<s, "exit">>] = "absent"
    BY <1>2 DEF SyncInv
  <1>5. SyncInv(s)'
    BY <1>1, <1>2, <1>4 DEF SyncInv, SyncPc
  <1>6. ReadInv(s)'
    BY <1>1 DEF ReadInv, NoReads, Terminal
  <1>7. QED
    BY <1>1, <1>3, <1>4, <1>5, <1>6, QuietFrames

\* A task whose close order went out and that commits nothing.
LEMMA EndInductive ==
  ASSUME TypeOK, IInv, NEW s \in Sync, pc[s] = "closing",
         End(s), UNCHANGED <<database, exchange>>
  PROVE  TypeOK' /\ IInv' /\ Stable
  <1>1. /\ s \in Request
        /\ pc'[s] = "done"
        /\ \A q \in Request \ {s} : pc'[q] = pc[q]
        /\ UNCHANGED <<planStatus, position, orders, book, fill, planOf, view,
                       target, loaded, seen>>
    BY DEF End, TypeOK, Request, database, exchange, reads
  <1>2. SyncInv(s) /\ ReadInv(s)
    BY DEF IInv
  <1>3. TypeOK'
    BY DEF End, TypeOK, SyncPc, Request, database, exchange, reads
  <1>4. SyncInv(s)'
    BY <1>1, <1>2 DEF SyncInv, SyncPc
  <1>5. ReadInv(s)'
    BY <1>1, <1>2 DEF ReadInv, KeyPlan
  <1>6. QED
    BY <1>1, <1>3, <1>4, <1>5, QuietFrames

\* The guards of sync_exit_orders preserve the invariant.
LEMMA StartSyncInductive ==
  ASSUME TypeOK, IInv, NEW s \in Sync, NEW p \in Plan, StartSync(s, p)
  PROVE  TypeOK' /\ IInv' /\ Stable
  <1> DEFINE rows == [k \in OrderKey |-> IF k \in ProtectionRows(p) THEN orders[k] ELSE "absent"]
  <1>1. PICK r \in OpenRows(p) : target' = [target EXCEPT ![s] = r]
    BY DEF StartSync
  <1>2. r \in Row /\ planOf[r] = p /\ position[r].status = "open"
    BY DEF OpenRows
  <1>3. /\ s \in Request
        /\ pc[s] = "idle" /\ pc'[s] \in {"marking", "refreshing"}
        /\ planOf'[s] = p /\ target'[s] = r
        /\ loaded'[s] = rows /\ seen'[s] = seen[s]
        /\ \A q \in Request \ {s} : pc'[q] = pc[q] /\ planOf'[q] = planOf[q]
        /\ \A t \in Sync \ {s} : /\ target'[t] = target[t]
                                 /\ loaded'[t] = loaded[t]
                                 /\ seen'[t] = seen[t]
        /\ UNCHANGED <<planStatus, position, orders, book, fill, view>>
    BY <1>1 DEF StartSync, TypeOK, Request, database, exchange
  <1>4. SyncInv(s) /\ ReadInv(s) /\ RowsNeverAhead
    BY DEF IInv
  <1>5. TypeOK'
    <2>1. rows \in [OrderKey -> Status]
      BY Statuses DEF TypeOK
    <2>2. target' \in [Sync -> Row \cup {None}]
      BY <1>1, <1>2 DEF TypeOK
    <2>3. QED
      BY <2>1, <2>2 DEF StartSync, TypeOK, SyncPc, Request, database, exchange
  <1>6. book[<<s, "exit">>] = "absent"
    BY <1>3, <1>4 DEF SyncInv
  <1>7. SyncInv(s)'
    <2>1. r \in Request /\ r # s
      BY <1>2, ConstantsAssumption DEF Row, Request
    <2>2. QED
      BY <1>2, <1>3, <1>4, <1>6, <2>1 DEF SyncInv, SyncPc
  <1>8. ReadInv(s)'
    <2> SUFFICES ASSUME NEW k \in OrderKey
                 PROVE  /\ loaded'[s][k] # "absent" =>
                             /\ pc'[s] = "refreshing"
                             /\ k[2] \in {"stop", "tp", "exit"}
                             /\ planOf'[k[1]] = planOf'[s]
                             /\ orders'[k] # "absent"
                        /\ seen'[s][k] = "absent"
      BY Statuses DEF ReadInv, KeyPlan
    <2>1. seen'[s][k] = "absent"
      BY <1>3, <1>4, Statuses DEF ReadInv, TypeOK
    <2>2. ASSUME k \in ProtectionRows(p)
          PROVE  /\ pc'[s] = "refreshing"
                 /\ k[2] \in {"stop", "tp", "exit"}
                 /\ planOf'[k[1]] = p
                 /\ orders[k] # "absent"
      <3>1. ProtectionRows(p) # {}
        BY <2>2
      <3>2. pc'[s] = "refreshing"
        BY <3>1 DEF StartSync, TypeOK, Request
      <3>3. k[2] \in {"stop", "tp", "exit"} /\ planOf[k[1]] = p /\ orders[k] # "absent"
        BY <2>2 DEF ProtectionRows, KeyPlan
      <3>4. k[1] # s
        BY <1>4, <1>6, <3>3, KeyCases DEF RowsNeverAhead
      <3>5. QED
        BY <1>3, <3>2, <3>3, <3>4, KeyCases DEF Request
    <2>3. QED
      BY <1>3, <2>1, <2>2
  <1>9. QED
    BY <1>3, <1>5, <1>6, <1>7, <1>8, QuietFrames

\* Reading one order from the exchange preserves the invariant.
LEMMA ReadOrderInductive ==
  ASSUME TypeOK, IInv, NEW s \in Sync, NEW k \in OrderKey, ReadOrder(s, k)
  PROVE  TypeOK' /\ IInv' /\ Stable
  <1>1. /\ s \in Request
        /\ loaded[s][k] # "absent"
        /\ seen'[s][k] = book[k]
        /\ \A j \in OrderKey \ {k} : seen'[s][j] = seen[s][j]
        /\ \A t \in Sync \ {s} : seen'[t] = seen[t]
        /\ UNCHANGED <<planStatus, position, orders, book, fill, pc, planOf, view, target, loaded>>
    BY DEF ReadOrder, Unread, TypeOK, Request, database, exchange
  <1>2. SyncInv(s) /\ ReadInv(s)
    BY DEF IInv
  <1>3. TypeOK'
    BY DEF ReadOrder, TypeOK, database, exchange
  <1>4. SyncInv(s)'
    BY <1>1, <1>2 DEF SyncInv
  <1>5. ReadInv(s)'
    BY <1>1, <1>2 DEF ReadInv, KeyPlan
  <1>6. QED
    BY <1>1, <1>3, <1>4, <1>5, QuietFrames

\* Sending the synthetic close preserves the invariant, answered or not.
LEMMA SendCloseInductive ==
  ASSUME TypeOK, IInv, NEW s \in Sync, SendClose(s)
  PROVE  TypeOK' /\ IInv' /\ Stable
  <1>1. /\ s \in Request
        /\ pc[s] = "marking" /\ pc'[s] \in {"closing", "done"}
        /\ \A q \in Request \ {s} : pc'[q] = pc[q]
        /\ book'[<<s, "exit">>] = "new"
        /\ \A k \in OrderKey \ {<<s, "exit">>} : book'[k] = book[k]
        /\ UNCHANGED <<planStatus, position, orders, fill, planOf, view, target, loaded, seen>>
    BY Keys DEF SendClose, End, TypeOK, Request, database, reads
  <1>2. SyncInv(s) /\ ReadInv(s) /\ RowsNeverAhead
    BY DEF IInv
  <1>3. TypeOK'
    BY Statuses DEF SendClose, End, TypeOK, SyncPc, Request, database, reads
  <1>4. book[<<s, "exit">>] = "absent"
    BY <1>1, <1>2 DEF SyncInv
  <1>5. Stable
    BY <1>1, <1>4, Statuses DEF Stable, PlansStable, OrdersStable, RowsStable
  <1>6. SyncInv(s)'
    BY <1>1, <1>2, <1>4, Keys DEF SyncInv, SyncPc, RowsNeverAhead
  <1>7. ReadInv(s)'
    BY <1>1, <1>2, <1>4, Statuses DEF ReadInv, KeyPlan, RowsNeverAhead
  <1>8. \A f \in Exec : EntryFrame(f)
    BY <1>1, ConstantsAssumption, Keys DEF EntryFrame, Request
  <1>9. \A q \in Paper : PaperFrame(q)
    BY <1>1, ConstantsAssumption DEF PaperFrame, Request
  <1>10. \A t \in Sync \ {s} : SyncFrame(t)
    BY <1>1, Keys DEF SyncFrame, Request
  <1>11. RowsNeverAhead' /\ ClosedByFill' /\ ExecutedIffPositioned'
    BY <1>1, <1>5, RowsKept, ClosedKept, ExecutedKept DEF IInv
  <1>12. QED
    BY <1>3, <1>5, <1>6, <1>7, <1>8, <1>9, <1>10, <1>11, SyncStep

\* Cancelling a sibling preserves the invariant, whatever the answer.
LEMMA CancelSiblingInductive ==
  ASSUME TypeOK, IInv, NEW s \in Sync, NEW k \in OrderKey, CancelSibling(s, k)
  PROVE  TypeOK' /\ IInv' /\ Stable
  <1>1. /\ s \in Request
        /\ seen[s][k] \in Live
        /\ \/ UNCHANGED <<book, seen>>
           \/ /\ book[k] \in Live /\ book'[k] = "canceled"
              /\ \A j \in OrderKey \ {k} : book'[j] = book[j]
              /\ seen'[s][k] \in {seen[s][k], "canceled"}
        /\ \A j \in OrderKey \ {k} : seen'[s][j] = seen[s][j]
        /\ \A t \in Sync \ {s} : seen'[t] = seen[t]
        /\ UNCHANGED <<planStatus, position, orders, fill, pc, planOf, view, target, loaded>>
    BY DEF CancelSibling, LiveSiblings, TypeOK, Request, database
  <1>2. SyncInv(s) /\ ReadInv(s)
    BY DEF IInv
  <1>3. TypeOK'
    <2>1. book' \in [OrderKey -> Status]
      BY Statuses DEF CancelSibling, TypeOK
    <2>2. seen' \in [Sync -> [OrderKey -> Status]]
      <3>1. UNCHANGED seen \/ seen' = [seen EXCEPT ![s][k] = "canceled"]
        BY DEF CancelSibling
      <3>2. seen \in [Sync -> [OrderKey -> Status]] /\ "canceled" \in Status
        BY Statuses DEF TypeOK
      <3>3. QED
        BY <3>1, <3>2
    <2>3. tried' \in [Sync -> SUBSET OrderKey]
      BY DEF CancelSibling, TypeOK
    <2>4. QED
      BY <2>1, <2>2, <2>3 DEF CancelSibling, TypeOK, database
  <1>4. \A j \in OrderKey : book'[j] = "absent" <=> book[j] = "absent"
    BY <1>1, Statuses
  <1>5. Stable
    BY <1>1, Statuses DEF Stable, PlansStable, OrdersStable, RowsStable
  <1>6. SyncInv(s)'
    BY <1>1, <1>2, <1>4, Keys DEF SyncInv
  <1>7. ReadInv(s)'
    BY <1>1, <1>2, <1>4, Statuses DEF ReadInv, KeyPlan
  <1>8. \A f \in Exec : EntryFrame(f)
    BY <1>1, <1>4, Keys DEF EntryFrame
  <1>9. \A q \in Paper : PaperFrame(q)
    BY <1>1 DEF PaperFrame
  <1>10. \A t \in Sync \ {s} : SyncFrame(t)
    BY <1>1, <1>4, Keys DEF SyncFrame
  <1>11. RowsNeverAhead' /\ ClosedByFill' /\ ExecutedIffPositioned'
    BY <1>1, <1>5, RowsKept, ClosedKept, ExecutedKept DEF IInv
  <1>12. QED
    BY <1>3, <1>5, <1>6, <1>7, <1>8, <1>9, <1>10, <1>11, SyncStep

\* What a synchronisation stores is not ahead of the exchange, and creates no
\* order row.
LEMMA StoredStatuses ==
  ASSUME NEW s \in Sync, TypeOK, RowsNeverAhead, ReadInv(s), StoreStatuses(s)
  PROVE  /\ orders' \in [OrderKey -> Status]
         /\ \A k \in OrderKey :
              /\ orders'[k] = "absent" <=> orders[k] = "absent"
              /\ orders'[k] \in Terminal => book[k] = orders'[k]
  <1>1. ASSUME NEW k \in OrderKey
        PROVE  orders'[k] = IF seen[s][k] # "absent" /\ seen[s][k] # loaded[s][k]
                            THEN seen[s][k] ELSE orders[k]
    BY DEF StoreStatuses
  <1>2. orders' \in [OrderKey -> Status]
    BY DEF StoreStatuses, TypeOK
  <1>3. ASSUME NEW k \in OrderKey
        PROVE  /\ orders'[k] = "absent" <=> orders[k] = "absent"
               /\ orders'[k] \in Terminal => book[k] = orders'[k]
    BY <1>1 DEF ReadInv, RowsNeverAhead
  <1>4. QED
    BY <1>2, <1>3

\* A position row of an executed plan is closed: what the two commits of an
\* exit have in common.
LEMMA RowCloses ==
  ASSUME NEW s \in Sync, TypeOK, IInv, pc[s] # "idle",
         position' = [position EXCEPT ![target[s]].status = "closed"],
         planStatus' = [planStatus EXCEPT ![planOf[s]] = "testnet_closed"]
  PROVE  /\ planOf[s] \in Plan /\ target[s] \in Row /\ planOf[target[s]] = planOf[s]
         /\ position' \in [Row -> PositionRow]
         /\ planStatus' \in [Plan -> PlanStatus]
         /\ PlansStable
         /\ \A r \in Row : position'[r].status = "none" <=> position[r].status = "none"
         /\ \A r \in Row \ {target[s]} : position'[r] = position[r]
         /\ (\A r \in Row : planOf'[r] = planOf[r]) => ExecutedIffPositioned'
  <1> DEFINE p == planOf[s]
             r == target[s]
  <1>1. p \in Plan /\ r \in Row /\ planOf[r] = p /\ position[r].status # "none"
    BY DEF IInv, SyncInv
  <1>2. planStatus[p] \in ExecutedStatus
    BY <1>1 DEF IInv, ExecutedIffPositioned
  <1>3. position[r] \in PositionRow /\ position \in [Row -> PositionRow]
    BY <1>1 DEF TypeOK
  <1>4. position'[r] = [position[r] EXCEPT !.status = "closed"]
    BY <1>1, <1>3
  <1>5. position'[r] \in PositionRow /\ position'[r].status = "closed"
    BY <1>3, <1>4 DEF PositionRow
  <1>6. \A q \in Row \ {r} : position'[q] = position[q]
    BY <1>1, <1>3
  <1>7. position' \in [Row -> PositionRow]
    <2>1. position' = [q \in Row |-> position'[q]]
      BY <1>3
    <2>2. \A q \in Row : position'[q] \in PositionRow
      BY <1>3, <1>5, <1>6
    <2>3. QED
      BY <2>1, <2>2
  <1>8. /\ planStatus' \in [Plan -> PlanStatus]
        /\ planStatus'[p] = "testnet_closed"
        /\ \A q \in Plan \ {p} : planStatus'[q] = planStatus[q]
    BY <1>1 DEF TypeOK, PlanStatus
  <1>9. PlansStable
    BY <1>1, <1>2, <1>8 DEF PlansStable, ExecutedStatus
  <1>10. \A q \in Row : position'[q].status = "none" <=> position[q].status = "none"
    BY <1>1, <1>5, <1>6
  <1>11. ASSUME \A q \in Row : planOf'[q] = planOf[q] PROVE ExecutedIffPositioned'
    BY <1>1, <1>8, <1>10, <1>11 DEF IInv, ExecutedIffPositioned, ExecutedStatus
  <1>12. QED
    BY <1>1, <1>6, <1>7, <1>8, <1>9, <1>10, <1>11

\* Storing the statuses of untriggered orders preserves the invariant.
LEMMA NoTriggeredExitInductive ==
  ASSUME TypeOK, IInv, NEW s \in Sync, NoTriggeredExit(s)
  PROVE  TypeOK' /\ IInv' /\ Stable
  <1>1. /\ s \in Request
        /\ pc[s] = "refreshing" /\ pc'[s] = "idle" /\ planOf'[s] = None
        /\ loaded'[s] = NoReads /\ seen'[s] = NoReads
        /\ \A q \in Request \ {s} : pc'[q] = pc[q] /\ planOf'[q] = planOf[q]
        /\ \A t \in Sync \ {s} : /\ target'[t] = target[t]
                                 /\ loaded'[t] = loaded[t]
                                 /\ seen'[t] = seen[t]
        /\ UNCHANGED <<planStatus, position, book, fill, view>>
    BY DEF NoTriggeredExit, Return, TypeOK, Request, exchange
  <1>2. SyncInv(s) /\ ReadInv(s) /\ RowsNeverAhead /\ StoreStatuses(s)
    BY DEF IInv, NoTriggeredExit
  <1>3. /\ orders' \in [OrderKey -> Status]
        /\ \A k \in OrderKey :
             /\ orders'[k] = "absent" <=> orders[k] = "absent"
             /\ orders'[k] \in Terminal => book[k] = orders'[k]
    BY <1>2, StoredStatuses
  <1>4. TypeOK'
    <2>1. NoReads \in [OrderKey -> Status]
      BY Statuses DEF NoReads
    <2>2. QED
      BY <1>3, <2>1 DEF NoTriggeredExit, Return, TypeOK, SyncPc, Request, exchange
  <1>5. book[<<s, "exit">>] = "absent"
    BY <1>1, <1>2 DEF SyncInv
  <1>6. Stable
    <2>1. PlansStable
      BY <1>1 DEF PlansStable
    <2>2. OrdersStable
      BY <1>1, <1>3, <1>5, KeyCases, ConstantsAssumption DEF OrdersStable, Request
    <2>3. RowsStable
      BY <1>1, ConstantsAssumption DEF RowsStable, Row, Request
    <2>4. QED
      BY <2>1, <2>2, <2>3 DEF Stable
  <1>7. SyncInv(s)'
    BY <1>1, <1>2, <1>3, <1>5, Keys DEF SyncInv, SyncPc
  <1>8. ReadInv(s)'
    BY <1>1 DEF ReadInv, NoReads, Terminal
  <1>9. \A f \in Exec : EntryFrame(f)
    BY <1>1, <1>3, ConstantsAssumption, Keys DEF EntryFrame, Request
  <1>10. \A q \in Paper : PaperFrame(q)
    BY <1>1, ConstantsAssumption DEF PaperFrame, Request
  <1>11. \A t \in Sync \ {s} : SyncFrame(t)
    BY <1>1, <1>3, Keys DEF SyncFrame, Request
  <1>12. RowsNeverAhead'
    BY <1>1, <1>2, <1>3 DEF RowsNeverAhead
  <1>13. ClosedByFill' /\ ExecutedIffPositioned'
    BY <1>1, <1>6, ClosedKept, ExecutedKept DEF IInv
  <1>14. QED
    BY <1>4, <1>6, <1>7, <1>8, <1>9, <1>10, <1>11, <1>12, <1>13, SyncStep

\* The commit of a synthetic exit preserves the invariant.
LEMMA CommitCloseInductive ==
  ASSUME TypeOK, IInv, NEW s \in Sync, CommitClose(s)
  PROVE  TypeOK' /\ IInv' /\ Stable
  <1> DEFINE r == target[s]
             k == <<s, "exit">>
  <1>1. /\ s \in Request /\ k \in OrderKey
        /\ pc[s] = "closing" /\ pc'[s] = "done" /\ book[k] = "filled"
        /\ \A q \in Request \ {s} : pc'[q] = pc[q]
        /\ orders'[k] \in {"partially_filled", "filled"}
        /\ \A j \in OrderKey \ {k} : orders'[j] = orders[j]
        /\ UNCHANGED <<book, fill, planOf, view, target, loaded, seen>>
    BY Keys DEF CommitClose, End, TypeOK, Request, exchange, reads
  <1>2. SyncInv(s) /\ ReadInv(s) /\ RowsNeverAhead
    BY DEF IInv
  <1>3. /\ planOf[s] \in Plan /\ r \in Row /\ planOf[r] = planOf[s]
        /\ position' \in [Row -> PositionRow]
        /\ planStatus' \in [Plan -> PlanStatus]
        /\ PlansStable
        /\ \A q \in Row : position'[q].status = "none" <=> position[q].status = "none"
        /\ \A q \in Row \ {r} : position'[q] = position[q]
        /\ ExecutedIffPositioned'
    BY <1>1, RowCloses DEF CommitClose
  <1>4. TypeOK'
    <2>1. PICK status \in {"partially_filled", "filled"} :
            orders' = [orders EXCEPT ![k] = status]
      BY DEF CommitClose
    <2>2. QED
      BY <1>3, <2>1, Statuses DEF CommitClose, End, TypeOK, SyncPc, Request, exchange, reads
  <1>5. Stable
    <2>1. OrdersStable
      BY <1>1, Statuses DEF OrdersStable
    <2>2. RowsStable
      BY <1>1, <1>3 DEF RowsStable
    <2>3. QED
      BY <1>3, <2>1, <2>2 DEF Stable
  <1>6. SyncInv(s)'
    BY <1>1, <1>2, <1>3 DEF SyncInv, SyncPc
  <1>7. ReadInv(s)'
    BY <1>1, <1>2 DEF ReadInv, KeyPlan
  <1>8. \A f \in Exec : EntryFrame(f)
    BY <1>1, <1>3, ConstantsAssumption, Keys DEF EntryFrame, Request, Row
  <1>9. \A q \in Paper : PaperFrame(q)
    BY <1>1, <1>3, ConstantsAssumption DEF PaperFrame, Request, Row
  <1>10. \A t \in Sync \ {s} : SyncFrame(t)
    BY <1>1, Keys DEF SyncFrame, Request
  <1>11. RowsNeverAhead'
    BY <1>1, <1>2, Statuses DEF RowsNeverAhead
  <1>12. ClosedByFill'
    <2> SUFFICES ASSUME NEW q \in Row, position'[q].status = "closed"
                 PROVE  (\E j \in ExitOf(planOf[q]) : book[j] = "filled")'
      BY DEF ClosedByFill
    <2>1. CASE q = r
      <3>1. (k \in ExitOf(planOf[q]))'
        BY <1>1, <1>3, <2>1 DEF ExitOf, KeyPlan
      <3>2. QED
        BY <1>1, <3>1
    <2>2. CASE q # r
      <3>1. PICK j \in ExitOf(planOf[q]) : book[j] = "filled"
        BY <1>3, <2>2 DEF IInv, ClosedByFill
      <3>2. (j \in ExitOf(planOf[q]))'
        BY <1>1, <3>1 DEF ExitOf, KeyPlan
      <3>3. QED
        BY <1>1, <3>1, <3>2
    <2>3. QED
      BY <2>1, <2>2
  <1>13. QED
    BY <1>3, <1>4, <1>5, <1>6, <1>7, <1>8, <1>9, <1>10, <1>11, <1>12, SyncStep

\* The commit of a native exit preserves the invariant.
LEMMA CommitExitInductive ==
  ASSUME TypeOK, IInv, NEW s \in Sync, CommitExit(s)
  PROVE  TypeOK' /\ IInv' /\ Stable
  <1> DEFINE r == target[s]
  <1>1. /\ s \in Request
        /\ pc[s] = "refreshing" /\ pc'[s] = "idle" /\ planOf'[s] = None
        /\ loaded'[s] = NoReads /\ seen'[s] = NoReads
        /\ \A q \in Request \ {s} : pc'[q] = pc[q] /\ planOf'[q] = planOf[q]
        /\ \A t \in Sync \ {s} : /\ target'[t] = target[t]
                                 /\ loaded'[t] = loaded[t]
                                 /\ seen'[t] = seen[t]
        /\ UNCHANGED <<book, fill, view>>
    BY DEF CommitExit, Return, TypeOK, Request, exchange
  <1>2. SyncInv(s) /\ ReadInv(s) /\ RowsNeverAhead /\ StoreStatuses(s)
    BY DEF IInv, CommitExit
  <1>3. /\ orders' \in [OrderKey -> Status]
        /\ \A k \in OrderKey :
             /\ orders'[k] = "absent" <=> orders[k] = "absent"
             /\ orders'[k] \in Terminal => book[k] = orders'[k]
    BY <1>2, StoredStatuses
  <1>4. \A q \in Row : planOf'[q] = planOf[q]
    BY <1>1, ConstantsAssumption DEF Row, Request
  <1>5. /\ planOf[s] \in Plan /\ r \in Row /\ planOf[r] = planOf[s]
        /\ position' \in [Row -> PositionRow]
        /\ planStatus' \in [Plan -> PlanStatus]
        /\ PlansStable
        /\ \A q \in Row : position'[q].status = "none" <=> position[q].status = "none"
        /\ \A q \in Row \ {r} : position'[q] = position[q]
        /\ ExecutedIffPositioned'
    BY <1>1, <1>4, RowCloses DEF CommitExit
  <1>6. TypeOK'
    <2>1. NoReads \in [OrderKey -> Status]
      BY Statuses DEF NoReads
    <2>2. QED
      BY <1>3, <1>5, <2>1 DEF CommitExit, Return, TypeOK, SyncPc, Request, exchange
  <1>7. book[<<s, "exit">>] = "absent"
    BY <1>1, <1>2 DEF SyncInv
  <1>8. Stable
    <2>1. OrdersStable
      BY <1>1, <1>3, <1>7, KeyCases, ConstantsAssumption DEF OrdersStable, Request
    <2>2. RowsStable
      BY <1>4, <1>5 DEF RowsStable
    <2>3. QED
      BY <1>5, <2>1, <2>2 DEF Stable
  <1>9. SyncInv(s)'
    BY <1>1, <1>2, <1>3, <1>7, Keys DEF SyncInv, SyncPc
  <1>10. ReadInv(s)'
    BY <1>1 DEF ReadInv, NoReads, Terminal
  <1>11. \A f \in Exec : EntryFrame(f)
    BY <1>1, <1>3, <1>5, ConstantsAssumption, Keys DEF EntryFrame, Request, Row
  <1>12. \A q \in Paper : PaperFrame(q)
    BY <1>1, <1>5, ConstantsAssumption DEF PaperFrame, Request, Row
  <1>13. \A t \in Sync \ {s} : SyncFrame(t)
    BY <1>1, <1>3, Keys DEF SyncFrame, Request
  <1>14. RowsNeverAhead'
    BY <1>1, <1>2, <1>3 DEF RowsNeverAhead
  <1>15. ClosedByFill'
    <2> SUFFICES ASSUME NEW q \in Row, position'[q].status = "closed"
                 PROVE  (\E j \in ExitOf(planOf[q]) : book[j] = "filled")'
      BY DEF ClosedByFill
    <2>1. CASE q = r
      <3>1. PICK k \in OrderKey : seen[s][k] = "filled"
        BY DEF CommitExit, Triggered
      <3>2. k[2] \in {"stop", "tp", "exit"} /\ planOf[k[1]] = planOf[s] /\ book[k] = "filled"
        BY <1>2, <3>1 DEF ReadInv, KeyPlan, Terminal
      <3>3. k[1] # s
        BY <1>7, <3>2, KeyCases
      <3>4. (k \in ExitOf(planOf[q]))'
        BY <1>1, <1>4, <1>5, <2>1, <3>2, <3>3, KeyCases DEF ExitOf, KeyPlan, Request
      <3>5. QED
        BY <1>1, <3>2, <3>4
    <2>2. CASE q # r
      <3>1. PICK k \in ExitOf(planOf[q]) : book[k] = "filled"
        BY <1>5, <2>2 DEF IInv, ClosedByFill
      <3>2. k \in OrderKey /\ k[2] \in {"stop", "tp", "exit"} /\ planOf[k[1]] = planOf[q]
        BY <3>1 DEF ExitOf, KeyPlan
      <3>3. k[1] # s
        BY <1>7, <3>1, <3>2, KeyCases
      <3>4. (k \in ExitOf(planOf[q]))'
        BY <1>1, <1>4, <3>2, <3>3, KeyCases DEF ExitOf, KeyPlan, Request
      <3>5. QED
        BY <1>1, <3>1, <3>4
    <2>3. QED
      BY <2>1, <2>2
  <1>16. QED
    BY <1>5, <1>6, <1>8, <1>9, <1>10, <1>11, <1>12, <1>13, <1>14, <1>15, SyncStep
=============================================================================
