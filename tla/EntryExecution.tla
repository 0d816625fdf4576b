--------------------------- MODULE EntryExecution ---------------------------
(***************************************************************************)
(* The handlers that open positions: execute_trade_plan of                 *)
(* BinanceTestnetTradingService and of PaperTradingService.                *)
(*                                                                         *)
(* A testnet execution checks the plan, then awaits the exchange several   *)
(* times, and stores everything in one commit at the end; no row it wrote  *)
(* is visible before that commit, and the checks are not repeated.  The    *)
(* early returns (disabled, plan not approved, open position in the slot)  *)
(* store risk events only and are stuttering steps here.                   *)
(***************************************************************************)
EXTENDS TestnetState

Executing(e) ==
    pc[e] \in {"checked", "placed", "confirmed", "priced", "protected", "bare"}

\* Mutant: the status guard only refuses blocked plans.
CheckPlanAnyStatus(e, p) ==
    /\ pc[e] = "idle"
    /\ planStatus[p] # "blocked"
    /\ ~ \E r \in Row : position[r].status = "open" /\ SameSlot(planOf[r], p)
    /\ OneAtATime =>
         ~ \E f \in Exec : Executing(f) /\ SameSlot(planOf[f], p)
    /\ pc' = [pc EXCEPT ![e] = "checked"]
    /\ planOf' = [planOf EXCEPT ![e] = p]
    /\ UNCHANGED <<database, exchange, view, target, reads>>

\* Mutant: the open-position guard looks at the plan's own rows only.
CheckPlanOwnRows(e, p) ==
    /\ pc[e] = "idle"
    /\ planStatus[p] = "approved"
    /\ ~ \E r \in Row : position[r].status = "open" /\ planOf[r] = p
    /\ OneAtATime =>
         ~ \E f \in Exec : Executing(f) /\ SameSlot(planOf[f], p)
    /\ pc' = [pc EXCEPT ![e] = "checked"]
    /\ planOf' = [planOf EXCEPT ![e] = p]
    /\ UNCHANGED <<database, exchange, view, target, reads>>

\* The guards of execute_trade_plan, read before the first await.
CheckPlan(e, p) ==
    /\ pc[e] = "idle"
    /\ planStatus[p] = "approved"
    /\ ~ \E r \in Row : position[r].status = "open" /\ SameSlot(planOf[r], p)
    /\ OneAtATime =>
         ~ \E f \in Exec : Executing(f) /\ SameSlot(planOf[f], p)
    /\ pc' = [pc EXCEPT ![e] = "checked"]
    /\ planOf' = [planOf EXCEPT ![e] = p]
    /\ UNCHANGED <<database, exchange, view, target, reads>>

\* No step size, a quantity that rounds to zero, missing credentials, an
\* order the exchange refuses, or a crash before it was sent: the request
\* leaves nothing behind and may be issued again.
GiveUpEntry(e) ==
    /\ pc[e] = "checked"
    /\ pc' = [pc EXCEPT ![e] = "idle"]
    /\ planOf' = [planOf EXCEPT ![e] = None]
    /\ UNCHANGED <<database, exchange, view, target, reads>>

\* place_market_order reaches the exchange.  When the answer is lost the
\* handler logs testnet_api_error and returns with nothing stored.
PlaceEntry(e) ==
    /\ pc[e] = "checked"
    /\ book' = [book EXCEPT ![<<e, "entry">>] = "new"]
    /\ \E answered \in BOOLEAN :
         pc' = [pc EXCEPT ![e] = IF answered THEN "placed" ELSE "failed"]
    /\ UNCHANGED <<database, fill, held, planOf, view, target, reads>>

\* What the answer to the order and a later reading of it, merged, may say:
\* either may lag behind the order, so status and quantity need not belong
\* together, but they claim no end and no execution the order does not have.
\* EntryConfirmation is the procedure itself.
Claims(e) ==
    {r \in [status : {"new", "partially_filled", book[<<e, "entry">>]}, qty : 0 .. fill[e]] :
        /\ r.status \in {"partially_filled", "filled"} => r.qty > 0
        /\ r.qty = Qty[planOf[e]] => r.status = "filled"}

\* _confirm_exchange_order.
ConfirmEntry(e) ==
    /\ pc[e] = "placed"
    /\ \E answer \in Claims(e) : view' = [view EXCEPT ![e] = answer]
    /\ pc' = [pc EXCEPT ![e] = "confirmed"]
    /\ UNCHANGED <<database, exchange, planOf, target, reads>>

\* The userTrades lookup: a quantity found there, which may lag too, replaces
\* that of the order; the status stays the one read before.
PriceEntry(e) ==
    /\ pc[e] = "confirmed"
    /\ \/ \E q \in 1 .. fill[e] : view' = [view EXCEPT ![e].qty = q]
       \/ UNCHANGED view
    /\ pc' = [pc EXCEPT ![e] = "priced"]
    /\ UNCHANGED <<database, exchange, planOf, target, reads>>

ProtectionPair(e) == {<<e, "stop">>, <<e, "tp">>}

\* _place_protection_orders as one step: it records a stop and a take profit
\* or neither, and may leave protection orders live that it does not record.
\* ProtectionPlacement is the procedure itself.
Protect(e) ==
    /\ pc[e] = "priced"
    /\ \E recorded, orphaned \in BOOLEAN :
         /\ pc' = [pc EXCEPT ![e] = IF recorded THEN "protected" ELSE "bare"]
         /\ book' = [k \in OrderKey |->
              IF \/ recorded /\ k \in ProtectionPair(e)
                 \/ orphaned /\ k = <<e, "orphan">>
              THEN "new" ELSE book[k]]
    /\ UNCHANGED <<database, fill, held, planOf, view, target, reads>>

\* Mutant: the status is stored as the exchange spells it.
RawStatus(status, executed, requested) ==
    IF status = "filled" THEN "FILLED" ELSE status

\* _normalize_order_status.
NormalizedStatus(status, executed, requested) ==
    IF executed <= 0 \/ status \in {"filled", "partially_filled"} THEN status
    ELSE IF executed >= requested THEN "filled" ELSE "partially_filled"

\* The quantity stored for the position: an order without a known fill that
\* did not end unfilled is taken to be executed in full.
AssumedQty(status, executed, requested) ==
    IF executed <= 0 /\ status \in {"filled", "partially_filled", "new"}
    THEN requested ELSE executed

\* Mutant: the plan keeps its approved status.
CommitEntryKeepsStatus(e) ==
    LET p == planOf[e]
    IN /\ pc[e] \in {"protected", "bare"}
       /\ position' = [position EXCEPT ![e] =
            [status |-> "open", qty |-> Qty[p], id |-> lastId + 1]]
       /\ lastId' = lastId + 1
       /\ orders' = [orders EXCEPT ![<<e, "entry">>] = "new"]
       /\ pc' = [pc EXCEPT ![e] = "done"]
       /\ view' = [view EXCEPT ![e] = NoView]
       /\ UNCHANGED <<planStatus, exchange, planOf, target, reads>>

\* The single commit of execute_trade_plan.  Protection rows are "new": their
\* status is that of the answer to the placement, which Binance gives as NEW and
\* which the code takes to be new when it is missing.
CommitEntry(e) ==
    LET p      == planOf[e]
        status == NormalizedStatus(view[e].status, view[e].qty, Qty[p])
        stored == [k \in OrderKey |->
                     IF pc[e] = "protected" /\ k \in ProtectionPair(e)
                     THEN "new" ELSE orders[k]]
    IN /\ pc[e] \in {"protected", "bare"}
       /\ planStatus' = [planStatus EXCEPT ![p] = "testnet_executed"]
       /\ position' = [position EXCEPT ![e] =
            [status |-> "open", qty |-> AssumedQty(status, view[e].qty, Qty[p]),
             id |-> lastId + 1]]
       /\ lastId' = lastId + 1
       /\ orders' = [stored EXCEPT ![<<e, "entry">>] = status]
       /\ pc' = [pc EXCEPT ![e] = "done"]
       /\ view' = [view EXCEPT ![e] = NoView]
       /\ UNCHANGED <<exchange, planOf, target, reads>>

\* The process dies after the order was sent, or the commit fails: nothing
\* of the request is stored.
CrashEntry(e) ==
    /\ pc[e] \in {"placed", "confirmed", "priced", "protected", "bare"}
    /\ pc' = [pc EXCEPT ![e] = "failed"]
    /\ view' = [view EXCEPT ![e] = NoView]
    /\ UNCHANGED <<database, exchange, planOf, target, reads>>

\* The paper handler is a plain function run in a thread: it reads the plan,
\* and commits later, whatever happened to the plan in between.
PaperRead(r, p) ==
    /\ pc[r] = "idle"
    /\ planStatus[p] = "approved"
    /\ pc' = [pc EXCEPT ![r] = "checked"]
    /\ planOf' = [planOf EXCEPT ![r] = p]
    /\ UNCHANGED <<database, exchange, view, target, reads>>

\* Its position row carries is_testnet = True, like those of the testnet.
PaperCommit(r) ==
    /\ pc[r] = "checked"
    /\ planStatus' = [planStatus EXCEPT ![planOf[r]] = "paper_executed"]
    /\ position' = [position EXCEPT ![r] =
         [status |-> "open", qty |-> Qty[planOf[r]], id |-> lastId + 1]]
    /\ lastId' = lastId + 1
    /\ pc' = [pc EXCEPT ![r] = "done"]
    /\ UNCHANGED <<orders, exchange, planOf, view, target, reads>>

EntryNext ==
    \/ \E e \in Exec : \/ \E p \in Plan : CheckPlan(e, p)
                       \/ GiveUpEntry(e)
                       \/ PlaceEntry(e)
                       \/ ConfirmEntry(e)
                       \/ PriceEntry(e)
                       \/ Protect(e)
                       \/ CommitEntry(e)
                       \/ CrashEntry(e)
    \/ \E r \in Paper : \/ \E p \in Plan : PaperRead(r, p)
                        \/ PaperCommit(r)
=============================================================================
