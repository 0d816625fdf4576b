-------------------------- MODULE MCReconciliation --------------------------
(* The instances of MCTestnetTrading with a reconciliation beside them. *)
EXTENDS Reconciliation, MCTestnetTrading

QtyByPlan == [p \in Plan |-> IF p = a THEN 2 ELSE 1]

\* A finished report changes no more: nothing is explored after it, as the
\* handlers alone are explored before it starts.
UntilDone == ~Done

EntriesRejected == Exec \X {"entry"}

\* The trading core alone, for what the shadow-run report counts.
CoreSpec == Init /\ report = NoReport /\ ever = {} /\ always = {}
            /\ [][Next /\ UNCHANGED <<report, ever, always>>]_reportVars
=============================================================================
