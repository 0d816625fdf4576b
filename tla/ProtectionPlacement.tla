------------------------ MODULE ProtectionPlacement ------------------------
(***************************************************************************)
(* _place_protection_orders call by call: a stop and a take profit as algo *)
(* orders; when one of them fails, what is known to be placed is cancelled *)
(* and both are placed again as legacy orders; when that fails too, the    *)
(* legacy stop is cancelled and nothing is recorded.  A client without     *)
(* algo orders gets one attempt and no cleanup.                            *)
(*                                                                         *)
(* This is the step Protect of EntryExecution, which keeps of it whether a *)
(* pair is recorded and whether orders are left live that are not.         *)
(***************************************************************************)
EXTENDS Naturals

Key == {"algo", "legacy"} \X {"stop", "tp"}

VARIABLES
    step,      \* the next call of the procedure, or its result
    hasAlgo,   \* the client has both algo methods; it never changes
    usedAlgo,  \* used_algo_orders
    refs,      \* orders whose identifier the procedure holds
    rows,      \* orders it returns to be stored
    book,      \* the orders at the exchange
    strayed    \* live orders whose placement or whose cancellation raised

vars == <<step, hasAlgo, usedAlgo, refs, rows, book, strayed>>

Init ==
    /\ hasAlgo \in BOOLEAN
    /\ usedAlgo = hasAlgo
    /\ step = IF hasAlgo THEN "algo stop" ELSE "only stop"
    /\ refs = {}
    /\ rows = {}
    /\ book = [k \in Key |-> "absent"]
    /\ strayed = {}

\* The request for order k is answered with an identifier.
Accept(k) ==
    /\ book' = [book EXCEPT ![k] = "live"]
    /\ refs' = refs \cup {k}
    /\ UNCHANGED strayed

\* The request raises: it is refused, or its answer is lost.
Raise(k) ==
    /\ \/ UNCHANGED <<book, strayed>>
       \/ /\ book' = [book EXCEPT ![k] = "live"]
          /\ strayed' = strayed \cup {k}
    /\ UNCHANGED refs

Try(at, k, accepted, raised) ==
    /\ step = at
    /\ \/ Accept(k) /\ step' = accepted
       \/ Raise(k) /\ step' = raised
    /\ UNCHANGED <<hasAlgo, usedAlgo, rows>>

PlaceAlgoStop == Try("algo stop", <<"algo", "stop">>, "algo tp", "clean algo")

PlaceAlgoTp == Try("algo tp", <<"algo", "tp">>, "record", "clean algo")

\* _cancel_exchange_order_ref: a cancellation that raises is logged, and the
\* procedure goes on.
Cancel(k) ==
    \/ /\ book[k] = "live"
       /\ book' = [book EXCEPT ![k] = "canceled"]
       /\ UNCHANGED strayed
    \/ /\ strayed' = IF book[k] = "live" THEN strayed \cup {k} ELSE strayed
       /\ UNCHANGED book

\* Mutant: the fallback starts without cleaning up.
CleanAlgoSkipped ==
    /\ step = "clean algo"
    /\ refs' = {}
    /\ step' = "legacy stop"
    /\ UNCHANGED <<hasAlgo, usedAlgo, rows, book, strayed>>

\* The cleanup before the fallback.  The take profit is the last request of
\* the attempt that failed: its identifier is never known here.
CleanAlgo ==
    /\ step = "clean algo"
    /\ IF <<"algo", "stop">> \in refs
       THEN Cancel(<<"algo", "stop">>)
       ELSE UNCHANGED <<book, strayed>>
    /\ refs' = {}
    /\ step' = "legacy stop"
    /\ UNCHANGED <<hasAlgo, usedAlgo, rows>>

PlaceLegacyStop == Try("legacy stop", <<"legacy", "stop">>, "legacy tp", "clean legacy")

PlaceLegacyTp ==
    /\ step = "legacy tp"
    /\ \/ /\ Accept(<<"legacy", "tp">>)
          /\ usedAlgo' = FALSE
          /\ step' = "record"
       \/ /\ Raise(<<"legacy", "tp">>)
          /\ step' = "clean legacy"
          /\ UNCHANGED usedAlgo
    /\ UNCHANGED <<hasAlgo, rows>>

CleanLegacy ==
    /\ step = "clean legacy"
    /\ IF <<"legacy", "stop">> \in refs
       THEN Cancel(<<"legacy", "stop">>)
       ELSE UNCHANGED <<book, strayed>>
    /\ step' = "bare"
    /\ UNCHANGED <<hasAlgo, usedAlgo, refs, rows>>

\* A client without algo orders.
PlaceOnlyStop == Try("only stop", <<"legacy", "stop">>, "only tp", "bare")

PlaceOnlyTp == Try("only tp", <<"legacy", "tp">>, "record", "bare")

\* Mutant: an order that is not an algo order has no kind.
KindOfAlgoOnly == IF usedAlgo THEN "algo" ELSE "none"

Kind == IF usedAlgo THEN "algo" ELSE "legacy"

Record ==
    /\ step = "record"
    /\ rows' = {<<Kind, "stop">>, <<Kind, "tp">>}
    /\ step' = "protected"
    /\ UNCHANGED <<hasAlgo, usedAlgo, refs, book, strayed>>

\* The exchange executes an order or lets it expire.
Settle(k) ==
    /\ book[k] = "live"
    /\ book' = [book EXCEPT ![k] = "ended"]
    /\ UNCHANGED <<step, hasAlgo, usedAlgo, refs, rows, strayed>>

Next ==
    \/ PlaceAlgoStop
    \/ PlaceAlgoTp
    \/ CleanAlgo
    \/ PlaceLegacyStop
    \/ PlaceLegacyTp
    \/ CleanLegacy
    \/ PlaceOnlyStop
    \/ PlaceOnlyTp
    \/ Record
    \/ \E k \in Key : Settle(k)

Spec == Init /\ [][Next]_vars

Finished == step \in {"protected", "bare"}

Step == {"algo stop", "algo tp", "clean algo", "legacy stop", "legacy tp",
         "clean legacy", "only stop", "only tp", "record", "protected", "bare"}

\* Types of the procedure's variables and of the exchange.
TypeOK ==
    /\ step \in Step
    /\ hasAlgo \in BOOLEAN
    /\ usedAlgo \in BOOLEAN
    /\ refs \subseteq Key
    /\ rows \subseteq Key
    /\ book \in [Key -> {"absent", "live", "ended", "canceled"}]
    /\ strayed \subseteq Key

\* With a client that has algo orders, the attempt and its fallback leave no
\* live order behind that is not stored, unless the answer to its placement was
\* lost or its cancellation failed.
OrphansNeedLostAnswers ==
    Finished /\ hasAlgo =>
        \A k \in Key \ rows : book[k] = "live" => k \in strayed
=============================================================================
