------------------------------ MODULE Exchange ------------------------------
(***************************************************************************)
(* The Binance futures testnet as the services use it: one net position    *)
(* per symbol, market orders that fill at once, in parts or not at all,    *)
(* reduceOnly closes, and protection orders placed with closePosition.     *)
(* It acts on its own between any two steps of the handlers.               *)
(***************************************************************************)
EXTENDS TestnetState

\* An entry executes some of what it has left.
FillEntry(e) ==
    LET k == <<e, "entry">>
        p == KeyPlan(k)
    IN /\ book[k] \in Live
       /\ \E x \in 1 .. Qty[p] - fill[e] :
            /\ fill' = [fill EXCEPT ![e] = @ + x]
            /\ held' = [held EXCEPT ![SymbolOf[p]] = @ + Dir[p] * x]
            /\ book' = [book EXCEPT ![k] =
                 IF fill[e] + x = Qty[p] THEN "filled" ELSE "partially_filled"]
       /\ UNCHANGED <<database, pc, planOf, view, target, reads>>

\* A reduceOnly close executes at most what the account still holds.  One
\* that flattens the account before its quantity is reached may be reported
\* filled.
FillExit(s) ==
    LET k == <<s, "exit">>
        p == KeyPlan(k)
        left == position[target[s]].qty - fill[s]
    IN /\ book[k] \in Live
       /\ \E x \in 1 .. left :
            /\ x <= Exposure(p)
            /\ fill' = [fill EXCEPT ![s] = @ + x]
            /\ held' = [held EXCEPT ![SymbolOf[p]] = @ - Dir[p] * x]
            /\ \E status \in {"partially_filled", "filled"} :
                 /\ x = left => status = "filled"
                 /\ x < left /\ x < Exposure(p) => status = "partially_filled"
                 /\ book' = [book EXCEPT ![k] = status]
       /\ UNCHANGED <<database, pc, planOf, view, target, reads>>

\* The mark price reaches a protection order: it closes what the account
\* holds in its direction, in one fill or in several.
Trigger(k) ==
    LET p == KeyPlan(k)
    IN /\ book[k] \in Live
       /\ \E x \in 1 .. Exposure(p) :
            /\ held' = [held EXCEPT ![SymbolOf[p]] = @ - Dir[p] * x]
            /\ book' = [book EXCEPT ![k] =
                 IF x = Exposure(p) THEN "filled" ELSE "partially_filled"]
       /\ UNCHANGED <<database, fill, pc, planOf, view, target, reads>>

\* An order ends with something unexecuted: a market order without a
\* counterpart, a protection order that finds no position, an order the
\* account's owner cancels.
Expire(k) ==
    /\ book[k] \in Live
    /\ book' = [book EXCEPT ![k] = "expired"]
    /\ UNCHANGED <<database, fill, held, pc, planOf, view, target, reads>>

ExchangeNext ==
    \/ \E e \in Exec : FillEntry(e)
    \/ \E s \in Sync : FillExit(s)
    \/ \E k \in Protective : Trigger(k)
    \/ \E k \in OrderKey : Expire(k)
=============================================================================
