--------------------------- MODULE PositionLedger ---------------------------
(***************************************************************************)
(* What the trading core promises about positions, without handlers,       *)
(* sessions or orders: a row opens once, for a plan that was not blocked,  *)
(* and marks the plan executed; it closes once, after the exchange has     *)
(* filled an exit of the plan; nothing else happens to it.                 *)
(***************************************************************************)
CONSTANTS Plan, Row, None

VARIABLES
    row,       \* "none", "open" or "closed", by row
    owner,     \* the plan of a row
    barred,    \* plans that may not trade
    executed,  \* plans for which a row was opened
    exited     \* plans of which the exchange filled an exit

vars == <<row, owner, barred, executed, exited>>

Init ==
    /\ row = [r \in Row |-> "none"]
    /\ owner = [r \in Row |-> None]
    /\ barred \in SUBSET Plan
    /\ executed = {}
    /\ exited = {}

Open(r, p) ==
    /\ row[r] = "none"
    /\ p \notin barred
    /\ row' = [row EXCEPT ![r] = "open"]
    /\ owner' = [owner EXCEPT ![r] = p]
    /\ executed' = executed \cup {p}
    /\ UNCHANGED <<barred, exited>>

\* An exit of a plan with a position is filled.
Exit(p) ==
    /\ p \notin barred
    /\ exited' = exited \cup {p}
    /\ UNCHANGED <<row, owner, barred, executed>>

\* Two tasks may close the same row; the second changes nothing.
Close(r) ==
    /\ row[r] = "open"
    /\ owner[r] \in exited
    /\ row' = [row EXCEPT ![r] = "closed"]
    /\ UNCHANGED <<owner, barred, executed, exited>>

Next ==
    \/ \E r \in Row, p \in Plan : Open(r, p)
    \/ \E p \in Plan : Exit(p)
    \/ \E r \in Row : Close(r)

Spec == Init /\ [][Next]_vars
=============================================================================
