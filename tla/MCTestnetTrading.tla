-------------------------- MODULE MCTestnetTrading --------------------------
(* Small instances of TestnetTrading for TLC. *)
EXTENDS TestnetTrading, FiniteSets, TLC

CONSTANTS a, b, btc,
    MaxFaults    \* crashes, lost answers, expired and orphaned orders together

OneSymbol == [p \in Plan |-> btc]
AllLong   == [p \in Plan |-> 1]
LongShort == [p \in Plan |-> IF p = a THEN 1 ELSE -1]
QtyOne    == [p \in Plan |-> 1]
QtyTwo    == [p \in Plan |-> 2]

Symmetry == Permutations(Plan) \cup Permutations(Exec)

\* The states TLC explores further: those with few faults.
FaultBound ==
    Cardinality({r \in Request : pc[r] = "failed"})
    + Cardinality({k \in OrderKey : book[k] = "expired"})
    + Cardinality({e \in Exec : book[<<e, "orphan">>] # "absent"}) <= MaxFaults
=============================================================================
