--------------------------- MODULE MCWorkerCycle ---------------------------
(***************************************************************************)
(* Instances of WorkerCycle for TLC.                                       *)
(***************************************************************************)
EXTENDS WorkerCycle, Functions

CONSTANT MaxFaults  \* lost calls, restarts and demo packs together

FaultBound == SumFunction(lost) + restarts + demos <= MaxFaults

\* A worker on paper needs no fallback, and without one a switch does what a
\* demo pack does.
AllSettings ==
    {s \in [paper : BOOLEAN, fallback : BOOLEAN, halted : SUBSET Key] :
        /\ s.paper => ~s.fallback
        /\ ~s.fallback => s.halted = {}}

\* Testnet trading with the paper fallback and no switch set.
TestnetSettings == {[paper |-> FALSE, fallback |-> TRUE, halted |-> {}]}
=============================================================================
