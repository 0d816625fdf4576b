------------------------------ MODULE ShadowRun ------------------------------
(***************************************************************************)
(* The comparison of paper trading with testnet trading: the plans of a    *)
(* symbol executed in paper mode are paired, in order of creation, with    *)
(* the plans executed on the testnet, each with the nearest one in time    *)
(* of the same side and timeframe.  The parity report                      *)
(* (execution_parity_service.py) pairs the newest plans of a symbol, the   *)
(* shadow-run summary (shadow_run_reporting_service.py) those of its       *)
(* window; the loop is the same.                                           *)
(*                                                                         *)
(* The differences in percent of a pair are left out: only which plans are *)
(* paired, and how many are reported as unmatched, are told apart.  A      *)
(* queue is the set of the positions in it, and is in the order of the     *)
(* positions.                                                              *)
(***************************************************************************)
EXTENDS Integers, Sequences, FiniteSets, FiniteSetsExt

CONSTANTS Kinds,          \* sides and timeframes, as one value each
          Times,          \* creation times
          MaxPlans,       \* plans in the table
          RowLimit,       \* plans the parity report reads
          MaxPairingDelta \* MAX_PAIRING_DELTA_SECONDS

VARIABLES plans,     \* the executed plans the report reads, oldest first
          paper,     \* the paper plans still to pair, by their position
          testnet,   \* the testnet plans still to pair
          pairs,     \* the pairs made
          unmatched, \* what the report counts: [paper, testnet]
          reported   \* whether the loop is over

shadowVars == <<plans, paper, testnet, pairs, unmatched, reported>>

Executed == [paper : BOOLEAN, kind : Kinds, at : Times]

Tables == {t \in UNION {[1 .. n -> Executed] : n \in 0 .. MaxPlans} :
              \A i, j \in DOMAIN t : i < j => t[i].at <= t[j].at}

\* The newest rows, put back in order of creation.
Newest(table) ==
  SubSeq(table, IF Len(table) > RowLimit THEN Len(table) - RowLimit + 1 ELSE 1,
         Len(table))

\* The positions of the paper plans, or of the testnet plans.
Queue(rows, mode) == {i \in DOMAIN rows : rows[i].paper = mode}

\* What a report reads of a table.
Reads(table) ==
  /\ plans = Newest(table)
  /\ paper = Queue(plans, TRUE)
  /\ testnet = Queue(plans, FALSE)
  /\ pairs = {}
  /\ unmatched = [paper |-> 0, testnet |-> 0]
  /\ reported = FALSE

Init == \E table \in Tables : Reads(table)

Delta(p, t) ==
  LET d == plans[p].at - plans[t].at IN IF d < 0 THEN -d ELSE d

Comparable(p, t) ==
  /\ plans[t].kind = plans[p].kind
  /\ Delta(p, t) <= MaxPairingDelta

\* Mutant: only plans created after the paper plan are looked at.
CandidatesAhead(p) == {t \in testnet : Comparable(p, t) /\ t > p}

Candidates(p) == {t \in testnet : Comparable(p, t)}

\* The nearest candidate, the first of them on a tie.
Match(p) ==
  Min({t \in Candidates(p) : \A u \in Candidates(p) : Delta(p, t) <= Delta(p, u)})

Looping == paper # {} /\ testnet # {}

\* popleft of the paper queue.
First == Min(paper)

PairNearest ==
  /\ Looping
  /\ Candidates(First) # {}
  /\ pairs' = pairs \cup {<<First, Match(First)>>}
  /\ testnet' = testnet \ {Match(First)}
  /\ paper' = paper \ {First}
  /\ UNCHANGED <<plans, unmatched, reported>>

LeaveUnmatched ==
  /\ Looping
  /\ Candidates(First) = {}
  /\ unmatched' = [unmatched EXCEPT !.paper = @ + 1]
  /\ paper' = paper \ {First}
  /\ UNCHANGED <<plans, testnet, pairs, reported>>

\* What is left when a queue runs out is unmatched too.
Report ==
  /\ ~Looping /\ ~reported
  /\ unmatched' = [paper   |-> unmatched.paper + Cardinality(paper),
                   testnet |-> unmatched.testnet + Cardinality(testnet)]
  /\ reported' = TRUE
  /\ UNCHANGED <<plans, paper, testnet, pairs>>

Next == PairNearest \/ LeaveUnmatched \/ Report

Spec == Init /\ [][Next]_shadowVars

-----------------------------------------------------------------------------
(* Properties. *)

TypeOK ==
  /\ plans \in Seq(Executed)
  /\ paper \cup testnet \subseteq DOMAIN plans
  /\ pairs \subseteq (DOMAIN plans) \X (DOMAIN plans)
  /\ unmatched \in [paper : Nat, testnet : Nat]
  /\ reported \in BOOLEAN

\* The positions of one mode.
Positions(mode) == {i \in DOMAIN plans : plans[i].paper = mode}

\* A report accounts for every executed plan exactly once, in one pair or as
\* unmatched, whatever queue runs out first, and taking the nearest plan in
\* turn leaves out no comparison that could still be made: no paper plan and
\* testnet plan that nobody paired are comparable.
NoPairMissed ==
  reported =>
    /\ Cardinality(Positions(TRUE)) = Cardinality(pairs) + unmatched.paper
    /\ Cardinality(Positions(FALSE)) = Cardinality(pairs) + unmatched.testnet
    /\ \A a, b \in pairs : a # b => a[1] # b[1] /\ a[2] # b[2]
    /\ \A p \in Positions(TRUE), t \in Positions(FALSE) :
         \/ \E q \in pairs : q[1] = p \/ q[2] = t
         \/ ~Comparable(p, t)
=============================================================================
